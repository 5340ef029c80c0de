--------------------------- MODULE InterviewerAgent ---------------------------
(***************************************************************************)
(* The interviewer agent holding one interview: the Redis job it is given  *)
(* (auto_worker.py), the LiveKit worker and its controller                 *)
(* (livekit_openai_worker.py), the orchestrator's policy (orchestrator.py) *)
(* and the inactivity coordinator (inactivity.py), writing to the session  *)
(* log of the realtime service.                                            *)
(*                                                                         *)
(* The worker is one asyncio process.  What speaks does so under the       *)
(* controller's lock and is here an operation with a list of things left   *)
(* to do; a cancelled task loses the rest of its list, an event that is    *)
(* refused or not answered raises through it.  Candidate, LiveKit, timers, *)
(* network and process failures happen between any two of its steps.       *)
(***************************************************************************)
EXTENDS SessionLog, AgentEvents, Sequences, FiniteSetsExt

CONSTANTS
    MaxAttempts,    \* auto_worker's attempts before a job is dead
    TurnKinds,      \* what the classifier can make of the candidate's turns
    Aways,          \* whether LiveKit can report the candidate away
    Leaves,         \* how often the candidate's connection can drop
    MaxFaults       \* lost requests, answers and worker crashes

ASSUME AgentAssumption ==
    /\ MaxAttempts \in Nat \ {0}
    /\ TurnKinds \subseteq {"withdraw", "previous", "wait", "skip", "repeat",
                            "vague", "incomplete", "complete"}
    /\ Aways \in BOOLEAN
    /\ Leaves \in Nat
    /\ MaxFaults \in Nat

VARIABLES
    job,            \* the agent-join job in the Redis stream
    worker,         \* how far the worker's main task is
    ctl,            \* the controller and its orchestrator
    op,             \* who holds the controller's lock, and what is left to do
    waiting,        \* tasks waiting for the lock
    turn,           \* the candidate's turn
    inactivity,     \* the inactivity coordinator's task
    absence,        \* the absence monitor's timer
    candidate,      \* the candidate's connection
    covered,        \* questions completed and not reopened since, in the log
    outcome,        \* the reason on the log's session_completed
    faults

controllerVars == <<job, worker, ctl, op, waiting, turn, inactivity, absence, candidate, covered,
                    outcome, faults>>

agentVars == <<session, lag, controllerVars>>

Questions == 1 .. N

Phases == {"none", "claimed", "joining", "starting", "conducting", "closing", "draining"}

Holders == {"none", "main", "record", "turn", "inactivity", "reconnect", "control", "recovered",
            "maxduration"}

Waiters == {"reconnect", "repeat", "skip", "recovered"}

\* The things an operation does, in the order of its list.
Steps == {"turn", "assess", "evaluated", "ask", "repeat", "wait", "followup", "reprompt", "again",
          "reopen", "reopened", "play", "asked", "extend", "completed", "next", "noted", "line",
          "closing", "end", "fail", "closed", "disconnect"}

NoOp == [by |-> "none", todo |-> <<>>]

Op(by, todo) == [by |-> by, todo |-> todo]

NoTurn == [state |-> "none", fresh |-> FALSE, ids |-> FALSE, resumed |-> FALSE]

NewController == [current |-> 0, completed |-> {}, reprompts |-> [q \in Questions |-> 0],
                  followups |-> [q \in Questions |-> 0], connected |-> TRUE,
                  terminal |-> FALSE, closed |-> FALSE, broken |-> FALSE,
                  target |-> 0, reason |-> "none"]

ControllerInit ==
    /\ job = [at |-> "none", attempts |-> 0]
    /\ worker = "none"
    /\ ctl = NewController
    /\ op = NoOp
    /\ waiting = {}
    /\ turn = NoTurn
    /\ inactivity = "off"
    /\ absence = "here"
    /\ candidate = [present |-> TRUE, room |-> FALSE, left |-> 0]
    /\ covered = {}
    /\ outcome = "none"
    /\ faults = 0

\* The session as its job finds it: both of the candidate's events are in.
AgentInit ==
    /\ session = [status |-> "agent_joining", types |-> CandidateTypes]
    /\ lag = [w \in Writers |-> 0]
    /\ ControllerInit

Fail == faults < MaxFaults /\ faults' = faults + 1

Locked == op.by # "none"

\* The controller does nothing for a candidate who is gone, or once it has
\* begun to end the interview.
Attentive == ~ctl.terminal /\ ctl.connected /\ ctl.current # 0

-----------------------------------------------------------------------------
(* The orchestrator: what a classified turn leads to.                      *)

\* Mistake for the checks to catch: the last question need not be over.
NextQuestion_ByIndex(c) ==
    IF c.current >= N - 1 THEN [c EXCEPT !.current = 0, !.terminal = TRUE, !.reason = "all"]
                      ELSE [c EXCEPT !.current = @ + 1]

\* mark_question_completed: the next question is found by counting.
NextQuestion(c) ==
    LET done == c.completed \cup {c.current}
    IN  IF Cardinality(done) >= N
        THEN [c EXCEPT !.completed = done, !.current = 0, !.terminal = TRUE, !.reason = "all"]
        ELSE [c EXCEPT !.completed = done, !.current = Cardinality(done) + 1]

\* reopen_question
Reopen(c, q) == [c EXCEPT !.completed = @ \ {q}, !.current = q, !.target = 0]

\* _question_to_resume: the first question when the candidate says so, else the
\* one before, else the last completed one.
ResumeTargets(c) ==
    IF c.completed = {} THEN {}
    ELSE {Min(c.completed),
          IF c.current - 1 \in c.completed THEN c.current - 1 ELSE Max(c.completed)}

Complete == <<"evaluated", "completed", "next">>

Say(prompt) == <<prompt, "play">>

\* _close_session
Close == Say("closing") \o <<"end", "closed">>

\* _can_follow_up and _can_reprompt
CanFollowUp(c) == c.followups[c.current] < 1

CanReprompt(c) == c.reprompts[c.current] < 2

\* evaluate_answer and _policy_command: the command of a turn classified `kind`
\* and the counters it uses up.
Policy(c, kind) ==
    CASE kind = "repeat" -> [ctl |-> c, todo |-> <<"evaluated">> \o Say("repeat")]
      [] kind = "wait"   -> [ctl |-> c, todo |-> <<"evaluated">> \o Say("wait") \o <<"extend">>]
      [] kind = "vague" /\ CanFollowUp(c) ->
            [ctl |-> [c EXCEPT !.followups[c.current] = @ + 1],
             todo |-> <<"evaluated">> \o Say("followup")]
      [] kind = "incomplete" /\ CanReprompt(c) ->
            [ctl |-> [c EXCEPT !.reprompts[c.current] = @ + 1],
             todo |-> <<"evaluated">> \o Say("reprompt")]
      [] OTHER -> [ctl |-> c, todo |-> Complete]

-----------------------------------------------------------------------------
(* Events and their fate.                                                  *)

EventOf(step) ==
    CASE step = "end"  -> "session_completed"
      [] step = "fail" -> "session_failed"
      [] OTHER         -> "talk"

\* What tells two payloads of a step apart: the budget it uses up, whether its
\* turns are on record, whether a button asked for it.
Variant(step) ==
    CASE step = "followup"  -> ctl.followups[ctl.current]
      [] step = "reprompt"  -> ctl.reprompts[ctl.current]
      [] step = "evaluated" -> IF turn.ids \/ op.by = "control" THEN 1 ELSE 0
      [] step = "again"     -> IF op.by = "control" THEN 1 ELSE 0
      [] step = "line"      -> IF inactivity = "timeout" THEN 1 ELSE 0
      [] OTHER              -> 0

\* IngestEvent's validation of the payload.
ValidPayload(step) == <<step, Variant(step)>> \in Accepted

\* What the log then says of the plan.
Covers(step) ==
    /\ covered' = CASE step = "completed" -> covered \cup {ctl.current}
                    [] step = "reopened"  -> covered \ {ctl.current}
                    [] OTHER              -> covered
    /\ outcome' = IF step = "end" THEN ctl.reason ELSE outcome

Written(step, type, valid) == Accepts(Agent, type, valid) /\ AppendEvent(Agent, type) /\ Covers(step)

\* The emitter has counted the event, the log has not.
Miscounted == lag' = [lag EXCEPT ![Agent] = Clip(@ + 1)] /\ UNCHANGED <<session, covered, outcome>>

\* The request raises: the event is refused, or the request or its answer is lost.
Raises(step, type, valid) ==
    \/ ~Accepts(Agent, type, valid) /\ Miscounted /\ UNCHANGED faults
    \/ Fail /\ Miscounted
    \/ Fail /\ Written(step, type, valid)

\* A task cancelled while its event may be on the way.
CutShort(step) ==
    \/ UNCHANGED <<session, lag, covered, outcome>>
    \/ step \in {"line", "fail"} /\ Miscounted
    \/ step \in {"line", "fail"} /\ Written(step, EventOf(step), TRUE)

-----------------------------------------------------------------------------
(* The job.                                                                *)

\* dispatchAgentIfNeeded, after the candidate's media are ready: an error is only
\* logged, and the event is not handled a second time.
Dispatch ==
    /\ job.at = "none"
    /\ \/ job' = [job EXCEPT !.at = "queued"] /\ UNCHANGED faults
       \/ job' = [job EXCEPT !.at = "lost"] /\ Fail
    /\ UNCHANGED <<session, lag, worker, ctl, op, waiting, turn, inactivity, absence, candidate,
                   covered, outcome>>

\* next_job, execute_job: the disposition of the session decides.
Claim ==
    /\ job.at = "queued"
    /\ worker = "none"
    /\ IF session.types \cap {"session_completed", "session_failed"} # {}
       THEN job' = [job EXCEPT !.at = "acked"] /\ UNCHANGED worker
       ELSE job' = [job EXCEPT !.at = "claimed"] /\ worker' = "claimed"
    /\ UNCHANGED <<session, lag, ctl, op, waiting, turn, inactivity, absence, candidate, covered,
                   outcome, faults>>

\* Everything the process knew is gone, and it has left the room.
Forget ==
    /\ worker' = "none"
    /\ ctl' = NewController
    /\ op' = NoOp
    /\ waiting' = {}
    /\ turn' = NoTurn
    /\ inactivity' = "off"
    /\ absence' = "here"
    /\ candidate' = [candidate EXCEPT !.room = FALSE]

\* Mistake for the checks to catch: the attempt is not counted in the job that
\* is queued again.
Retry_Uncounted == Forget /\ job' = [job EXCEPT !.at = "queued"]

\* run_job's end: run() raised, and the job is queued again or dead.
Retry ==
    /\ Forget
    /\ job' = IF job.attempts + 1 >= MaxAttempts
              THEN [job EXCEPT !.at = "dead"]
              ELSE [at |-> "queued", attempts |-> job.attempts + 1]

\* The worker dies, or is cancelled because it lost its lease: the job stays
\* pending until it is claimed again, with the attempts it had.
WorkerDies ==
    /\ job.at = "claimed"
    /\ Fail
    /\ Forget
    /\ job' = [job EXCEPT !.at = "queued"]
    /\ UNCHANGED <<session, lag, covered, outcome>>

MainRaises == Retry

\* count_events, then agent_joined.
Join ==
    /\ worker = "claimed"
    /\ worker' = "joining"
    /\ lag' = [lag EXCEPT ![Agent] = 0]
    /\ candidate' = [candidate EXCEPT !.room = TRUE]
    /\ UNCHANGED <<session, job, ctl, op, waiting, turn, inactivity, absence, covered, outcome,
                   faults>>

\* The two events of the main task.  Between them the session and the monitors
\* are built; the monitor starts its timer for a candidate who is not there.
MainEmits(phase, type, next) ==
    /\ worker = phase
    /\ \/ /\ Written("none", type, TRUE)
          /\ worker' = next
          /\ IF next = "conducting"
             THEN /\ ctl' = [ctl EXCEPT !.current = 1]
                  /\ op' = Op("main", Say("ask") \o <<"asked">>)
                  /\ UNCHANGED absence
             ELSE /\ ctl' = [ctl EXCEPT !.connected = candidate.present]
                  /\ absence' = IF candidate.present THEN "here" ELSE "grace"
                  /\ UNCHANGED op
          /\ UNCHANGED <<job, waiting, turn, inactivity, candidate, faults>>
       \/ Raises("none", type, TRUE) /\ MainRaises

EmitAgentJoined == MainEmits("joining", "agent_joined", "starting")

EmitSessionStarted == MainEmits("starting", "session_started", "conducting")

\* The room is gone or the controller closed: run() stops the coordinator and
\* drains the bridge.
Conducted ==
    /\ worker = "conducting"
    /\ op.by # "main"
    /\ ctl.closed \/ ~candidate.room
    /\ worker' = "draining"
    /\ candidate' = [candidate EXCEPT !.room = FALSE]
    /\ inactivity' = "off"
    /\ IF op.by = "inactivity" THEN op' = NoOp /\ CutShort(Head(op.todo))
                               ELSE UNCHANGED <<op, session, lag, covered, outcome>>
    /\ UNCHANGED <<job, ctl, waiting, turn, absence, faults>>

\* The maximum duration: after a turn boundary the controller is asked to close,
\* which it does unless it has already begun to.
MaxDuration ==
    /\ worker = "conducting"
    /\ op.by # "main"
    /\ ~ctl.closed
    /\ candidate.room
    /\ worker' = "closing"
    /\ UNCHANGED <<session, lag, job, ctl, op, waiting, turn, inactivity, absence, candidate,
                   covered, outcome, faults>>

CloseForMaxDuration ==
    /\ worker = "closing"
    /\ ~Locked
    /\ IF ctl.terminal
       THEN /\ worker' = "draining"
            /\ inactivity' = "off"
            /\ UNCHANGED <<ctl, op>>
       ELSE /\ ctl' = [ctl EXCEPT !.terminal = TRUE, !.current = 0, !.reason = "other"]
            /\ op' = Op("maxduration", Close)
            /\ UNCHANGED <<worker, inactivity>>
    /\ UNCHANGED <<session, lag, job, waiting, turn, absence, candidate, covered, outcome, faults>>

\* drain: every task of the bridge has ended; the first that failed raises.
Drained ==
    /\ worker = "draining"
    /\ ~Locked
    /\ waiting = {}
    /\ turn.state \in {"none", "speaking"}
    /\ IF ctl.broken THEN Retry ELSE Forget /\ job' = [job EXCEPT !.at = "acked"]
    /\ UNCHANGED <<session, lag, covered, outcome, faults>>

-----------------------------------------------------------------------------
(* The controller's operations.                                            *)

Conducting == worker \in {"conducting", "closing", "draining"}

Begin(next) == op' = next

Rest == [op EXCEPT !.todo = Tail(@)]

\* What is left of the operation once its step is done.
Continue(o) == IF o.todo = <<>> THEN NoOp ELSE o

\* The error goes where the task of the operation leaves it: the bridge keeps it
\* for drain, the main task ends with it, the coordinator's task dies of it.
OpRaises ==
    IF op.by \in {"main", "maxduration"}
    THEN MainRaises
    ELSE /\ op' = NoOp
         /\ ctl' = [ctl EXCEPT !.broken = @ \/ op.by \in {"record", "turn", "reconnect", "control"}]
         /\ inactivity' = IF op.by = "inactivity" THEN "off" ELSE inactivity
         /\ turn' = IF op.by \in {"record", "turn"} THEN NoTurn
                    ELSE [turn EXCEPT !.fresh = @ /\ Head(op.todo) \notin Prompts]
         /\ UNCHANGED <<job, worker, waiting, absence, candidate>>

\* A step that posts an event.  Every prompt makes the turns before it stale.
EmitStep ==
    /\ Locked
    /\ Head(op.todo) \in Posting
    /\ LET step == Head(op.todo)
           type == EventOf(step)
       IN  \/ /\ Written(step, type, ValidPayload(step))
              /\ op' = Continue(Rest)
              /\ turn' = IF step \in Prompts THEN [turn EXCEPT !.fresh = FALSE]
                         ELSE IF step = "turn" THEN [turn EXCEPT !.state = "recorded", !.ids = TRUE]
                         ELSE turn
              /\ UNCHANGED <<job, worker, ctl, waiting, inactivity, absence, candidate, faults>>
           \/ Raises(step, type, ValidPayload(step)) /\ OpRaises

\* Speech has been played, or was talked over.
PlayStep ==
    /\ Locked
    /\ Head(op.todo) = "play"
    /\ op' = Continue(Rest)
    /\ inactivity' = IF op.by = "inactivity" /\ Tail(op.todo) = <<>>
                     THEN (IF inactivity = "check_in" THEN "checked" ELSE "warned")
                     ELSE inactivity
    /\ UNCHANGED <<session, lag, job, worker, ctl, waiting, turn, absence, candidate, covered,
                   outcome, faults>>

\* _evaluate_and_execute after the inference answered: nothing changed meanwhile.
VerdictStands == ctl.connected /\ ~ctl.terminal /\ ~turn.resumed

\* The verdict on the turn; when it no longer stands the answer is kept for the
\* turn that continues it.
Assess ==
    /\ op.by = "turn"
    /\ Head(op.todo) = "assess"
    /\ \/ /\ ~VerdictStands
          /\ op' = NoOp
          /\ turn' = NoTurn
          /\ UNCHANGED ctl
       \/ /\ VerdictStands
          /\ \E kind \in TurnKinds \ {"withdraw", "previous"} :
                LET next == Policy(ctl, kind)
                IN  ctl' = next.ctl /\ op' = Op("turn", next.todo)
          /\ UNCHANGED turn
    /\ UNCHANGED <<session, lag, job, worker, waiting, inactivity, absence, candidate, covered,
                   outcome, faults>>

\* Steps of the operation that only touch the worker's memory.
MemoryStep ==
    /\ Locked
    /\ Head(op.todo) \in {"asked", "next", "extend", "closed", "disconnect"}
    /\ CASE Head(op.todo) = "next" ->
              LET c == NextQuestion(ctl)
              IN  /\ ctl' = c
                  /\ op' = Op(op.by, IF c.terminal THEN Close ELSE Say("ask") \o <<"asked">>)
                  /\ UNCHANGED <<inactivity, candidate>>
         [] Head(op.todo) = "closed" ->
              /\ ctl' = [ctl EXCEPT !.closed = TRUE]
              /\ op' = Continue(Rest)
              /\ UNCHANGED <<inactivity, candidate>>
         [] Head(op.todo) = "extend" ->
              /\ inactivity' = "extension"
              /\ op' = Continue(Rest)
              /\ UNCHANGED <<ctl, candidate>>
         [] Head(op.todo) = "disconnect" ->
              /\ candidate' = [candidate EXCEPT !.room = FALSE]
              /\ inactivity' = "off"
              /\ op' = Continue(Rest)
              /\ UNCHANGED ctl
         [] OTHER -> op' = Continue(Rest) /\ UNCHANGED <<ctl, inactivity, candidate>>
    /\ UNCHANGED <<session, lag, job, worker, waiting, turn, absence, covered, outcome, faults>>

\* The main task goes on when its first question is asked, or the closing said.
Closed ==
    /\ worker = "closing"
    /\ ~Locked
    /\ ctl.closed
    /\ worker' = "draining"
    /\ inactivity' = "off"
    /\ UNCHANGED <<session, lag, job, ctl, op, waiting, turn, absence, candidate, covered, outcome,
                   faults>>

\* A committed turn: its transcript is recorded under the lock, and its policy
\* is driven later under the lock, when everything may have changed.
RecordTurn ==
    /\ Conducting
    /\ ~Locked
    /\ turn.state = "committed"
    /\ IF Attentive
       THEN Begin(Op("record", <<"turn">>)) /\ UNCHANGED turn
       ELSE turn' = [turn EXCEPT !.state = "recorded"] /\ UNCHANGED op
    /\ UNCHANGED <<session, lag, job, worker, ctl, waiting, inactivity, absence, candidate, covered,
                   outcome, faults>>

\* _candidate_turn_drives_policy: the turn answers the prompt that was last.
DrivesPolicy == turn.fresh

HandleTurn ==
    /\ Conducting
    /\ ~Locked
    /\ turn.state = "recorded"
    /\ \/ /\ ~Attentive
          /\ turn' = NoTurn
          /\ UNCHANGED <<ctl, op>>
       \/ /\ Attentive
          /\ "withdraw" \in TurnKinds
          /\ ctl' = [ctl EXCEPT !.terminal = TRUE, !.current = 0, !.reason = "other"]
          /\ Begin(Op("turn", Close))
          /\ turn' = [turn EXCEPT !.state = "handled", !.resumed = FALSE]
       \/ /\ Attentive
          /\ "previous" \in TurnKinds
          /\ \E q \in ResumeTargets(ctl) :
                /\ ctl' = [ctl EXCEPT !.target = q]
                /\ Begin(Op("turn", <<"evaluated", "reopen", "reopened", "play", "asked">>))
          /\ turn' = [turn EXCEPT !.state = "handled", !.resumed = FALSE]
       \/ /\ Attentive
          /\ ~DrivesPolicy
          /\ turn' = NoTurn
          /\ UNCHANGED <<ctl, op>>
       \/ /\ Attentive
          /\ DrivesPolicy
          /\ Begin(Op("turn", <<"assess">>))
          /\ turn' = [turn EXCEPT !.state = "handled", !.resumed = FALSE]
          /\ UNCHANGED ctl
    /\ UNCHANGED <<session, lag, job, worker, waiting, inactivity, absence, candidate, covered,
                   outcome, faults>>

\* _resume_previous_answer once its evaluation is in the log.
ReopenStep ==
    /\ Locked
    /\ Head(op.todo) = "reopen"
    /\ ctl' = Reopen(ctl, ctl.target)
    /\ op' = Continue(Rest)
    /\ UNCHANGED <<session, lag, job, worker, waiting, turn, inactivity, absence, candidate,
                   covered, outcome, faults>>

\* The turn is over when its operation is.
TurnOver ==
    /\ turn.state = "handled"
    /\ op.by # "turn"
    /\ turn' = NoTurn
    /\ UNCHANGED <<session, lag, job, worker, ctl, op, waiting, inactivity, absence, candidate,
                   covered, outcome, faults>>

\* Other tasks that take the lock: the question said again after a reconnection
\* or a click, with a reason of its own, a recovered silence put on record.  A
\* reconnection counts as one when the lock is taken.
BeginWaiting(task) ==
    /\ Conducting
    /\ ~Locked
    /\ task \in waiting
    /\ waiting' = waiting \ {task}
    /\ ctl' = IF task = "reconnect" THEN [ctl EXCEPT !.connected = TRUE] ELSE ctl
    /\ op' = CASE task = "reconnect" /\ ~ctl.terminal /\ ctl.current # 0 ->
                     Op("reconnect", <<"again", "play">>)
               [] task = "repeat" /\ Attentive -> Op("control", <<"again", "play">>)
               [] task = "skip" /\ Attentive -> Op("control", Complete)
               [] task = "recovered" /\ ~ctl.terminal /\ ctl.current # 0 ->
                     Op("recovered", <<"noted">>)
               [] OTHER -> NoOp
    /\ UNCHANGED <<session, lag, job, worker, turn, inactivity, absence, candidate, covered,
                   outcome, faults>>

-----------------------------------------------------------------------------
(* Inactivity.                                                             *)

Away ==
    /\ Aways
    /\ worker = "conducting"
    /\ ~Locked
    /\ ctl.connected
    /\ turn.state = "none"
    /\ inactivity = "off"
    /\ inactivity' = "check_in"
    /\ UNCHANGED <<session, lag, job, worker, ctl, op, waiting, turn, absence, candidate, covered,
                   outcome, faults>>

\* The timer of the tier runs out.
NextTier ==
    /\ worker \in {"conducting", "closing"}
    /\ inactivity \in {"extension", "checked", "warned"}
    /\ inactivity' = CASE inactivity = "extension" -> "check_in"
                       [] inactivity = "checked"   -> "warning"
                       [] OTHER                    -> "timeout"
    /\ UNCHANGED <<session, lag, job, worker, ctl, op, waiting, turn, absence, candidate, covered,
                   outcome, faults>>

\* handle_inactivity_step and close_for_inactivity take the lock.
InactivityStep ==
    /\ worker \in {"conducting", "closing"}
    /\ ~Locked
    /\ \/ /\ inactivity \in {"check_in", "warning"}
          /\ Attentive
          /\ Begin(Op("inactivity", <<"line", "play">>))
          /\ UNCHANGED <<ctl, inactivity>>
       \/ /\ inactivity \in {"check_in", "warning"}
          /\ ~Attentive
          /\ inactivity' = IF inactivity = "check_in" THEN "checked" ELSE "warned"
          /\ UNCHANGED <<ctl, op>>
       \/ /\ inactivity = "timeout"
          /\ ~ctl.terminal
          /\ ctl' = [ctl EXCEPT !.terminal = TRUE, !.current = 0]
          /\ Begin(Op("inactivity", <<"line", "play", "fail", "closed", "disconnect">>))
          /\ UNCHANGED inactivity
       \/ /\ inactivity = "timeout"
          /\ ctl.terminal
          /\ Begin(Op("inactivity", <<"disconnect">>))
          /\ UNCHANGED <<ctl, inactivity>>
    /\ UNCHANGED <<session, lag, job, worker, waiting, turn, absence, candidate, covered, outcome,
                   faults>>

\* mark_active and pause: the coordinator's task is cancelled wherever it is,
\* its closing of the interview included; the controller keeps what it was told.
CancelInactivity ==
    /\ inactivity' = "off"
    /\ IF op.by = "inactivity" THEN op' = NoOp /\ CutShort(Head(op.todo))
                               ELSE UNCHANGED <<op, session, lag, covered, outcome>>

-----------------------------------------------------------------------------
(* The candidate and the room.                                             *)

Listening == worker \in {"conducting", "closing"} /\ candidate.present /\ candidate.room

\* Speech starts: the coordinator is told first, any verdict in flight is stale,
\* and the turn belongs to the prompt of this moment.  The event of it waits for
\* the emitter's lock only.
Speak ==
    /\ Listening
    /\ turn.state \in {"none", "handled"}
    /\ ~turn.resumed
    /\ op.by # "inactivity"
    /\ inactivity' = "off"
    /\ turn' = IF turn.state = "none" THEN [NoTurn EXCEPT !.state = "speaking", !.fresh = TRUE]
                                      ELSE [turn EXCEPT !.resumed = TRUE]
    /\ waiting' = waiting \cup (IF inactivity \in {"off", "extension"} THEN {} ELSE {"recovered"})
    /\ \/ Written("none", "talk", TRUE) /\ UNCHANGED <<ctl, faults>>
       \/ Raises("none", "talk", TRUE) /\ ctl' = [ctl EXCEPT !.broken = TRUE]
    /\ UNCHANGED <<job, worker, op, absence, candidate>>

\* Speech over what the coordinator is saying cancels it first.
SpeakOver ==
    /\ Listening
    /\ op.by = "inactivity"
    /\ turn.state = "none"
    /\ CancelInactivity
    /\ turn' = [NoTurn EXCEPT !.state = "speaking", !.fresh = TRUE]
    /\ waiting' = waiting \cup {"recovered"}
    /\ UNCHANGED <<job, worker, ctl, absence, candidate, faults>>

\* LiveKit commits the turn, or it was a noise.
CommitMessage ==
    /\ Listening
    /\ turn.state = "speaking"
    /\ \/ turn' = [turn EXCEPT !.state = "committed"]
       \/ turn' = NoTurn
    /\ UNCHANGED <<session, lag, job, worker, ctl, op, waiting, inactivity, absence, candidate,
                   covered, outcome, faults>>

\* The candidate's buttons: "repeat the question" and, in a recruiter's preview,
\* "skip".  Either is also a sign of presence: the silence is counted anew.
Control(button) ==
    /\ Listening
    /\ button \in TurnKinds
    /\ button \notin waiting
    /\ CancelInactivity
    /\ waiting' = waiting \cup {button}
    /\ UNCHANGED <<job, worker, ctl, turn, absence, candidate, faults>>

Leave ==
    /\ worker \in {"starting", "conducting", "closing"}
    /\ candidate.present
    /\ candidate.left < Leaves
    /\ candidate' = [candidate EXCEPT !.present = FALSE, !.left = @ + 1]
    /\ ctl' = [ctl EXCEPT !.connected = FALSE]
    /\ CancelInactivity
    /\ absence' = "grace"
    /\ turn' = IF turn.state = "speaking" THEN NoTurn ELSE turn
    /\ UNCHANGED <<job, worker, waiting, faults>>

Return ==
    /\ worker \in {"starting", "conducting", "closing"}
    /\ candidate.room
    /\ ~candidate.present
    /\ candidate' = [candidate EXCEPT !.present = TRUE]
    /\ absence' = "here"
    /\ CancelInactivity
    /\ waiting' = waiting \cup {"reconnect"}
    /\ UNCHANGED <<job, worker, ctl, turn, faults>>

\* The absence grace is over.  Neither the controller's lock nor its terminal
\* flag is taken; an event that raises leaves the room as it is.
AbsenceTimeout ==
    /\ worker \in {"starting", "conducting", "closing"}
    /\ absence = "grace"
    /\ absence' = "over"
    /\ IF ctl.terminal
       THEN UNCHANGED <<session, lag, covered, outcome, candidate, faults>>
       ELSE \/ /\ Written("none", "session_failed", ValidPayload("fail"))
               /\ candidate' = [candidate EXCEPT !.room = FALSE]
               /\ UNCHANGED faults
            \/ /\ Raises("none", "session_failed", ValidPayload("fail"))
               /\ UNCHANGED candidate
    /\ UNCHANGED <<job, worker, ctl, op, waiting, turn, inactivity>>

-----------------------------------------------------------------------------
MainNext ==
    \/ Claim \/ Join \/ EmitAgentJoined \/ EmitSessionStarted
    \/ Conducted \/ MaxDuration \/ CloseForMaxDuration \/ Closed \/ Drained

OperationNext ==
    \/ EmitStep \/ PlayStep \/ Assess \/ MemoryStep \/ ReopenStep
    \/ RecordTurn \/ HandleTurn \/ TurnOver
    \/ \E task \in Waiters : BeginWaiting(task)

CandidateNext ==
    Away \/ NextTier \/ InactivityStep \/ Speak \/ SpeakOver \/ CommitMessage \/ Leave \/ Return
       \/ AbsenceTimeout \/ \E button \in {"repeat", "skip"} : Control(button)

AgentNext == Dispatch \/ MainNext \/ OperationNext \/ CandidateNext \/ WorkerDies

\* Whoever holds the controller's lock goes on.
HolderNext == EmitStep \/ PlayStep \/ Assess \/ MemoryStep \/ ReopenStep

\* The event loop runs what can run, a pending job is claimed, the timer of the
\* maximum duration goes off, and the lock, which is first come first served,
\* comes to the closing.  The candidate owes nothing.
AgentFairness ==
    /\ WF_agentVars(MainNext)
    /\ WF_agentVars(OperationNext)
    /\ WF_agentVars(HolderNext)
    /\ SF_agentVars(CloseForMaxDuration)

AgentSpec == AgentInit /\ [][AgentNext]_agentVars /\ AgentFairness

-----------------------------------------------------------------------------
(* Properties.                                                             *)

\* Every variable keeps its shape, the lock has a known holder, and what is left
\* of an operation is made of known steps.
AgentTypeOK ==
    /\ LogTypeOK
    /\ job \in [at : {"none", "lost", "queued", "claimed", "acked", "dead"},
               attempts : 0 .. MaxAttempts]
    /\ worker \in Phases
    /\ ctl \in [current : 0 .. N, completed : SUBSET Questions,
                reprompts : [Questions -> 0 .. 2], followups : [Questions -> 0 .. 1],
                connected : BOOLEAN, terminal : BOOLEAN, closed : BOOLEAN, broken : BOOLEAN,
                target : 0 .. N, reason : {"none", "all", "other"}]
    /\ op.by \in Holders
    /\ \A i \in DOMAIN op.todo : op.todo[i] \in Steps
    /\ waiting \subseteq Waiters
    /\ turn \in [state : {"none", "speaking", "committed", "recorded", "handled"},
                 fresh : BOOLEAN, ids : BOOLEAN, resumed : BOOLEAN]
    /\ inactivity \in {"off", "extension", "check_in", "checked", "warning", "warned", "timeout"}
    /\ absence \in {"here", "grace", "over"}
    /\ candidate \in [present : BOOLEAN, room : BOOLEAN, left : 0 .. Leaves]
    /\ covered \subseteq Questions
    /\ outcome \in {"none", "all", "other"}
    /\ faults \in 0 .. MaxFaults

\* An interview whose log says that all questions were gone through has, for
\* every question of the plan, a question_completed that no later reopening took
\* back: whatever was skipped, repeated, reopened, interrupted or lost.
CompletedCoversPlan == outcome = "all" => covered = Questions

\* What the agent posts is in the contract of those who read it: questions of a
\* length that leaves room for what is said before them, words the service knows,
\* counts that agree.  Three things are not, and no state posts anything else.
PostsWithinContract ==
    /\ OnlyTheseAreRefused
    /\ Locked /\ Head(op.todo) \in Posting => <<Head(op.todo), Variant(Head(op.todo))>> \in Forms

\* An interview that is on and not being ended has a question to come back to:
\* whoever takes the lock finds one to repeat, to close or to be silent about.
AsksSomething ==
    worker \in {"conducting", "closing"} /\ ~ctl.terminal => ctl.current # 0

\* What every state of an interview keeps to, the operations under way included.
AgentInv == AgentTypeOK /\ CompletedCoversPlan /\ PostsWithinContract /\ AsksSomething

\* A worker that begins to conduct an interview is the only one that ever did: a
\* second attempt at the job finds its agent_joined refused, whenever the first
\* one ended.
OneInterviewer ==
    [][worker' = "starting" /\ worker # "starting" => "agent_joined" \notin session.types]_agentVars

\* A job that is queued is acknowledged or dead in the end, however the interview
\* goes: no interview holds a worker for ever and no job is tried for ever.
JobSettles == job.at = "queued" ~> job.at \in {"acked", "dead"}

\* As long as the interview is on, the log takes the agent's next event: "First
\* silence gets a gentle prompt; the second gets an explicit technical-readiness
\* check", and the interview goes on.
AgentIsHeard == worker = "conducting" => lag[Agent] = 0
=============================================================================
