----------------------------- MODULE SessionLog -----------------------------
(***************************************************************************)
(* One interview session of the realtime service: its status and its log   *)
(* of events, appended under a row lock (service.go IngestEvent,           *)
(* postgres.go AppendEvent, domain/session.go).                            *)
(*                                                                         *)
(* A writer numbers its event before it posts it, and the log takes only   *)
(* the number that comes next.  The numbers themselves do not matter, only *)
(* how far a writer's number is from the next one: lag[w] is that          *)
(* distance, for the event w has posted or will post.  It is 0 when the    *)
(* log would take the number, and every event somebody else appends takes  *)
(* one off it.                                                             *)
(***************************************************************************)
EXTENDS Integers, FiniteSets

CONSTANTS
    Writers,        \* who posts events: browser tabs, the interviewer agent
    Agent,          \* the interviewer agent
    FarOff          \* numbers further off than this are not told apart

ASSUME LogAssumption == Agent \in Writers /\ FarOff \in Nat \ {0}

VARIABLES
    session,        \* the LiveInterviewSession row and which events its log holds
    lag             \* how far each writer's number is from the next one

logVars == <<session, lag>>

SessionStatus == {"created", "waiting_candidate", "agent_joining", "in_progress",
                  "completed", "failed", "expired"}

Terminal == {"completed", "failed", "expired"}

\* The events that change the status or are looked for by type; "talk" stands
\* for all the others, which are accepted in the same status.
EventTypes == {"candidate_joined", "candidate_media_ready", "agent_joined", "session_started",
               "session_completed", "session_failed", "talk"}

\* Events the candidate's browser posts: their id is fixed by their type.
CandidateTypes == {"candidate_joined", "candidate_media_ready"}

NewSession == [status |-> "waiting_candidate", types |-> {}]

LogInit ==
    /\ session = NewSession
    /\ lag = [w \in Writers |-> 0]

Clip(n) == IF n > FarOff THEN FarOff ELSE IF n < -FarOff THEN -FarOff ELSE n

ValidStatusForEvent(type, status) ==
    CASE type = "candidate_joined"                  -> "agent_joining"
      [] type \in {"agent_joined", "session_started"} -> "in_progress"
      [] type = "session_completed"                 -> "completed"
      [] type = "session_failed"                    -> "failed"
      [] OTHER                                      -> status

\* Mistake for the checks to catch: an agent may join an interview that is
\* already in progress.
CanApplyEvent_JoinAgain(status, type) ==
    /\ status \notin Terminal
    /\ type = "session_completed" => status = "in_progress"

CanApplyEvent(status, type) ==
    /\ status \notin Terminal
    /\ CASE type = "candidate_joined"      -> status \in {"created", "waiting_candidate"}
         [] type = "candidate_media_ready" -> status \in {"agent_joining", "in_progress"}
         [] type = "agent_joined"          -> status \in {"agent_joining", "waiting_candidate"}
         [] type \in {"session_started", "session_failed"} -> TRUE
         [] OTHER                          -> status = "in_progress"

\* An event whose id or idempotency key the log already holds.  It is answered
\* as a duplicate only when it is the same to the last field, the time the
\* server gave it included, so a browser's second attempt is a conflict.
Known(type) == type \in CandidateTypes /\ type \in session.types

\* Mistake for the checks to catch: the log takes any number and any key.
Accepts_AnyNumber(w, type, valid) == valid /\ CanApplyEvent(session.status, type)

\* What AppendEvent looks at under the row lock, after IngestEvent's validation
\* of the payload (`valid`).
Accepts(w, type, valid) ==
    /\ valid
    /\ ~Known(type)
    /\ lag[w] = 0
    /\ CanApplyEvent(session.status, type)

\* The event is inserted: the writer has used its number, the others' numbers
\* are one further behind.
AppendEvent(w, type) ==
    /\ session' = [session EXCEPT !.status = ValidStatusForEvent(type, @),
                                  !.types = @ \cup {type}]
    /\ lag' = [x \in Writers |-> IF x = w THEN lag[x] ELSE Clip(lag[x] - 1)]

LogTypeOK ==
    /\ session \in [status : SessionStatus, types : SUBSET EventTypes]
    /\ lag \in [Writers -> -FarOff .. FarOff]
=============================================================================
