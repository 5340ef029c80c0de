------------------------------ MODULE AgentEvents ------------------------------
(***************************************************************************)
(* What the interviewer agent posts: the payload of each of its events, as *)
(* livekit_openai_worker.py builds it.  Fields the service does not look   *)
(* at are left out.                                                        *)
(***************************************************************************)
EXTENDS EventContract

CONSTANTS
    N,              \* questions of the interview plan
    PromptLength,   \* characters of a planned question; its contract allows 8 to 800
    RepeatPrefixes, \* characters said before a question that is repeated
    FollowUps,      \* characters of a follow-up question
    Lines,          \* characters of the worker's fixed lines
    TurnLengths     \* characters of what a candidate says in one turn

ASSUME AgentEventsAssumption ==
    /\ N \in Nat \ {0}
    /\ PromptLength \in 8 .. 800
    /\ RepeatPrefixes \subseteq Nat
    /\ FollowUps \subseteq Nat
    /\ Lines \subseteq Nat
    /\ TurnLengths \subseteq Nat

\* _execute_question_command: the planned prompt, not what is said around it.
AsksQuestion ==
    {[question_id |-> "id", question_index |-> q - 1, prompt |-> PromptLength] : q \in 1 .. N}

\* _repeat_response_for_candidate_intent, _reconnect_response: something is said
\* first, and the reason is the one of the control that wants the repetition.
RepeatsQuestion(reason) ==
    {[question_id |-> "id", prompt |-> PromptLength + said, reason |-> reason] :
        said \in RepeatPrefixes}

AcknowledgesWait ==
    {[question_id |-> "id", prompt |-> line, reason |-> "candidate_requested_time"] :
        line \in Lines}

Reprompts(used) ==
    {[question_id |-> "id", prompt |-> line, reprompts_used |-> used, attempt_index |-> used] :
        line \in Lines}

\* The evaluator's challenge, the plan's follow-up or the fixed one.
FollowsUp(used) ==
    {[question_id |-> "id", followup_id |-> "id", prompt |-> text, followups_used |-> used,
      attempt_index |-> used] : text \in FollowUps}

\* What _policy_command makes of each classification: the verdicts the log can get.
Verdicts ==
    {<<"repeat_requested", "repeat_question">>, <<"wait_requested", "wait">>,
     <<"skipped", "mark_skipped">>, <<"vague", "ask_followup">>, <<"vague", "complete_question">>,
     <<"incomplete", "soft_reprompt">>, <<"incomplete", "timebox">>, <<"silent", "soft_reprompt">>,
     <<"silent", "timebox">>, <<"complete", "complete_question">>}

\* AnswerEvaluation.to_payload, for a turn whose ids are known or not.
Evaluates(ids) ==
    {[question_id |-> "id", turn_ids |-> ids, attempt_index |-> 1, classification |-> v[1],
      policy_action |-> v[2], reason_codes |-> "list", confidence |-> 100,
      evaluator_version |-> "id"] : v \in Verdicts}

\* The completion reasons of _policy_command's commands.
CompletesQuestion ==
    {[question_id |-> "id", completion_reason |-> reason, attempt_index |-> 1] :
        reason \in {"answered", "skipped", "candidate_silent"}}

\* _emit_candidate_turn
FinalizesTurn ==
    {[question_id |-> "id", completion_reason |-> reason,
      transcript_turn |-> [turn_id |-> "id", session_id |-> "id", question_id |-> "id",
                           speaker |-> "candidate", text |-> length, is_final |-> TRUE,
                           started_at |-> "time", ended_at |-> "time"]] :
        reason \in {"answered", "skipped", "incomplete"}, length \in TurnLengths}

Triggers == {"user_away", "wait_extension", "presence_confirmation"}

\* handle_inactivity_step: a tier entered just now has lasted a millisecond.
BreaksSilence ==
    {[question_id |-> "id", tier |-> tier, threshold_ms |-> 1, silent_for_ms |-> 0,
      remaining_ms |-> 0, expires_at |-> "time", trigger |-> trigger] :
        tier \in {"check_in", "warning"}, trigger \in Triggers}

\* close_for_inactivity
EndsSilence ==
    {[question_id |-> "id", tier |-> "terminal", threshold_ms |-> 1, silent_for_ms |-> 0,
      remaining_ms |-> 0, trigger |-> trigger] : trigger \in Triggers}

\* handle_inactivity_recovered
NotesRecovery ==
    {[question_id |-> "id", tier |-> tier, silent_for_ms |-> 0, trigger |-> trigger,
      source |-> source] :
        tier \in {"check_in", "warning"},
        trigger \in Triggers,
        source \in {"voice", "candidate_control"}}

\* _close_session: of a withdrawal no count of questions is given, and none is 0.
ClosesSession ==
    {[completed_questions |-> done, total_questions |-> N, closing |-> line] :
        done \in 0 .. N, line \in Lines}

CompletesSession ==
    {[completed_reason |-> reason, completed_questions |-> done, total_questions |-> N] :
        reason \in {"all_questions_completed", "candidate_requested_stop", "max_duration_reached"},
        done \in 0 .. N}

\* The codes and messages of the worker's failures: a candidate who stays silent
\* or away, a LiveKit session that broke.
FailsSession == {[code |-> 28, message |-> 60, retryable |-> again] : again \in BOOLEAN}
-----------------------------------------------------------------------------
(* The steps of the controller that post them. *)

\* Those that say something: the prompt generation goes up before they post.
Prompts == {"ask", "repeat", "wait", "followup", "reprompt", "again", "reopened", "line", "closing"}

Posting == Prompts \cup {"turn", "evaluated", "noted", "completed", "end", "fail"}

\* The type of the event a step posts, and its payloads.  A step that posts
\* different ones in different states has a variant for each.
TypeOf(step) ==
    CASE step = "turn"      -> "candidate_turn_finalized"
      [] step = "evaluated" -> "answer_evaluated"
      [] step = "ask"       -> "question_asked"
      [] step \in {"repeat", "again", "reopened"} -> "question_repeated"
      [] step = "wait"      -> "wait_requested"
      [] step = "followup"  -> "followup_asked"
      [] step = "reprompt"  -> "soft_reprompted"
      [] step = "completed" -> "question_completed"
      [] step = "line"      -> "silence_timeout_started"
      [] step = "noted"     -> "silence_recovered"
      [] step = "closing"   -> "session_closing"
      [] step = "end"       -> "session_completed"
      [] step = "fail"      -> "session_failed"

Posted(step, variant) ==
    CASE step = "turn"      -> FinalizesTurn
      [] step = "evaluated" -> Evaluates(IF variant = 1 THEN {"id"} ELSE {})
      [] step = "ask"       -> AsksQuestion
      [] step \in {"repeat", "reopened"} -> RepeatsQuestion("candidate_requested_repeat")
      [] step = "again"     -> RepeatsQuestion(IF variant = 1 THEN "candidate_control_repeat"
                                               ELSE "candidate_reconnected")
      [] step = "wait"      -> AcknowledgesWait
      [] step = "followup"  -> FollowsUp(variant)
      [] step = "reprompt"  -> Reprompts(variant)
      [] step = "completed" -> CompletesQuestion
      [] step = "line"      -> IF variant = 1 THEN EndsSilence ELSE BreaksSilence
      [] step = "noted"     -> NotesRecovery
      [] step = "closing"   -> ClosesSession
      [] step = "end"       -> CompletesSession
      [] step = "fail"      -> FailsSession

\* The steps and variants there are, and those the service takes.
Forms ==
    {<<step, 0>> : step \in Posting \ {"followup", "reprompt"}}
      \cup {<<"evaluated", 1>>, <<"again", 1>>, <<"line", 1>>, <<"followup", 1>>, <<"reprompt", 1>>,
            <<"reprompt", 2>>}

Accepted ==
    {form \in Forms : \A payload \in Posted(form[1], form[2]) : Valid(TypeOf(form[1]), payload)}

\* A question said again for a reason of the agent's own, a second reprompt, and an
\* evaluation whose turns were not recorded because the candidate was away.
Refused == {<<"again", 0>>, <<"again", 1>>, <<"reprompt", 2>>, <<"evaluated", 0>>}

OnlyTheseAreRefused == Forms \ Accepted = Refused
=============================================================================
