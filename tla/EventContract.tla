----------------------------- MODULE EventContract -----------------------------
(***************************************************************************)
(* The contract of the realtime service with those who post events: which  *)
(* payload IngestEvent takes for which type of event (service.go,          *)
(* validateEventPayload and its helpers).                                  *)
(*                                                                         *)
(* A payload is a record.  Of an id only matters whether it is there and   *)
(* not blank ("id", else "blank"), of a text its trimmed length, of a time *)
(* whether it reads as one ("time"), of a fraction its hundredths; words,  *)
(* numbers and flags are themselves, lists of words the set of them.  The  *)
(* camel-case spelling of a field is the same field.                       *)
(***************************************************************************)
EXTENDS Integers, FiniteSets

(* Kinds of fields. *)

Id == {"id"}

\* A length in characters: a text of an allowed length is never blank.
Text(shortest, longest) == shortest .. longest

Time == {"time"}

Fraction == 0 .. 100

\* An hour, the longest time an event tells of, and the longest text of a turn.
AnHour == 3600000
LongestText == 12000

Milliseconds == 0 .. AnHour

Attempt == 1 .. 1000

NonEmpty(words) == SUBSET words \ {{}}

(* The words the service knows. *)

Modalities == {"form", "audio", "video"}

Tracks == {"microphone", "camera"}

AnswerClassifications == {"complete", "vague", "incomplete", "silent", "skipped",
                          "repeat_requested", "wait_requested"}

PolicyActions == {"complete_question", "ask_followup", "soft_reprompt", "repeat_question", "wait",
                  "mark_skipped", "timebox"}

TurnCompletionReasons == {"answered", "skipped", "incomplete"}

QuestionCompletionReasons == {"answered", "skipped", "candidate_silent", "timeboxed"}

SessionCompletionReasons == {"all_questions_completed", "candidate_ended", "timeboxed",
                             "candidate_requested_stop", "max_duration_reached"}

RejectionReasons == {"backchannel", "noise", "too_short", "low_confidence"}

\* Mistake for the checks to catch: the tiers of the older silence policy only.
SilenceTiers_Legacy == {"soft_prompt", "wait_extension", "terminal"}

SilenceTiers == {"soft_prompt", "wait_extension", "check_in", "warning", "terminal"}

InactivityTriggers == {"user_away", "wait_extension", "presence_confirmation"}

Speakers == {"candidate", "interviewer", "system"}

-----------------------------------------------------------------------------
(* One contract per validated type: the fields a payload needs, and those  *)
(* it may have, each with the values that are taken.                       *)

None == [none \in {} |-> {}]

\* A transcript turn is a payload of its own.
TurnFields(speaker) ==
    [needs |-> [turn_id |-> Id, session_id |-> Id, speaker |-> {speaker} \cap Speakers,
                text |-> Text(1, LongestText), started_at |-> Time],
     may   |-> [question_id |-> Id, is_final |-> BOOLEAN, confidence |-> Fraction,
                ended_at |-> Time]]

\* Every field that is needed is there, and every known one that is there is right.
Meets(fields, payload) ==
    /\ DOMAIN fields.needs \subseteq DOMAIN payload
    /\ \A f \in DOMAIN fields.needs : payload[f] \in fields.needs[f]
    /\ \A f \in DOMAIN fields.may \cap DOMAIN payload : payload[f] \in fields.may[f]

CandidateJoined ==
    [needs |-> [candidate_participant_id |-> Id, modes |-> NonEmpty(Modalities)],
     may   |-> [room_name |-> Id]]

CandidateMediaReady ==
    [needs |-> [candidate_participant_id |-> Id, audio |-> BOOLEAN, video |-> BOOLEAN,
                published_tracks |-> NonEmpty(Tracks)],
     may   |-> [room_name |-> Id]]

QuestionAsked ==
    [needs |-> [question_id |-> Id, question_index |-> 0 .. 1000, prompt |-> Text(8, 800)],
     may   |-> None]

QuestionRepeated ==
    [needs |-> [question_id |-> Id, prompt |-> Text(8, 800),
                reason |-> {"candidate_requested_repeat"}],
     may   |-> None]

CandidateTurnFinalized ==
    [needs |-> [question_id |-> Id, completion_reason |-> TurnCompletionReasons],
     may   |-> None]

AnswerEvaluated ==
    [needs |-> [question_id |-> Id, turn_ids |-> {Id}, attempt_index |-> Attempt,
                classification |-> AnswerClassifications, policy_action |-> PolicyActions,
                reason_codes |-> {"list"}, confidence |-> Fraction, evaluator_version |-> Id],
     may   |-> None]

BargeInDetected ==
    [needs |-> [utterance_id |-> Id],
     may   |-> [question_id |-> Id, overlap_ms |-> Milliseconds,
                candidate_speech_ms |-> Milliseconds, confidence |-> Fraction]]

BargeInAccepted ==
    [needs |-> [utterance_id |-> Id, cancel_latency_ms |-> Milliseconds],
     may   |-> [question_id |-> Id, truncated_at_ms |-> Milliseconds]]

AgentSpeechInterrupted ==
    [needs |-> [utterance_id |-> Id, cancel_latency_ms |-> Milliseconds,
                cancel_agent_audio |-> {TRUE}],
     may   |-> [question_id |-> Id, truncated_at_ms |-> Milliseconds]]

InterruptionRejected ==
    [needs |-> [reason |-> RejectionReasons],
     may   |-> [utterance_id |-> Id, question_id |-> Id, observed_speech_ms |-> Milliseconds]]

SilenceTimeoutStarted ==
    [needs |-> [threshold_ms |-> 1 .. AnHour, tier |-> SilenceTiers],
     may   |-> [question_id |-> Id, silent_for_ms |-> Milliseconds,
                remaining_ms |-> Milliseconds, expires_at |-> Time,
                trigger |-> InactivityTriggers]]

SilenceRecovered ==
    [needs |-> [tier |-> {"check_in", "warning"}, silent_for_ms |-> Milliseconds,
                trigger |-> InactivityTriggers, source |-> {"voice", "candidate_control"}],
     may   |-> [question_id |-> Id]]

WaitRequested ==
    [needs |-> [reason |-> {"candidate_requested_time"}],
     may   |-> [question_id |-> Id, requested_at |-> Time, wait_until |-> Time]]

SoftReprompted ==
    [needs |-> [question_id |-> Id, prompt |-> Text(8, 800), reprompts_used |-> {1}],
     may   |-> [attempt_index |-> Attempt]]

FollowupAsked ==
    [needs |-> [question_id |-> Id, followup_id |-> Id, prompt |-> Text(8, 800),
                followups_used |-> {1}],
     may   |-> [attempt_index |-> Attempt]]

QuestionCompleted ==
    [needs |-> [question_id |-> Id, completion_reason |-> QuestionCompletionReasons],
     may   |-> [attempt_index |-> Attempt]]

\* validateTerminalCounters
SessionClosing ==
    [needs |-> [completed_questions |-> 0 .. 1000, total_questions |-> 1 .. 1000,
                closing |-> Text(1, 800)],
     may   |-> None]

SessionCompleted ==
    [needs |-> [completed_reason |-> SessionCompletionReasons,
                completed_questions |-> 0 .. 1000, total_questions |-> 1 .. 1000],
     may   |-> None]

SessionFailed ==
    [needs |-> [code |-> Text(2, 80), message |-> Text(1, 500), retryable |-> BOOLEAN],
     may   |-> None]

Unvalidated == [needs |-> None, may |-> None]

FieldsOf(type) ==
    CASE type = "candidate_joined"         -> CandidateJoined
      [] type = "candidate_media_ready"    -> CandidateMediaReady
      [] type = "question_asked"           -> QuestionAsked
      [] type = "question_repeated"        -> QuestionRepeated
      [] type = "candidate_turn_finalized" -> CandidateTurnFinalized
      [] type = "answer_evaluated"         -> AnswerEvaluated
      [] type = "barge_in_detected"        -> BargeInDetected
      [] type = "barge_in_accepted"        -> BargeInAccepted
      [] type = "agent_speech_interrupted" -> AgentSpeechInterrupted
      [] type \in {"barge_in_rejected", "backchannel_detected"} -> InterruptionRejected
      [] type = "silence_timeout_started"  -> SilenceTimeoutStarted
      [] type = "silence_recovered"        -> SilenceRecovered
      [] type = "wait_requested"           -> WaitRequested
      [] type = "soft_reprompted"          -> SoftReprompted
      [] type = "followup_asked"           -> FollowupAsked
      [] type = "question_completed"       -> QuestionCompleted
      [] type = "session_closing"          -> SessionClosing
      [] type = "session_completed"        -> SessionCompleted
      [] type = "session_failed"           -> SessionFailed
      [] OTHER                             -> Unvalidated

\* What is said in an event that is a turn of somebody's.
SpeakerOf(type) ==
    IF type = "candidate_turn_finalized" THEN "candidate" ELSE "interviewer"

NeedsTurn == {"candidate_turn_finalized"}

MayHaveTurn == {"question_asked", "question_repeated", "soft_reprompted", "followup_asked",
                "session_closing"}

\* What relates one field to another.
Agrees(type, payload) ==
    /\ type = "candidate_media_ready" =>
          /\ payload.audio => "microphone" \in payload.published_tracks
          /\ payload.video => "camera" \in payload.published_tracks
    /\ type \in {"session_closing", "session_completed"} =>
          payload.completed_questions <= payload.total_questions
    /\ type \in NeedsTurn => "transcript_turn" \in DOMAIN payload
    /\ type \in NeedsTurn \cup MayHaveTurn /\ "transcript_turn" \in DOMAIN payload =>
          Meets(TurnFields(SpeakerOf(type)), payload.transcript_turn)

\* validateEventPayload
Valid(type, payload) == Meets(FieldsOf(type), payload) /\ Agrees(type, payload)
=============================================================================
