------------------------------ MODULE AgentProofs ------------------------------
(***************************************************************************)
(* What holds of an interview whatever its plan's length, the candidate's  *)
(* turns, the faults and the number of attempts at its job: its log never  *)
(* claims more than it holds, the agent always has a question to come back *)
(* to, and only one worker ever conducts it.                               *)
(***************************************************************************)
EXTENDS InterviewerAgent, SequenceTheorems, FiniteSetTheorems, WellFoundedInduction, TLAPS

-----------------------------------------------------------------------------
(* What the agent posts is in the contract of the realtime service, and    *)
(* what is not, for texts of any length that fits: each of its payloads    *)
(* against the fields of its type.                                         *)

\* A question leaves room for what is said before it, no line is too short for a prompt or
\* too long for one, and a turn is what a transcript can hold.
LengthsFit ==
    /\ N <= 1000
    /\ RepeatPrefixes # {}
    /\ \A said \in RepeatPrefixes : PromptLength + said <= 800
    /\ FollowUps \subseteq 8 .. 800
    /\ Lines # {} /\ Lines \subseteq 8 .. 800
    /\ TurnLengths \subseteq 1 .. LongestText

-----------------------------------------------------------------------------
(* What is taken. *)

\* A text that fits is one the contract takes.
LEMMA TextsFit ==
    ASSUME LengthsFit
    PROVE  /\ PromptLength \in Text(8, 800)
           /\ \A said \in RepeatPrefixes : PromptLength + said \in Text(8, 800)
           /\ \A line \in Lines \cup FollowUps : line \in Text(8, 800) /\ line \in Text(1, 800)
           /\ \A length \in TurnLengths : length \in Text(1, LongestText)
<1>1. PromptLength \in Text(8, 800)
  BY SMT, AgentEventsAssumption DEF Text
<1>2. ASSUME NEW said \in RepeatPrefixes PROVE PromptLength + said \in Text(8, 800)
  <2>1. said \in Nat /\ PromptLength \in Nat /\ 8 <= PromptLength
    BY SMT, AgentEventsAssumption
  <2>2. PromptLength + said <= 800
    BY DEF LengthsFit
  <2>3. QED
    BY SMT, <2>1, <2>2 DEF Text
<1>3. \A line \in Lines \cup FollowUps : line \in Text(8, 800) /\ line \in Text(1, 800)
  BY SMT DEF Text, LengthsFit
<1>4. \A length \in TurnLengths : length \in Text(1, LongestText)
  BY SMT DEF Text, LengthsFit
<1> QED
  BY <1>1, <1>2, <1>3, <1>4

\* The times the agent tells are within the hour.
LEMMA TimesFit == 1 \in 1 .. AnHour /\ 0 \in Milliseconds
<1>1. AnHour \in Nat /\ 1 <= AnHour
  BY SMT DEF AnHour
<1> QED
  BY SMT, <1>1 DEF Milliseconds

\* A count of questions is one the contract takes.
LEMMA CountsFit ==
    ASSUME LengthsFit
    PROVE  /\ \A q \in 1 .. N : q - 1 \in 0 .. 1000
           /\ \A done \in 0 .. N : done \in 0 .. 1000
           /\ N \in 1 .. 1000
  BY SMT, AgentEventsAssumption DEF LengthsFit

\* A planned question.
LEMMA AsksInContract ==
    ASSUME LengthsFit, NEW p \in Posted("ask", 0)
    PROVE  Valid(TypeOf("ask"), p)
<1>1. PICK q \in 1 .. N :
          p = [question_id |-> "id", question_index |-> q - 1, prompt |-> PromptLength]
  BY DEF Posted, AsksQuestion
<1>2. /\ DOMAIN QuestionAsked.needs =
             {"question_id", "question_index", "prompt"}
      /\ DOMAIN QuestionAsked.may = {}
      /\ DOMAIN p = {"question_id", "question_index", "prompt"}
  BY <1>1 DEF QuestionAsked, None
<1>3. /\ QuestionAsked.needs["question_id"] = Id
      /\ QuestionAsked.needs["question_index"] = 0 .. 1000
      /\ QuestionAsked.needs["prompt"] = Text(8, 800)
  BY SMT DEF QuestionAsked
<1>4. /\ p.question_id \in Id
      /\ p.question_index \in 0 .. 1000
      /\ p.prompt \in Text(8, 800)
  BY SMT, <1>1, TextsFit, CountsFit
     DEF Id
<1>5. Meets(QuestionAsked, p)
  BY SMT, <1>2, <1>3, <1>4 DEF Meets
<1>6. Agrees("question_asked", p)
  BY <1>1, <1>2 DEF Agrees, NeedsTurn, MayHaveTurn
<1>7. /\ TypeOf("ask") = "question_asked"
      /\ FieldsOf("question_asked") = QuestionAsked
  BY DEF TypeOf, FieldsOf
<1> QED
  BY <1>5, <1>6, <1>7 DEF Valid

\* A question said again because the candidate wants it.
LEMMA RepeatsInContract ==
    ASSUME LengthsFit, NEW p \in Posted("repeat", 0)
    PROVE  Valid(TypeOf("repeat"), p)
<1>1. PICK said \in RepeatPrefixes :
          p = [question_id |-> "id", prompt |-> PromptLength + said, reason |->
               "candidate_requested_repeat"]
  BY DEF Posted, RepeatsQuestion
<1>2. /\ DOMAIN QuestionRepeated.needs =
             {"question_id", "prompt", "reason"}
      /\ DOMAIN QuestionRepeated.may = {}
      /\ DOMAIN p = {"question_id", "prompt", "reason"}
  BY <1>1 DEF QuestionRepeated, None
<1>3. /\ QuestionRepeated.needs["question_id"] = Id
      /\ QuestionRepeated.needs["prompt"] = Text(8, 800)
      /\ QuestionRepeated.needs["reason"] = {"candidate_requested_repeat"}
  BY SMT DEF QuestionRepeated
<1>4. /\ p.question_id \in Id
      /\ p.prompt \in Text(8, 800)
      /\ p.reason \in {"candidate_requested_repeat"}
  BY SMT, <1>1, TextsFit
     DEF Id
<1>5. Meets(QuestionRepeated, p)
  BY SMT, <1>2, <1>3, <1>4 DEF Meets
<1>6. Agrees("question_repeated", p)
  BY <1>1, <1>2 DEF Agrees, NeedsTurn, MayHaveTurn
<1>7. /\ TypeOf("repeat") = "question_repeated"
      /\ FieldsOf("question_repeated") = QuestionRepeated
  BY DEF TypeOf, FieldsOf
<1> QED
  BY <1>5, <1>6, <1>7 DEF Valid

\* A question that is reopened.
LEMMA ReopensInContract ==
    ASSUME LengthsFit, NEW p \in Posted("reopened", 0)
    PROVE  Valid(TypeOf("reopened"), p)
<1>1. PICK said \in RepeatPrefixes :
          p = [question_id |-> "id", prompt |-> PromptLength + said, reason |->
               "candidate_requested_repeat"]
  BY DEF Posted, RepeatsQuestion
<1>2. /\ DOMAIN QuestionRepeated.needs =
             {"question_id", "prompt", "reason"}
      /\ DOMAIN QuestionRepeated.may = {}
      /\ DOMAIN p = {"question_id", "prompt", "reason"}
  BY <1>1 DEF QuestionRepeated, None
<1>3. /\ QuestionRepeated.needs["question_id"] = Id
      /\ QuestionRepeated.needs["prompt"] = Text(8, 800)
      /\ QuestionRepeated.needs["reason"] = {"candidate_requested_repeat"}
  BY SMT DEF QuestionRepeated
<1>4. /\ p.question_id \in Id
      /\ p.prompt \in Text(8, 800)
      /\ p.reason \in {"candidate_requested_repeat"}
  BY SMT, <1>1, TextsFit
     DEF Id
<1>5. Meets(QuestionRepeated, p)
  BY SMT, <1>2, <1>3, <1>4 DEF Meets
<1>6. Agrees("question_repeated", p)
  BY <1>1, <1>2 DEF Agrees, NeedsTurn, MayHaveTurn
<1>7. /\ TypeOf("reopened") = "question_repeated"
      /\ FieldsOf("question_repeated") = QuestionRepeated
  BY DEF TypeOf, FieldsOf
<1> QED
  BY <1>5, <1>6, <1>7 DEF Valid

\* Time to think.
LEMMA WaitsInContract ==
    ASSUME LengthsFit, NEW p \in Posted("wait", 0)
    PROVE  Valid(TypeOf("wait"), p)
<1>1. PICK line \in Lines :
          p = [question_id |-> "id", prompt |-> line, reason |-> "candidate_requested_time"]
  BY DEF Posted, AcknowledgesWait
<1>2. /\ DOMAIN WaitRequested.needs =
             {"reason"}
      /\ DOMAIN WaitRequested.may =
             {"question_id", "requested_at", "wait_until"}
      /\ DOMAIN p = {"question_id", "prompt", "reason"}
  BY <1>1 DEF WaitRequested
<1>3. /\ WaitRequested.needs["reason"] = {"candidate_requested_time"}
      /\ WaitRequested.may["question_id"] = Id
      /\ WaitRequested.may["requested_at"] = Time
      /\ WaitRequested.may["wait_until"] = Time
  BY SMT DEF WaitRequested
<1>4. /\ p.reason \in {"candidate_requested_time"}
      /\ p.question_id \in Id
  BY SMT, <1>1
     DEF Id
<1>5. Meets(WaitRequested, p)
  BY SMT, <1>2, <1>3, <1>4 DEF Meets
<1>6. Agrees("wait_requested", p)
  BY <1>1, <1>2 DEF Agrees, NeedsTurn, MayHaveTurn
<1>7. /\ TypeOf("wait") = "wait_requested"
      /\ FieldsOf("wait_requested") = WaitRequested
  BY DEF TypeOf, FieldsOf
<1> QED
  BY <1>5, <1>6, <1>7 DEF Valid

\* The first reprompt of a question.
LEMMA RepromptsInContract ==
    ASSUME LengthsFit, NEW p \in Posted("reprompt", 1)
    PROVE  Valid(TypeOf("reprompt"), p)
<1>1. PICK line \in Lines :
          p = [question_id |-> "id", prompt |-> line, reprompts_used |-> 1, attempt_index |-> 1]
  BY DEF Posted, Reprompts
<1>2. /\ DOMAIN SoftReprompted.needs =
             {"question_id", "prompt", "reprompts_used"}
      /\ DOMAIN SoftReprompted.may = {"attempt_index"}
      /\ DOMAIN p = {"question_id", "prompt", "reprompts_used", "attempt_index"}
  BY <1>1 DEF SoftReprompted
<1>3. /\ SoftReprompted.needs["question_id"] = Id
      /\ SoftReprompted.needs["prompt"] = Text(8, 800)
      /\ SoftReprompted.needs["reprompts_used"] = {1}
      /\ SoftReprompted.may["attempt_index"] = Attempt
  BY SMT DEF SoftReprompted
<1>4. /\ p.question_id \in Id
      /\ p.prompt \in Text(8, 800)
      /\ p.reprompts_used \in {1}
      /\ p.attempt_index \in Attempt
  BY SMT, <1>1, TextsFit
     DEF Attempt, Id
<1>5. Meets(SoftReprompted, p)
  BY SMT, <1>2, <1>3, <1>4 DEF Meets
<1>6. Agrees("soft_reprompted", p)
  BY <1>1, <1>2 DEF Agrees, NeedsTurn, MayHaveTurn
<1>7. /\ TypeOf("reprompt") = "soft_reprompted"
      /\ FieldsOf("soft_reprompted") = SoftReprompted
  BY DEF TypeOf, FieldsOf
<1> QED
  BY <1>5, <1>6, <1>7 DEF Valid

\* The follow-up of a question.
LEMMA FollowsUpInContract ==
    ASSUME LengthsFit, NEW p \in Posted("followup", 1)
    PROVE  Valid(TypeOf("followup"), p)
<1>1. PICK text \in FollowUps :
          p = [question_id |-> "id", followup_id |-> "id", prompt |-> text, followups_used |-> 1,
               attempt_index |-> 1]
  BY DEF Posted, FollowsUp
<1>2. /\ DOMAIN FollowupAsked.needs =
             {"question_id", "followup_id", "prompt", "followups_used"}
      /\ DOMAIN FollowupAsked.may = {"attempt_index"}
      /\ DOMAIN p = {"question_id", "followup_id", "prompt", "followups_used", "attempt_index"}
  BY <1>1 DEF FollowupAsked
<1>3. /\ FollowupAsked.needs["question_id"] = Id
      /\ FollowupAsked.needs["followup_id"] = Id
      /\ FollowupAsked.needs["prompt"] = Text(8, 800)
      /\ FollowupAsked.needs["followups_used"] = {1}
      /\ FollowupAsked.may["attempt_index"] = Attempt
  BY SMT DEF FollowupAsked
<1>4. /\ p.question_id \in Id
      /\ p.followup_id \in Id
      /\ p.prompt \in Text(8, 800)
      /\ p.followups_used \in {1}
      /\ p.attempt_index \in Attempt
  BY SMT, <1>1, TextsFit
     DEF Attempt, Id
<1>5. Meets(FollowupAsked, p)
  BY SMT, <1>2, <1>3, <1>4 DEF Meets
<1>6. Agrees("followup_asked", p)
  BY <1>1, <1>2 DEF Agrees, NeedsTurn, MayHaveTurn
<1>7. /\ TypeOf("followup") = "followup_asked"
      /\ FieldsOf("followup_asked") = FollowupAsked
  BY DEF TypeOf, FieldsOf
<1> QED
  BY <1>5, <1>6, <1>7 DEF Valid

\* The verdict on turns that are on record.
LEMMA EvaluatesInContract ==
    ASSUME LengthsFit, NEW p \in Posted("evaluated", 1)
    PROVE  Valid(TypeOf("evaluated"), p)
<1>1. PICK v \in Verdicts :
          p = [question_id |-> "id", turn_ids |-> {"id"}, attempt_index |-> 1, classification |->
               v[1], policy_action |-> v[2], reason_codes |-> "list", confidence |-> 100,
               evaluator_version |-> "id"]
  BY DEF Posted, Evaluates, Verdicts
<1>2. /\ DOMAIN AnswerEvaluated.needs =
             {"question_id", "turn_ids", "attempt_index", "classification", "policy_action",
              "reason_codes", "confidence", "evaluator_version"}
      /\ DOMAIN AnswerEvaluated.may = {}
      /\ DOMAIN p =
             {"question_id", "turn_ids", "attempt_index", "classification", "policy_action",
              "reason_codes", "confidence", "evaluator_version"}
  BY <1>1 DEF AnswerEvaluated, None
<1>3. /\ AnswerEvaluated.needs["question_id"] = Id
      /\ AnswerEvaluated.needs["turn_ids"] = {Id}
      /\ AnswerEvaluated.needs["attempt_index"] = Attempt
      /\ AnswerEvaluated.needs["classification"] = AnswerClassifications
      /\ AnswerEvaluated.needs["policy_action"] = PolicyActions
      /\ AnswerEvaluated.needs["reason_codes"] = {"list"}
      /\ AnswerEvaluated.needs["confidence"] = Fraction
      /\ AnswerEvaluated.needs["evaluator_version"] = Id
  BY SMT DEF AnswerEvaluated
<1>4. /\ p.question_id \in Id
      /\ p.turn_ids \in {Id}
      /\ p.attempt_index \in Attempt
      /\ p.classification \in AnswerClassifications
      /\ p.policy_action \in PolicyActions
      /\ p.reason_codes \in {"list"}
      /\ p.confidence \in Fraction
      /\ p.evaluator_version \in Id
  BY SMT, <1>1
     DEF AnswerClassifications, Attempt, Fraction, Id, PolicyActions, Verdicts
<1>5. Meets(AnswerEvaluated, p)
  BY SMT, <1>2, <1>3, <1>4 DEF Meets
<1>6. Agrees("answer_evaluated", p)
  BY <1>1, <1>2 DEF Agrees, NeedsTurn, MayHaveTurn
<1>7. /\ TypeOf("evaluated") = "answer_evaluated"
      /\ FieldsOf("answer_evaluated") = AnswerEvaluated
  BY DEF TypeOf, FieldsOf
<1> QED
  BY <1>5, <1>6, <1>7 DEF Valid

\* A question that is over.
LEMMA CompletesInContract ==
    ASSUME LengthsFit, NEW p \in Posted("completed", 0)
    PROVE  Valid(TypeOf("completed"), p)
<1>1. PICK reason \in {"answered", "skipped", "candidate_silent"} :
          p = [question_id |-> "id", completion_reason |-> reason, attempt_index |-> 1]
  BY DEF Posted, CompletesQuestion
<1>2. /\ DOMAIN QuestionCompleted.needs =
             {"question_id", "completion_reason"}
      /\ DOMAIN QuestionCompleted.may = {"attempt_index"}
      /\ DOMAIN p = {"question_id", "completion_reason", "attempt_index"}
  BY <1>1 DEF QuestionCompleted
<1>3. /\ QuestionCompleted.needs["question_id"] = Id
      /\ QuestionCompleted.needs["completion_reason"] = QuestionCompletionReasons
      /\ QuestionCompleted.may["attempt_index"] = Attempt
  BY SMT DEF QuestionCompleted
<1>4. /\ p.question_id \in Id
      /\ p.completion_reason \in QuestionCompletionReasons
      /\ p.attempt_index \in Attempt
  BY SMT, <1>1
     DEF Attempt, Id, QuestionCompletionReasons
<1>5. Meets(QuestionCompleted, p)
  BY SMT, <1>2, <1>3, <1>4 DEF Meets
<1>6. Agrees("question_completed", p)
  BY <1>1, <1>2 DEF Agrees, NeedsTurn, MayHaveTurn
<1>7. /\ TypeOf("completed") = "question_completed"
      /\ FieldsOf("question_completed") = QuestionCompleted
  BY DEF TypeOf, FieldsOf
<1> QED
  BY <1>5, <1>6, <1>7 DEF Valid

\* A silence that is over.
LEMMA NotesInContract ==
    ASSUME LengthsFit, NEW p \in Posted("noted", 0)
    PROVE  Valid(TypeOf("noted"), p)
<1>1. PICK tier \in {"check_in", "warning"}, trigger \in Triggers,
                source \in {"voice", "candidate_control"} :
          p = [question_id |-> "id", tier |-> tier, silent_for_ms |-> 0, trigger |-> trigger,
               source |-> source]
  BY DEF Posted, NotesRecovery, Triggers
<1>2. /\ DOMAIN SilenceRecovered.needs =
             {"tier", "silent_for_ms", "trigger", "source"}
      /\ DOMAIN SilenceRecovered.may = {"question_id"}
      /\ DOMAIN p = {"question_id", "tier", "silent_for_ms", "trigger", "source"}
  BY <1>1 DEF SilenceRecovered
<1>3. /\ SilenceRecovered.needs["tier"] = {"check_in", "warning"}
      /\ SilenceRecovered.needs["silent_for_ms"] = Milliseconds
      /\ SilenceRecovered.needs["trigger"] = InactivityTriggers
      /\ SilenceRecovered.needs["source"] = {"voice", "candidate_control"}
      /\ SilenceRecovered.may["question_id"] = Id
  BY SMT DEF SilenceRecovered
<1>4. /\ p.tier \in {"check_in", "warning"}
      /\ p.silent_for_ms \in Milliseconds
      /\ p.trigger \in InactivityTriggers
      /\ p.source \in {"voice", "candidate_control"}
      /\ p.question_id \in Id
  BY SMT, <1>1, TimesFit
     DEF Id, InactivityTriggers, Triggers
<1>5. Meets(SilenceRecovered, p)
  BY SMT, <1>2, <1>3, <1>4 DEF Meets
<1>6. Agrees("silence_recovered", p)
  BY <1>1, <1>2 DEF Agrees, NeedsTurn, MayHaveTurn
<1>7. /\ TypeOf("noted") = "silence_recovered"
      /\ FieldsOf("silence_recovered") = SilenceRecovered
  BY DEF TypeOf, FieldsOf
<1> QED
  BY <1>5, <1>6, <1>7 DEF Valid

\* A word to a silent candidate.
LEMMA BreaksSilenceInContract ==
    ASSUME LengthsFit, NEW p \in Posted("line", 0)
    PROVE  Valid(TypeOf("line"), p)
<1>1. PICK tier \in {"check_in", "warning"}, trigger \in Triggers :
          p = [question_id |-> "id", tier |-> tier, threshold_ms |-> 1, silent_for_ms |-> 0,
               remaining_ms |-> 0, expires_at |-> "time", trigger |-> trigger]
  BY DEF Posted, BreaksSilence, Triggers
<1>2. /\ DOMAIN SilenceTimeoutStarted.needs =
             {"threshold_ms", "tier"}
      /\ DOMAIN SilenceTimeoutStarted.may =
             {"question_id", "silent_for_ms", "remaining_ms", "expires_at", "trigger"}
      /\ DOMAIN p =
             {"question_id", "tier", "threshold_ms", "silent_for_ms", "remaining_ms",
              "expires_at", "trigger"}
  BY <1>1 DEF SilenceTimeoutStarted
<1>3. /\ SilenceTimeoutStarted.needs["threshold_ms"] = 1 .. AnHour
      /\ SilenceTimeoutStarted.needs["tier"] = SilenceTiers
      /\ SilenceTimeoutStarted.may["question_id"] = Id
      /\ SilenceTimeoutStarted.may["silent_for_ms"] = Milliseconds
      /\ SilenceTimeoutStarted.may["remaining_ms"] = Milliseconds
      /\ SilenceTimeoutStarted.may["expires_at"] = Time
      /\ SilenceTimeoutStarted.may["trigger"] = InactivityTriggers
  BY SMT DEF SilenceTimeoutStarted
<1>4. /\ p.threshold_ms \in 1 .. AnHour
      /\ p.tier \in SilenceTiers
      /\ p.question_id \in Id
      /\ p.silent_for_ms \in Milliseconds
      /\ p.remaining_ms \in Milliseconds
      /\ p.expires_at \in Time
      /\ p.trigger \in InactivityTriggers
  BY SMT, <1>1, TimesFit
     DEF Id, InactivityTriggers, SilenceTiers, Time, Triggers
<1>5. Meets(SilenceTimeoutStarted, p)
  <2>1. DOMAIN SilenceTimeoutStarted.needs \subseteq DOMAIN p
    BY <1>2
  <2>2. ASSUME NEW f \in DOMAIN SilenceTimeoutStarted.needs
        PROVE  p[f] \in SilenceTimeoutStarted.needs[f]
    <3>1. f = "threshold_ms" \/ f = "tier"
      BY <1>2
    <3>2. QED
      BY <1>3, <1>4, <3>1, Zenon
  <2>3. ASSUME NEW f \in DOMAIN SilenceTimeoutStarted.may \cap DOMAIN p
        PROVE  p[f] \in SilenceTimeoutStarted.may[f]
    <3>1. f \in {"question_id", "silent_for_ms", "remaining_ms", "expires_at", "trigger"}
      BY <1>2
    <3>2. QED
      BY SMT, <1>2, <1>3, <1>4, <3>1
  <2>4. QED
    BY <2>1, <2>2, <2>3, Zenon DEF Meets
<1>6. Agrees("silence_timeout_started", p)
  BY <1>1, <1>2 DEF Agrees, NeedsTurn, MayHaveTurn
<1>7. /\ TypeOf("line") = "silence_timeout_started"
      /\ FieldsOf("silence_timeout_started") = SilenceTimeoutStarted
  BY DEF TypeOf, FieldsOf
<1> QED
  BY <1>5, <1>6, <1>7 DEF Valid

\* The last word to one.
LEMMA EndsSilenceInContract ==
    ASSUME LengthsFit, NEW p \in Posted("line", 1)
    PROVE  Valid(TypeOf("line"), p)
<1>1. PICK trigger \in Triggers :
          p = [question_id |-> "id", tier |-> "terminal", threshold_ms |-> 1, silent_for_ms |->
               0, remaining_ms |-> 0, trigger |-> trigger]
  BY DEF Posted, EndsSilence, Triggers
<1>2. /\ DOMAIN SilenceTimeoutStarted.needs =
             {"threshold_ms", "tier"}
      /\ DOMAIN SilenceTimeoutStarted.may =
             {"question_id", "silent_for_ms", "remaining_ms", "expires_at", "trigger"}
      /\ DOMAIN p =
             {"question_id", "tier", "threshold_ms", "silent_for_ms", "remaining_ms", "trigger"}
  BY <1>1 DEF SilenceTimeoutStarted
<1>3. /\ SilenceTimeoutStarted.needs["threshold_ms"] = 1 .. AnHour
      /\ SilenceTimeoutStarted.needs["tier"] = SilenceTiers
      /\ SilenceTimeoutStarted.may["question_id"] = Id
      /\ SilenceTimeoutStarted.may["silent_for_ms"] = Milliseconds
      /\ SilenceTimeoutStarted.may["remaining_ms"] = Milliseconds
      /\ SilenceTimeoutStarted.may["expires_at"] = Time
      /\ SilenceTimeoutStarted.may["trigger"] = InactivityTriggers
  BY SMT DEF SilenceTimeoutStarted
<1>4. /\ p.threshold_ms \in 1 .. AnHour
      /\ p.tier \in SilenceTiers
      /\ p.question_id \in Id
      /\ p.silent_for_ms \in Milliseconds
      /\ p.remaining_ms \in Milliseconds
      /\ p.trigger \in InactivityTriggers
  BY SMT, <1>1, TimesFit
     DEF Id, InactivityTriggers, SilenceTiers, Triggers
<1>5. Meets(SilenceTimeoutStarted, p)
  <2>1. DOMAIN SilenceTimeoutStarted.needs \subseteq DOMAIN p
    BY <1>2
  <2>2. ASSUME NEW f \in DOMAIN SilenceTimeoutStarted.needs
        PROVE  p[f] \in SilenceTimeoutStarted.needs[f]
    <3>1. f = "threshold_ms" \/ f = "tier"
      BY <1>2
    <3>2. QED
      BY <1>3, <1>4, <3>1, Zenon
  <2>3. ASSUME NEW f \in DOMAIN SilenceTimeoutStarted.may \cap DOMAIN p
        PROVE  p[f] \in SilenceTimeoutStarted.may[f]
    <3>1. f \in {"question_id", "silent_for_ms", "remaining_ms", "expires_at", "trigger"}
      BY <1>2
    <3>2. QED
      BY SMT, <1>2, <1>3, <1>4, <3>1
  <2>4. QED
    BY <2>1, <2>2, <2>3, Zenon DEF Meets
<1>6. Agrees("silence_timeout_started", p)
  BY <1>1, <1>2 DEF Agrees, NeedsTurn, MayHaveTurn
<1>7. /\ TypeOf("line") = "silence_timeout_started"
      /\ FieldsOf("silence_timeout_started") = SilenceTimeoutStarted
  BY DEF TypeOf, FieldsOf
<1> QED
  BY <1>5, <1>6, <1>7 DEF Valid

\* The closing.
LEMMA ClosesInContract ==
    ASSUME LengthsFit, NEW p \in Posted("closing", 0)
    PROVE  Valid(TypeOf("closing"), p)
<1>1. PICK done \in 0 .. N, line \in Lines :
          p = [completed_questions |-> done, total_questions |-> N, closing |-> line]
  BY DEF Posted, ClosesSession
<1>2. /\ DOMAIN SessionClosing.needs =
             {"completed_questions", "total_questions", "closing"}
      /\ DOMAIN SessionClosing.may = {}
      /\ DOMAIN p = {"completed_questions", "total_questions", "closing"}
  BY <1>1 DEF SessionClosing, None
<1>3. /\ SessionClosing.needs["completed_questions"] = 0 .. 1000
      /\ SessionClosing.needs["total_questions"] = 1 .. 1000
      /\ SessionClosing.needs["closing"] = Text(1, 800)
  BY SMT DEF SessionClosing
<1>4. /\ p.completed_questions \in 0 .. 1000
      /\ p.total_questions \in 1 .. 1000
      /\ p.closing \in Text(1, 800)
  BY SMT, <1>1, TextsFit, CountsFit
<1>5. Meets(SessionClosing, p)
  BY SMT, <1>2, <1>3, <1>4 DEF Meets
<1>6. Agrees("session_closing", p)
  BY <1>1, <1>2 DEF Agrees, NeedsTurn, MayHaveTurn
<1>7. /\ TypeOf("closing") = "session_closing"
      /\ FieldsOf("session_closing") = SessionClosing
  BY DEF TypeOf, FieldsOf
<1> QED
  BY <1>5, <1>6, <1>7 DEF Valid

\* The end of the interview.
LEMMA EndsInContract ==
    ASSUME LengthsFit, NEW p \in Posted("end", 0)
    PROVE  Valid(TypeOf("end"), p)
<1>1. PICK reason \in {"all_questions_completed", "candidate_requested_stop",
                           "max_duration_reached"}, done \in 0 .. N :
          p = [completed_reason |-> reason, completed_questions |-> done, total_questions |-> N]
  BY DEF Posted, CompletesSession
<1>2. /\ DOMAIN SessionCompleted.needs =
             {"completed_reason", "completed_questions", "total_questions"}
      /\ DOMAIN SessionCompleted.may = {}
      /\ DOMAIN p = {"completed_reason", "completed_questions", "total_questions"}
  BY <1>1 DEF SessionCompleted, None
<1>3. /\ SessionCompleted.needs["completed_reason"] = SessionCompletionReasons
      /\ SessionCompleted.needs["completed_questions"] = 0 .. 1000
      /\ SessionCompleted.needs["total_questions"] = 1 .. 1000
  BY SMT DEF SessionCompleted
<1>4. /\ p.completed_reason \in SessionCompletionReasons
      /\ p.completed_questions \in 0 .. 1000
      /\ p.total_questions \in 1 .. 1000
  BY SMT, <1>1, CountsFit
     DEF SessionCompletionReasons
<1>5. Meets(SessionCompleted, p)
  BY SMT, <1>2, <1>3, <1>4 DEF Meets
<1>6. Agrees("session_completed", p)
  BY <1>1, <1>2 DEF Agrees, NeedsTurn, MayHaveTurn
<1>7. /\ TypeOf("end") = "session_completed"
      /\ FieldsOf("session_completed") = SessionCompleted
  BY DEF TypeOf, FieldsOf
<1> QED
  BY <1>5, <1>6, <1>7 DEF Valid

\* Its failure.
LEMMA FailsInContract ==
    ASSUME LengthsFit, NEW p \in Posted("fail", 0)
    PROVE  Valid(TypeOf("fail"), p)
<1>1. PICK again \in BOOLEAN :
          p = [code |-> 28, message |-> 60, retryable |-> again]
  BY DEF Posted, FailsSession
<1>2. /\ DOMAIN SessionFailed.needs =
             {"code", "message", "retryable"}
      /\ DOMAIN SessionFailed.may = {}
      /\ DOMAIN p = {"code", "message", "retryable"}
  BY <1>1 DEF SessionFailed, None
<1>3. /\ SessionFailed.needs["code"] = Text(2, 80)
      /\ SessionFailed.needs["message"] = Text(1, 500)
      /\ SessionFailed.needs["retryable"] = BOOLEAN
  BY SMT DEF SessionFailed
<1>4. /\ p.code \in Text(2, 80)
      /\ p.message \in Text(1, 500)
      /\ p.retryable \in BOOLEAN
  BY SMT, <1>1
     DEF Text
<1>5. Meets(SessionFailed, p)
  BY SMT, <1>2, <1>3, <1>4 DEF Meets
<1>6. Agrees("session_failed", p)
  BY <1>1, <1>2 DEF Agrees, NeedsTurn, MayHaveTurn
<1>7. /\ TypeOf("fail") = "session_failed"
      /\ FieldsOf("session_failed") = SessionFailed
  BY DEF TypeOf, FieldsOf
<1> QED
  BY <1>5, <1>6, <1>7 DEF Valid

\* A turn of the candidate's, with its transcript.
LEMMA TurnsInContract ==
    ASSUME LengthsFit, NEW p \in Posted("turn", 0)
    PROVE  Valid(TypeOf("turn"), p)
<1>1. PICK reason \in {"answered", "skipped", "incomplete"}, length \in TurnLengths :
          p = [question_id |-> "id", completion_reason |-> reason,
               transcript_turn |-> [turn_id |-> "id", session_id |-> "id", question_id |-> "id",
                                    speaker |-> "candidate", text |-> length, is_final |-> TRUE,
                                    started_at |-> "time", ended_at |-> "time"]]
  BY DEF Posted, FinalizesTurn
<1>2. /\ DOMAIN CandidateTurnFinalized.needs = {"question_id", "completion_reason"}
      /\ DOMAIN CandidateTurnFinalized.may = {}
      /\ DOMAIN p = {"question_id", "completion_reason", "transcript_turn"}
  BY <1>1 DEF CandidateTurnFinalized, None
<1>3. /\ CandidateTurnFinalized.needs["question_id"] = Id
      /\ CandidateTurnFinalized.needs["completion_reason"] = TurnCompletionReasons
  BY SMT DEF CandidateTurnFinalized
<1>4. /\ p.question_id \in Id
      /\ p.completion_reason \in TurnCompletionReasons
  BY <1>1 DEF Id, TurnCompletionReasons
<1>5. Meets(CandidateTurnFinalized, p)
  BY SMT, <1>2, <1>3, <1>4 DEF Meets
<1>6. Meets(TurnFields("candidate"), p.transcript_turn)
  <2> DEFINE said == p.transcript_turn
             fields == TurnFields("candidate")
  <2>1. /\ DOMAIN fields.needs = {"turn_id", "session_id", "speaker", "text", "started_at"}
        /\ DOMAIN fields.may = {"question_id", "is_final", "confidence", "ended_at"}
    BY SMT DEF TurnFields
  <2>2. DOMAIN said = {"turn_id", "session_id", "question_id", "speaker", "text", "is_final",
                       "started_at", "ended_at"}
    BY <1>1
  <2>3. /\ fields.needs["turn_id"] = Id
        /\ fields.needs["session_id"] = Id
        /\ fields.needs["speaker"] = {"candidate"} \cap Speakers
        /\ fields.needs["text"] = Text(1, LongestText)
        /\ fields.needs["started_at"] = Time
        /\ fields.may["question_id"] = Id
        /\ fields.may["is_final"] = BOOLEAN
        /\ fields.may["ended_at"] = Time
    BY SMT DEF TurnFields
  <2>4. /\ said.turn_id = "id" /\ said.session_id = "id" /\ said.question_id = "id"
        /\ said.speaker = "candidate" /\ said.text = length /\ said.is_final = TRUE
        /\ said.started_at = "time" /\ said.ended_at = "time"
    BY SMT, <1>1
  <2> HIDE DEF said, fields
  <2>5. length \in Text(1, LongestText)
    BY TextsFit, SMT
  <2>6. /\ said.turn_id \in Id /\ said.session_id \in Id /\ said.question_id \in Id
        /\ said.started_at \in Time /\ said.ended_at \in Time
    BY <2>4 DEF Id, Time
  <2>7. said.speaker \in {"candidate"} \cap Speakers
    BY <2>4 DEF Speakers
  <2>8. /\ said.text \in Text(1, LongestText)
        /\ said.is_final \in BOOLEAN
    BY <2>4, <2>5
  <2>9. Meets(fields, said)
    BY SMT, <2>1, <2>2, <2>3, <2>6, <2>7, <2>8 DEF Meets
  <2> QED
    BY <2>9 DEF fields, said
<1>7. Agrees("candidate_turn_finalized", p)
  BY <1>2, <1>6 DEF Agrees, NeedsTurn, MayHaveTurn, SpeakerOf
<1>8. /\ TypeOf("turn") = "candidate_turn_finalized"
      /\ FieldsOf("candidate_turn_finalized") = CandidateTurnFinalized
  BY DEF TypeOf, FieldsOf
<1> QED
  BY <1>5, <1>7, <1>8 DEF Valid

-----------------------------------------------------------------------------
(* What is not. *)

\* A payload with a field the service does not take is refused.
LEMMA WrongField ==
    ASSUME NEW type, NEW fields, FieldsOf(type) = fields, NEW p, NEW f \in DOMAIN fields.needs,
           p[f] \notin fields.needs[f]
    PROVE  ~Valid(type, p)
  BY DEF Valid, Meets

\* A question said again for a reason of the agent's own.
LEMMA RepeatedForAnotherReason ==
    ASSUME LengthsFit, NEW variant \in {0, 1}
    PROVE  \E p \in Posted("again", variant) : ~Valid(TypeOf("again"), p)
<1>1. PICK reason : reason = IF variant = 1 THEN "candidate_control_repeat"
                             ELSE "candidate_reconnected"
  OBVIOUS
<1>2. PICK said \in RepeatPrefixes : TRUE
  <2>1. RepeatPrefixes # {}
    BY PTL DEF LengthsFit
  <2>2. QED
    BY <2>1
<1>3. PICK p : p = [question_id |-> "id", prompt |-> PromptLength + said, reason |-> reason]
  OBVIOUS
<1>4. p \in Posted("again", variant)
  BY <1>1, <1>3 DEF Posted, RepeatsQuestion
<1>5. /\ TypeOf("again") = "question_repeated"
      /\ FieldsOf("question_repeated") = QuestionRepeated
      /\ "reason" \in DOMAIN QuestionRepeated.needs
      /\ QuestionRepeated.needs["reason"] = {"candidate_requested_repeat"}
      /\ p["reason"] = reason /\ reason # "candidate_requested_repeat"
  BY <1>1, <1>3 DEF TypeOf, FieldsOf, QuestionRepeated
<1>6. p["reason"] \notin QuestionRepeated.needs["reason"]
  BY <1>5
<1>7. ~Valid("question_repeated", p)
  BY <1>5, <1>6, WrongField, Zenon
<1> QED
  BY <1>4, <1>5, <1>7, Zenon

\* The second reprompt of a question.
LEMMA SecondReprompt ==
    ASSUME LengthsFit
    PROVE  \E p \in Posted("reprompt", 2) : ~Valid(TypeOf("reprompt"), p)
<1>1. PICK line \in Lines : TRUE
  <2>1. Lines # {}
    BY PTL DEF LengthsFit
  <2>2. QED
    BY <2>1
<1>2. PICK p : p = [question_id |-> "id", prompt |-> line, reprompts_used |-> 2,
                    attempt_index |-> 2]
  OBVIOUS
<1>3. p \in Posted("reprompt", 2)
  BY <1>2 DEF Posted, Reprompts
<1>4. /\ TypeOf("reprompt") = "soft_reprompted"
      /\ FieldsOf("soft_reprompted") = SoftReprompted
      /\ "reprompts_used" \in DOMAIN SoftReprompted.needs
      /\ SoftReprompted.needs["reprompts_used"] = {1}
      /\ p["reprompts_used"] = 2
  BY <1>2 DEF TypeOf, FieldsOf, SoftReprompted
<1>5. p["reprompts_used"] \notin SoftReprompted.needs["reprompts_used"]
  BY <1>4
<1>6. ~Valid("soft_reprompted", p)
  BY <1>4, <1>5, WrongField, Zenon
<1> QED
  BY <1>3, <1>4, <1>6, Zenon

\* The verdict on turns none of which is on record.
LEMMA VerdictOnNothing ==
    \E p \in Posted("evaluated", 0) : ~Valid(TypeOf("evaluated"), p)
<1>1. PICK v \in Verdicts : TRUE
  BY DEF Verdicts
<1>2. PICK p : p = [question_id |-> "id", turn_ids |-> {}, attempt_index |-> 1,
                    classification |-> v[1], policy_action |-> v[2], reason_codes |-> "list",
                    confidence |-> 100, evaluator_version |-> "id"]
  OBVIOUS
<1>3. p \in Posted("evaluated", 0)
  <2>1. p \in Evaluates({})
    BY <1>2 DEF Evaluates
  <2>2. Posted("evaluated", 0) = Evaluates({})
    BY DEF Posted
  <2>3. QED
    BY <2>1, <2>2
<1>4. /\ TypeOf("evaluated") = "answer_evaluated"
      /\ FieldsOf("answer_evaluated") = AnswerEvaluated
      /\ "turn_ids" \in DOMAIN AnswerEvaluated.needs
      /\ AnswerEvaluated.needs["turn_ids"] = {Id}
      /\ p["turn_ids"] = {}
  BY <1>2 DEF TypeOf, FieldsOf, AnswerEvaluated
<1> QED
  BY <1>3, <1>4, WrongField DEF Id

-----------------------------------------------------------------------------
(* Together. *)

\* The steps and variants the service takes.
Taken ==
    {<<"turn", 0>>, <<"ask", 0>>, <<"repeat", 0>>, <<"reopened", 0>>, <<"wait", 0>>,
     <<"reprompt", 1>>, <<"followup", 1>>, <<"evaluated", 1>>, <<"completed", 0>>, <<"noted", 0>>,
     <<"line", 0>>, <<"line", 1>>, <<"closing", 0>>, <<"end", 0>>, <<"fail", 0>>}

\* Every form of an event is on one of the two lists.
LEMMA FormsAreTakenOrRefused == Forms = Taken \cup Refused /\ Taken \cap Refused = {}
  BY DEF Forms, Taken, Refused, Posting, Prompts

\* What is on the first list is never refused.
LEMMA TakenIsTaken ==
    ASSUME LengthsFit, NEW form \in Taken
    PROVE  \A p \in Posted(form[1], form[2]) : Valid(TypeOf(form[1]), p)
  BY AsksInContract, RepeatsInContract, ReopensInContract, WaitsInContract, RepromptsInContract,
     FollowsUpInContract, EvaluatesInContract, CompletesInContract, NotesInContract,
     BreaksSilenceInContract, EndsSilenceInContract, ClosesInContract, EndsInContract,
     FailsInContract, TurnsInContract
     DEF Taken

\* What is on the second list is refused for some text that fits.
LEMMA RefusedIsRefused ==
    ASSUME LengthsFit, NEW form \in Refused
    PROVE  \E p \in Posted(form[1], form[2]) : ~Valid(TypeOf(form[1]), p)
  BY RepeatedForAnotherReason, SecondReprompt, VerdictOnNothing DEF Refused

\* Of what the agent posts the service refuses three kinds and takes the rest: a question said
\* again after a reconnection or by the button, a second reprompt, and a verdict on turns that
\* were not recorded.
THEOREM OnlyTheseAreEverRefused ==
    ASSUME LengthsFit
    PROVE  OnlyTheseAreRefused
<1>1. \A form \in Forms : form \in Accepted <=> form \in Taken
  BY FormsAreTakenOrRefused, TakenIsTaken, RefusedIsRefused DEF Accepted
<1> QED
  BY <1>1, FormsAreTakenOrRefused DEF OnlyTheseAreRefused

-----------------------------------------------------------------------------
(* What is left of an operation, by what has to be true while it is.       *)

\* Whose steps only say something or wait.
Plain ==
    {<<"ask", "play", "asked">>, <<"play", "asked">>, <<"asked">>, <<"turn">>, <<"assess">>,
     <<"evaluated", "repeat", "play">>, <<"repeat", "play">>, <<"play">>,
     <<"evaluated", "wait", "play", "extend">>, <<"wait", "play", "extend">>,
     <<"play", "extend">>, <<"extend">>, <<"line", "play">>, <<"again", "play">>, <<"noted">>}

Completing == {<<"evaluated", "completed", "next">>, <<"completed", "next">>}

GoingOn == {<<"next">>}

Reopening ==
    {<<"evaluated", "reopen", "reopened", "play", "asked">>,
     <<"reopen", "reopened", "play", "asked">>}

Reopened == {<<"reopened", "play", "asked">>}

FollowingUp == {<<"evaluated", "followup", "play">>, <<"followup", "play">>}

Reprompting == {<<"evaluated", "reprompt", "play">>, <<"reprompt", "play">>}

\* Those of an interview that is being ended.
Ending ==
    {<<"closing", "play", "end", "closed">>, <<"play", "end", "closed">>, <<"end", "closed">>,
     <<"closed">>, <<"line", "play", "fail", "closed", "disconnect">>,
     <<"play", "fail", "closed", "disconnect">>, <<"fail", "closed", "disconnect">>,
     <<"closed", "disconnect">>, <<"disconnect">>}

Lists == Plain \cup Completing \cup GoingOn \cup Reopening \cup Reopened \cup FollowingUp
           \cup Reprompting \cup Ending

\* The interview is on, and what is left to do is about its current question: to go on
\* to the next the log must have it as completed, to ask it again it must be open.
AboutQuestion(todo) ==
    \/ todo \in Plain \cup Completing
    \/ todo \in GoingOn /\ ctl.current \in covered
    \/ todo \in Reopening /\ ctl.target \in Questions
    \/ todo \in Reopened /\ ctl.current \notin ctl.completed
    \/ todo \in FollowingUp /\ ctl.followups[ctl.current] = 1
    \/ todo \in Reprompting /\ ctl.reprompts[ctl.current] >= 1

OperationOK ==
    /\ op \in [by : Holders, todo : Lists \cup {<<>>}]
    /\ \/ op = NoOp
       \/ /\ op.by # "none"
          /\ \/ op.todo \in Ending /\ ctl.terminal
             \/ AboutQuestion(op.todo) /\ ~ctl.terminal /\ ctl.current # 0

-----------------------------------------------------------------------------
(* The invariant. *)

\* agent_joined ends the time in which an agent may join, and a reason is recorded with
\* the end of the interview.
LogOK ==
    /\ LogTypeOK
    /\ "agent_joined" \in session.types =>
           session.status \notin {"created", "waiting_candidate", "agent_joining"}
    /\ outcome # "none" => session.status \in Terminal

\* What the worker takes for completed is so in the log.
CoverOK ==
    /\ covered \subseteq Questions
    /\ outcome \in {"none", "all", "other"}
    /\ outcome = "all" => covered = Questions
    /\ ctl.completed \subseteq covered

ControllerType ==
    [current : 0 .. N, completed : SUBSET Questions, reprompts : [Questions -> 0 .. 2],
     followups : [Questions -> 0 .. 1], connected : BOOLEAN, terminal : BOOLEAN,
     closed : BOOLEAN, broken : BOOLEAN, target : 0 .. N, reason : {"none", "all", "other"}]

PlanOK ==
    /\ ctl \in ControllerType
    /\ ctl.reason = "all" => ctl.completed = Questions
    /\ ~ctl.terminal => ctl.reason = "none"

\* Before it conducts the interview the worker has done nothing.
StageOK ==
    /\ worker \in Phases
    /\ ~Conducting => op = NoOp /\ ctl.current = 0 /\ ctl.completed = {} /\ ~ctl.terminal
    /\ Conducting /\ ~ctl.terminal => ctl.current # 0

JobType ==
    [at : {"none", "lost", "queued", "claimed", "acked", "dead"}, attempts : 0 .. MaxAttempts]

TurnType ==
    [state : {"none", "speaking", "committed", "recorded", "handled"},
     fresh : BOOLEAN, ids : BOOLEAN, resumed : BOOLEAN]

RestOK ==
    /\ job \in JobType
    /\ waiting \subseteq Waiters
    /\ turn \in TurnType
    /\ inactivity \in {"off", "extension", "check_in", "checked", "warning", "warned", "timeout"}
    /\ absence \in {"here", "grace", "over"}
    /\ candidate \in [present : BOOLEAN, room : BOOLEAN, left : 0 .. Leaves]
    /\ faults \in 0 .. MaxFaults

AgentIInv == LogOK /\ CoverOK /\ PlanOK /\ StageOK /\ OperationOK /\ RestOK

-----------------------------------------------------------------------------
(* What is done first of a list, and what is left of it then.              *)

\* Saying or waiting goes on, until nothing is left.
LEMMA PlainLists ==
    ASSUME NEW l \in Plain
    PROVE  /\ l # <<>>
           /\ Head(l) \in {"ask", "play", "asked", "turn", "assess", "evaluated", "repeat", "wait",
                           "extend", "line", "again", "noted"}
           /\ Tail(l) \in Plain \cup {<<>>}
<1>1. CASE l \in {<<"ask", "play", "asked">>,
                  <<"play", "asked">>,
                  <<"asked">>}
  <2>1. /\ <<"ask", "play", "asked">> # <<>>
        /\ <<"play", "asked">> # <<>>
        /\ <<"asked">> # <<>>
    OBVIOUS
  <2>2. /\ Head(<<"ask", "play", "asked">>) = "ask"
        /\ Head(<<"play", "asked">>) = "play"
        /\ Head(<<"asked">>) = "asked"
    OBVIOUS
  <2>3. /\ Tail(<<"ask", "play", "asked">>) = <<"play", "asked">>
        /\ Tail(<<"play", "asked">>) = <<"asked">>
        /\ Tail(<<"asked">>) = <<>>
    OBVIOUS
  <2>4. QED
    BY <1>1, <2>1, <2>2, <2>3, Zenon DEF Plain
<1>2. CASE l \in {<<"turn">>,
                  <<"assess">>,
                  <<"evaluated", "repeat", "play">>,
                  <<"repeat", "play">>,
                  <<"play">>}
  <2>1. /\ <<"turn">> # <<>>
        /\ <<"assess">> # <<>>
        /\ <<"evaluated", "repeat", "play">> # <<>>
        /\ <<"repeat", "play">> # <<>>
        /\ <<"play">> # <<>>
    OBVIOUS
  <2>2. /\ Head(<<"turn">>) = "turn"
        /\ Head(<<"assess">>) = "assess"
        /\ Head(<<"evaluated", "repeat", "play">>) = "evaluated"
        /\ Head(<<"repeat", "play">>) = "repeat"
        /\ Head(<<"play">>) = "play"
    OBVIOUS
  <2>3. /\ Tail(<<"turn">>) = <<>>
        /\ Tail(<<"assess">>) = <<>>
        /\ Tail(<<"evaluated", "repeat", "play">>) = <<"repeat", "play">>
        /\ Tail(<<"repeat", "play">>) = <<"play">>
        /\ Tail(<<"play">>) = <<>>
    OBVIOUS
  <2>4. QED
    BY <1>2, <2>1, <2>2, <2>3, Zenon DEF Plain
<1>3. CASE l \in {<<"evaluated", "wait", "play", "extend">>,
                  <<"wait", "play", "extend">>,
                  <<"play", "extend">>,
                  <<"extend">>}
  <2>1. /\ <<"evaluated", "wait", "play", "extend">> # <<>>
        /\ <<"wait", "play", "extend">> # <<>>
        /\ <<"play", "extend">> # <<>>
        /\ <<"extend">> # <<>>
    OBVIOUS
  <2>2. /\ Head(<<"evaluated", "wait", "play", "extend">>) = "evaluated"
        /\ Head(<<"wait", "play", "extend">>) = "wait"
        /\ Head(<<"play", "extend">>) = "play"
        /\ Head(<<"extend">>) = "extend"
    OBVIOUS
  <2>3. /\ Tail(<<"evaluated", "wait", "play", "extend">>) = <<"wait", "play", "extend">>
        /\ Tail(<<"wait", "play", "extend">>) = <<"play", "extend">>
        /\ Tail(<<"play", "extend">>) = <<"extend">>
        /\ Tail(<<"extend">>) = <<>>
    OBVIOUS
  <2>4. QED
    BY <1>3, <2>1, <2>2, <2>3, Zenon DEF Plain
<1>4. CASE l \in {<<"line", "play">>,
                  <<"again", "play">>,
                  <<"noted">>}
  <2>1. /\ <<"line", "play">> # <<>>
        /\ <<"again", "play">> # <<>>
        /\ <<"noted">> # <<>>
    OBVIOUS
  <2>2. /\ Head(<<"line", "play">>) = "line"
        /\ Head(<<"again", "play">>) = "again"
        /\ Head(<<"noted">>) = "noted"
    OBVIOUS
  <2>3. /\ Tail(<<"line", "play">>) = <<"play">>
        /\ Tail(<<"again", "play">>) = <<"play">>
        /\ Tail(<<"noted">>) = <<>>
    OBVIOUS
  <2>4. QED
    BY <1>4, <2>1, <2>2, <2>3, Zenon DEF Plain
<1> QED
  BY <1>1, <1>2, <1>3, <1>4, Zenon DEF Plain

\* A completion leads to the next question.
LEMMA CompletingLists ==
    ASSUME NEW l \in Completing
    PROVE  /\ l # <<>>
           /\ \/ Head(l) = "evaluated" /\ Tail(l) \in Completing
              \/ Head(l) = "completed" /\ Tail(l) \in GoingOn
<1>1. /\ <<"evaluated", "completed", "next">> # <<>>
      /\ <<"completed", "next">> # <<>>
  OBVIOUS
<1>2. /\ Head(<<"evaluated", "completed", "next">>) = "evaluated"
      /\ Head(<<"completed", "next">>) = "completed"
  OBVIOUS
<1>3. /\ Tail(<<"evaluated", "completed", "next">>) = <<"completed", "next">>
      /\ Tail(<<"completed", "next">>) = <<"next">>
  OBVIOUS
<1> QED
  BY <1>1, <1>2, <1>3, Zenon DEF Completing, GoingOn

\* The next question is the last step of its list.
LEMMA GoingOnLists ==
    ASSUME NEW l \in GoingOn
    PROVE  l # <<>> /\ Head(l) = "next" /\ Tail(l) = <<>>
<1>1. <<"next">> # <<>>
  OBVIOUS
<1>2. Head(<<"next">>) = "next"
  OBVIOUS
<1>3. Tail(<<"next">>) = <<>>
  OBVIOUS
<1> QED
  BY <1>1, <1>2, <1>3, Zenon DEF GoingOn

\* A reopening is evaluated, done, and said.
LEMMA ReopeningLists ==
    ASSUME NEW l \in Reopening
    PROVE  /\ l # <<>>
           /\ \/ Head(l) = "evaluated" /\ Tail(l) \in Reopening
              \/ Head(l) = "reopen" /\ Tail(l) \in Reopened
<1>1. /\ <<"evaluated", "reopen", "reopened", "play", "asked">> # <<>>
      /\ <<"reopen", "reopened", "play", "asked">> # <<>>
  OBVIOUS
<1>2. /\ Head(<<"evaluated", "reopen", "reopened", "play", "asked">>) = "evaluated"
      /\ Head(<<"reopen", "reopened", "play", "asked">>) = "reopen"
  OBVIOUS
<1>3. /\ Tail(<<"evaluated", "reopen", "reopened", "play", "asked">>) =
             <<"reopen", "reopened", "play", "asked">>
      /\ Tail(<<"reopen", "reopened", "play", "asked">>) = <<"reopened", "play", "asked">>
  OBVIOUS
<1> QED
  BY <1>1, <1>2, <1>3, Zenon DEF Reopening, Reopened

\* The reopened question is said again.
LEMMA ReopenedLists ==
    ASSUME NEW l \in Reopened
    PROVE  l # <<>> /\ Head(l) = "reopened" /\ Tail(l) \in Plain
<1>1. <<"reopened", "play", "asked">> # <<>>
  OBVIOUS
<1>2. Head(<<"reopened", "play", "asked">>) = "reopened"
  OBVIOUS
<1>3. Tail(<<"reopened", "play", "asked">>) = <<"play", "asked">>
  OBVIOUS
<1> QED
  BY <1>1, <1>2, <1>3, Zenon DEF Reopened, Plain

\* A follow-up question is said once it is evaluated.
LEMMA FollowingUpLists ==
    ASSUME NEW l \in FollowingUp
    PROVE  /\ l # <<>>
           /\ \/ Head(l) = "evaluated" /\ Tail(l) \in FollowingUp
              \/ Head(l) = "followup" /\ Tail(l) \in Plain
<1>1. /\ <<"evaluated", "followup", "play">> # <<>>
      /\ <<"followup", "play">> # <<>>
  OBVIOUS
<1>2. /\ Head(<<"evaluated", "followup", "play">>) = "evaluated"
      /\ Head(<<"followup", "play">>) = "followup"
  OBVIOUS
<1>3. /\ Tail(<<"evaluated", "followup", "play">>) = <<"followup", "play">>
      /\ Tail(<<"followup", "play">>) = <<"play">>
  OBVIOUS
<1> QED
  BY <1>1, <1>2, <1>3, Zenon DEF FollowingUp, Plain

\* A reprompt is said once it is evaluated.
LEMMA RepromptingLists ==
    ASSUME NEW l \in Reprompting
    PROVE  /\ l # <<>>
           /\ \/ Head(l) = "evaluated" /\ Tail(l) \in Reprompting
              \/ Head(l) = "reprompt" /\ Tail(l) \in Plain
<1>1. /\ <<"evaluated", "reprompt", "play">> # <<>>
      /\ <<"reprompt", "play">> # <<>>
  OBVIOUS
<1>2. /\ Head(<<"evaluated", "reprompt", "play">>) = "evaluated"
      /\ Head(<<"reprompt", "play">>) = "reprompt"
  OBVIOUS
<1>3. /\ Tail(<<"evaluated", "reprompt", "play">>) = <<"reprompt", "play">>
      /\ Tail(<<"reprompt", "play">>) = <<"play">>
  OBVIOUS
<1> QED
  BY <1>1, <1>2, <1>3, Zenon DEF Reprompting, Plain

\* An interview that is being ended is ended.
LEMMA EndingLists ==
    ASSUME NEW l \in Ending
    PROVE  /\ l # <<>>
           /\ Head(l) \in {"closing", "play", "end", "closed", "line", "fail", "disconnect"}
           /\ Tail(l) \in Ending \cup {<<>>}
<1>1. /\ <<"closing", "play", "end", "closed">> # <<>>
      /\ <<"play", "end", "closed">> # <<>>
      /\ <<"end", "closed">> # <<>>
      /\ <<"closed">> # <<>>
      /\ <<"line", "play", "fail", "closed", "disconnect">> # <<>>
      /\ <<"play", "fail", "closed", "disconnect">> # <<>>
      /\ <<"fail", "closed", "disconnect">> # <<>>
      /\ <<"closed", "disconnect">> # <<>>
      /\ <<"disconnect">> # <<>>
  OBVIOUS
<1>2. /\ Head(<<"closing", "play", "end", "closed">>) = "closing"
      /\ Head(<<"play", "end", "closed">>) = "play"
      /\ Head(<<"end", "closed">>) = "end"
      /\ Head(<<"closed">>) = "closed"
      /\ Head(<<"line", "play", "fail", "closed", "disconnect">>) = "line"
      /\ Head(<<"play", "fail", "closed", "disconnect">>) = "play"
      /\ Head(<<"fail", "closed", "disconnect">>) = "fail"
      /\ Head(<<"closed", "disconnect">>) = "closed"
      /\ Head(<<"disconnect">>) = "disconnect"
  OBVIOUS
<1>3. /\ Tail(<<"closing", "play", "end", "closed">>) = <<"play", "end", "closed">>
      /\ Tail(<<"play", "end", "closed">>) = <<"end", "closed">>
      /\ Tail(<<"end", "closed">>) = <<"closed">>
      /\ Tail(<<"closed">>) = <<>>
      /\ Tail(<<"line", "play", "fail", "closed", "disconnect">>) =
             <<"play", "fail", "closed", "disconnect">>
      /\ Tail(<<"play", "fail", "closed", "disconnect">>) = <<"fail", "closed", "disconnect">>
      /\ Tail(<<"fail", "closed", "disconnect">>) = <<"closed", "disconnect">>
      /\ Tail(<<"closed", "disconnect">>) = <<"disconnect">>
      /\ Tail(<<"disconnect">>) = <<>>
  OBVIOUS
<1> QED
  BY <1>1, <1>2, <1>3, Zenon DEF Ending

-----------------------------------------------------------------------------
(* The lists that the code puts together. *)

\* A sequence that has the items of one and then those of another.
LEMMA Appended ==
    ASSUME NEW S, NEW a \in Seq(S), NEW b \in Seq(S), NEW c \in Seq(S), Len(c) = Len(a) + Len(b),
           \A i \in 1 .. Len(a) : c[i] = a[i],
           \A i \in 1 .. Len(b) : c[Len(a) + i] = b[i]
    PROVE  a \o b = c
<1>1. a \o b \in Seq(S) /\ Len(a \o b) = Len(c)
  BY ConcatProperties
<1>2. ASSUME NEW i \in 1 .. Len(c)
      PROVE  (a \o b)[i] = c[i]
  <2>1. Len(a) \in Nat /\ Len(b) \in Nat
    OBVIOUS
  <2>2. CASE i <= Len(a)
    BY <2>1, <2>2, ConcatProperties
  <2>3. CASE i > Len(a)
    <3>1. (i - Len(a)) \in 1 .. Len(b)
      BY <2>1, <2>3
    <3>2. c[Len(a) + (i - Len(a))] = b[i - Len(a)] /\ Len(a) + (i - Len(a)) = i
      BY <2>1, <3>1
    <3> QED
      BY <2>1, <2>3, <3>1, <3>2, ConcatProperties
  <2> QED
    BY <2>1, <2>2, <2>3
<1> QED
  BY <1>1, <1>2, SeqEqual

\* What is said after an evaluation.
LEMMA OneAndTwo ==
    ASSUME NEW x, NEW y, NEW z
    PROVE  <<x>> \o <<y, z>> = <<x, y, z>>
<1> DEFINE S == {x, y, z}
           a == <<x>>
           b == <<y, z>>
           c == <<x, y, z>>
<1>1. a \in Seq(S) /\ b \in Seq(S) /\ c \in Seq(S)
  OBVIOUS
<1>2. Len(a) = 1 /\ Len(b) = 2 /\ Len(c) = Len(a) + Len(b)
  OBVIOUS
<1>3. \A i \in 1 .. Len(a) : c[i] = a[i]
  OBVIOUS
<1>4. \A i \in 1 .. Len(b) : c[Len(a) + i] = b[i]
  OBVIOUS
<1> HIDE DEF S, a, b, c
<1>5. a \o b = c
  BY <1>1, <1>2, <1>3, <1>4, Appended
<1> QED
  BY <1>5 DEF a, b, c

\* What is done after saying something.
LEMMA TwoAndOne ==
    ASSUME NEW x, NEW y, NEW z
    PROVE  <<x, y>> \o <<z>> = <<x, y, z>>
<1> DEFINE S == {x, y, z}
           a == <<x, y>>
           b == <<z>>
           c == <<x, y, z>>
<1>1. a \in Seq(S) /\ b \in Seq(S) /\ c \in Seq(S)
  OBVIOUS
<1>2. Len(a) = 2 /\ Len(b) = 1 /\ Len(c) = Len(a) + Len(b)
  OBVIOUS
<1>3. \A i \in 1 .. Len(a) : c[i] = a[i]
  OBVIOUS
<1>4. \A i \in 1 .. Len(b) : c[Len(a) + i] = b[i]
  OBVIOUS
<1> HIDE DEF S, a, b, c
<1>5. a \o b = c
  BY <1>1, <1>2, <1>3, <1>4, Appended
<1> QED
  BY <1>5 DEF a, b, c

\* What ends an interview after the closing.
LEMMA TwoAndTwo ==
    ASSUME NEW v, NEW x, NEW y, NEW z
    PROVE  <<v, x>> \o <<y, z>> = <<v, x, y, z>>
<1> DEFINE S == {v, x, y, z}
           a == <<v, x>>
           b == <<y, z>>
           c == <<v, x, y, z>>
<1>1. a \in Seq(S) /\ b \in Seq(S) /\ c \in Seq(S)
  OBVIOUS
<1>2. Len(a) = 2 /\ Len(b) = 2 /\ Len(c) = Len(a) + Len(b)
  OBVIOUS
<1>3. \A i \in 1 .. Len(a) : c[i] = a[i]
  OBVIOUS
<1>4. \A i \in 1 .. Len(b) : c[Len(a) + i] = b[i]
  OBVIOUS
<1> HIDE DEF S, a, b, c
<1>5. a \o b = c
  BY <1>1, <1>2, <1>3, <1>4, Appended
<1> QED
  BY <1>5 DEF a, b, c

\* What is done after an evaluation and saying something.
LEMMA ThreeAndOne ==
    ASSUME NEW v, NEW x, NEW y, NEW z
    PROVE  <<v, x, y>> \o <<z>> = <<v, x, y, z>>
<1> DEFINE S == {v, x, y, z}
           a == <<v, x, y>>
           b == <<z>>
           c == <<v, x, y, z>>
<1>1. a \in Seq(S) /\ b \in Seq(S) /\ c \in Seq(S)
  OBVIOUS
<1>2. Len(a) = 3 /\ Len(b) = 1 /\ Len(c) = Len(a) + Len(b)
  OBVIOUS
<1>3. \A i \in 1 .. Len(a) : c[i] = a[i]
  OBVIOUS
<1>4. \A i \in 1 .. Len(b) : c[Len(a) + i] = b[i]
  OBVIOUS
<1> HIDE DEF S, a, b, c
<1>5. a \o b = c
  BY <1>1, <1>2, <1>3, <1>4, Appended
<1> QED
  BY <1>5 DEF a, b, c

\* The lists of the worker's operations are of a known kind.
LEMMA KnownLists ==
    /\ Say("ask") \o <<"asked">> \in Plain
    /\ Close \in Ending
    /\ <<"evaluated">> \o Say("repeat") \in Plain
    /\ <<"evaluated">> \o Say("wait") \o <<"extend">> \in Plain
    /\ <<"evaluated">> \o Say("followup") \in FollowingUp
    /\ <<"evaluated">> \o Say("reprompt") \in Reprompting
    /\ Complete \in Completing
<1>1. Say("ask") \o <<"asked">> = <<"ask", "play", "asked">>
  BY TwoAndOne DEF Say
<1>2. Close = <<"closing", "play", "end", "closed">>
  BY TwoAndTwo DEF Close, Say
<1>3. /\ <<"evaluated">> \o Say("repeat") = <<"evaluated", "repeat", "play">>
      /\ <<"evaluated">> \o Say("wait") = <<"evaluated", "wait", "play">>
      /\ <<"evaluated">> \o Say("followup") = <<"evaluated", "followup", "play">>
      /\ <<"evaluated">> \o Say("reprompt") = <<"evaluated", "reprompt", "play">>
  BY OneAndTwo DEF Say
<1>4. <<"evaluated">> \o Say("wait") \o <<"extend">> = <<"evaluated", "wait", "play", "extend">>
  BY <1>3, ThreeAndOne
<1> QED
  BY <1>1, <1>2, <1>3, <1>4, Zenon DEF Complete, Plain, Ending, FollowingUp, Reprompting, Completing

-----------------------------------------------------------------------------
(* The orchestrator's operators. *)

\* A set of naturals has a smallest member.
LEMMA Smallest ==
    ASSUME NEW S \in SUBSET Nat, S # {}
    PROVE  \E x \in S : \A y \in S : x <= y
<1> DEFINE T == {1 .. x : x \in S}
           R == StrictSubsetOrdering(Nat)
<1>1. IsWellFoundedOn(R, FiniteSubsetsOf(Nat))
  BY FS_StrictSubsetOrderingWellFounded
<1>2. T \subseteq FiniteSubsetsOf(Nat) /\ T # {}
  <2>1. ASSUME NEW x \in S
        PROVE  IsFiniteSet(1 .. x) /\ 1 .. x \subseteq Nat
    <3>1. x \in Int /\ 1 \in Int
      OBVIOUS
    <3> QED
      BY <3>1, FS_Interval
  <2> QED
    BY <2>1 DEF FiniteSubsetsOf
<1> HIDE DEF T, R
<1>3. PICK m \in T : \A k \in T : ~(<<k, m>> \in R)
  BY <1>1, <1>2, WFMin
<1>4. PICK x \in S : m = 1 .. x
  BY <1>3 DEF T
<1>5. ASSUME NEW y \in S, y < x
      PROVE  FALSE
  <2>1. (1 .. y) \subseteq (1 .. x) /\ x \in 1 .. x /\ x \notin 1 .. y
    BY <1>5
  <2>2. <<1 .. y, m>> \in R
    BY <1>4, <2>1 DEF R, StrictSubsetOrdering
  <2> QED
    BY <1>3, <2>2 DEF T
<1> QED
  BY <1>5

\* A set of questions has a last one.
LEMMA Largest ==
    ASSUME NEW n \in Nat, NEW S \in SUBSET (1 .. n), S # {}
    PROVE  \E x \in S : \A y \in S : x >= y
<1> DEFINE T == {n - x : x \in S}
<1>1. T \in SUBSET Nat /\ T # {}
  <2>1. \A x \in S : n - x \in Nat
    OBVIOUS
  <2> QED
    BY <2>1
<1> HIDE DEF T
<1>2. PICK m \in T : \A y \in T : m <= y
  BY <1>1, Smallest
<1>3. PICK x \in S : m = n - x
  BY <1>2 DEF T
<1>4. ASSUME NEW y \in S
      PROVE  x >= y
  <2>1. n - x <= n - y
    BY <1>2, <1>3 DEF T
  <2> QED
    BY <2>1
<1> QED
  BY <1>4

\* A question that is taken up again is one that is over.
LEMMA ResumesACompletedOne ==
    ASSUME NEW c, c.completed \subseteq Questions
    PROVE  ResumeTargets(c) \subseteq c.completed
<1>1. CASE c.completed = {}
  BY <1>1 DEF ResumeTargets
<1>2. CASE c.completed # {}
  <2>1. N \in Nat
    BY AgentEventsAssumption
  <2>2. Min(c.completed) \in c.completed
    BY <1>2, <2>1, Smallest DEF Min, Questions
  <2>3. Max(c.completed) \in c.completed
    BY <1>2, <2>1, Largest DEF Max, Questions
  <2> QED
    BY <1>2, <2>2, <2>3 DEF ResumeTargets
<1> QED
  BY <1>1, <1>2

\* As many different questions as the plan has are all of them.
LEMMA AllOrFewer ==
    ASSUME NEW done \in SUBSET Questions
    PROVE  /\ Cardinality(done) \in 0 .. N
           /\ Cardinality(done) >= N => done = Questions
<1>1. N \in Nat /\ IsFiniteSet(Questions) /\ Cardinality(Questions) = N
  BY AgentEventsAssumption, FS_Interval DEF Questions
<1>2. IsFiniteSet(done) /\ Cardinality(done) \in Nat /\ Cardinality(done) <= N
  BY <1>1, FS_Subset, FS_CardinalityType
<1>3. ASSUME done # Questions
      PROVE  Cardinality(done) < N
  BY <1>1, <1>2, <1>3, FS_Subset
<1> QED
  BY <1>1, <1>2, <1>3

\* The next question, or the end of the interview when all are over.
LEMMA GoesOnOrEnds ==
    ASSUME NEW c \in ControllerType, c.current # 0, ~c.terminal, c.reason = "none"
    PROVE  /\ NextQuestion(c) \in ControllerType
           /\ NextQuestion(c).completed = c.completed \cup {c.current}
           /\ \/ /\ NextQuestion(c).terminal
                 /\ NextQuestion(c).reason = "all"
                 /\ NextQuestion(c).completed = Questions
              \/ /\ ~NextQuestion(c).terminal
                 /\ NextQuestion(c).reason = "none"
                 /\ NextQuestion(c).current # 0
<1> DEFINE done == c.completed \cup {c.current}
<1>1. N \in Nat /\ 0 \in 0 .. N /\ done \in SUBSET Questions
  BY AgentEventsAssumption DEF ControllerType, Questions
<1>2. Cardinality(done) \in 0 .. N /\ (Cardinality(done) >= N => done = Questions)
  BY <1>1, AllOrFewer
<1>3. CASE Cardinality(done) >= N
  <2>1. NextQuestion(c) =
            [c EXCEPT !.completed = done, !.current = 0, !.terminal = TRUE, !.reason = "all"]
    BY <1>3 DEF NextQuestion
  <2>2. done = Questions
    BY <1>2, <1>3
  <2> HIDE DEF done
  <2> DEFINE finished ==
                 [c EXCEPT !.completed = done, !.current = 0, !.terminal = TRUE, !.reason = "all"]
  <2>3. finished \in ControllerType
    BY <1>1 DEF ControllerType
  <2>4. /\ NextQuestion(c) = finished
        /\ NextQuestion(c).completed = done
        /\ NextQuestion(c).terminal
        /\ NextQuestion(c).reason = "all"
    BY <2>1 DEF ControllerType
  <2> QED
    BY <2>2, <2>3, <2>4 DEF done
<1>4. CASE ~(Cardinality(done) >= N)
  <2>1. NextQuestion(c) = [c EXCEPT !.completed = done, !.current = Cardinality(done) + 1]
    BY <1>4 DEF NextQuestion
  <2>2. Cardinality(done) + 1 \in 0 .. N /\ Cardinality(done) + 1 # 0
    BY <1>1, <1>2, <1>4
  <2> DEFINE next == Cardinality(done) + 1
  <2> HIDE DEF done, next
  <2>3. NextQuestion(c) \in ControllerType
    BY <1>1, <2>1, <2>2 DEF ControllerType, next
  <2>4. /\ NextQuestion(c).completed = done
        /\ NextQuestion(c).terminal = c.terminal
        /\ NextQuestion(c).reason = c.reason
        /\ NextQuestion(c).current = next
    BY <2>1 DEF ControllerType, next
  <2> QED
    BY <2>2, <2>3, <2>4 DEF done, next
<1> QED
  BY <1>3, <1>4

\* A verdict leaves the question where it is, and uses up the budget of what it says.
LEMMA PolicyStaysWithTheQuestion ==
    ASSUME NEW c \in ControllerType, c.current # 0, NEW kind
    PROVE  /\ Policy(c, kind).ctl \in ControllerType
           /\ \A f \in {"current", "completed", "terminal", "reason", "target"} :
                  Policy(c, kind).ctl[f] = c[f]
           /\ LET todo == Policy(c, kind).todo
                  left == Policy(c, kind).ctl
              IN  \/ todo \in Plain \cup Completing
                  \/ todo \in FollowingUp /\ left.followups[c.current] = 1
                  \/ todo \in Reprompting /\ left.reprompts[c.current] >= 1
<1>1. /\ c.current \in Questions
      /\ c.followups[c.current] \in 0 .. 1
      /\ c.reprompts[c.current] \in 0 .. 2
  BY AgentEventsAssumption DEF ControllerType, Questions
<1>2. CASE kind = "repeat"
  BY <1>2, KnownLists DEF Policy
<1>3. CASE kind = "wait"
  BY <1>3, KnownLists DEF Policy
<1>4. CASE kind = "vague" /\ CanFollowUp(c)
  <2> DEFINE left == [c EXCEPT !.followups[c.current] = @ + 1]
  <2>1. Policy(c, kind) = [ctl |-> left, todo |-> <<"evaluated">> \o Say("followup")]
    BY <1>4 DEF Policy
  <2>2. c.followups[c.current] + 1 = 1
    BY <1>1, <1>4 DEF CanFollowUp
  <2>3. /\ left \in ControllerType
        /\ left.followups[c.current] = 1
        /\ \A f \in {"current", "completed", "terminal", "reason", "target"} : left[f] = c[f]
    BY <1>1, <2>2 DEF ControllerType
  <2> HIDE DEF left
  <2> QED
    BY <2>1, <2>3, KnownLists
<1>5. CASE kind = "incomplete" /\ CanReprompt(c)
  <2> DEFINE left == [c EXCEPT !.reprompts[c.current] = @ + 1]
  <2>1. Policy(c, kind) = [ctl |-> left, todo |-> <<"evaluated">> \o Say("reprompt")]
    BY <1>5 DEF Policy
  <2>2. c.reprompts[c.current] + 1 \in 1 .. 2
    BY <1>1, <1>5 DEF CanReprompt
  <2>3. /\ left \in ControllerType
        /\ left.reprompts[c.current] >= 1
        /\ \A f \in {"current", "completed", "terminal", "reason", "target"} : left[f] = c[f]
    BY <1>1, <2>2 DEF ControllerType
  <2> HIDE DEF left
  <2> QED
    BY <2>1, <2>3, KnownLists
<1>6. CASE /\ kind \notin {"repeat", "wait"}
           /\ ~(kind = "vague" /\ CanFollowUp(c))
           /\ ~(kind = "incomplete" /\ CanReprompt(c))
  <2>1. Policy(c, kind) = [ctl |-> c, todo |-> Complete]
    BY <1>6 DEF Policy
  <2> QED
    BY <2>1, KnownLists
<1> QED
  BY <1>2, <1>3, <1>4, <1>5, <1>6

-----------------------------------------------------------------------------
(* The log. *)

\* The types the agent posts, as far as the log tells them apart.
AgentTypes == {"agent_joined", "session_started", "session_completed", "session_failed", "talk"}

\* What a step may do to what the log says of the plan.
LogMoves(step) ==
    \/ UNCHANGED <<covered, outcome>>
    \/ outcome = "none" /\ Covers(step)

\* A step posts an event of a type of the agent's, the end its session_completed.
LEMMA EventOfStep ==
    ASSUME NEW step
    PROVE  EventOf(step) \in AgentTypes /\ (step = "end" => EventOf(step) = "session_completed")
  BY DEF EventOf, AgentTypes

\* Distances stay where they are told apart.
LEMMA Clipped ==
    ASSUME NEW n \in Int
    PROVE  Clip(n) \in -FarOff .. FarOff
  BY LogAssumption DEF Clip

\* The log takes an event: the interview was on, and no reason is recorded yet.
LEMMA EventIsWritten ==
    ASSUME LogOK, NEW step, NEW type \in AgentTypes, NEW valid,
           step = "end" => type = "session_completed",
           Written(step, type, valid)
    PROVE  LogOK' /\ outcome = "none" /\ Covers(step)
<1>1. /\ CanApplyEvent(session.status, type)
      /\ AppendEvent(Agent, type)
      /\ Covers(step)
  BY DEF Written, Accepts
<1>2. outcome = "none" /\ session.status \in SessionStatus \ Terminal
  BY <1>1 DEF LogOK, LogTypeOK, CanApplyEvent
<1>3. /\ session' = [status |-> ValidStatusForEvent(type, session.status),
                     types |-> session.types \cup {type}]
      /\ ValidStatusForEvent(type, session.status) \in SessionStatus
      /\ type \in EventTypes
  BY <1>1, <1>2 DEF LogOK, LogTypeOK, AppendEvent, ValidStatusForEvent, SessionStatus, AgentTypes,
                    EventTypes
<1>4. lag' \in [Writers -> -FarOff .. FarOff]
  BY <1>1, Clipped, LogAssumption DEF LogOK, LogTypeOK, AppendEvent
<1>5. LogTypeOK'
  BY <1>3, <1>4 DEF LogTypeOK, LogOK
<1>6. "agent_joined" \in session'.types =>
          session'.status \notin {"created", "waiting_candidate", "agent_joining"}
  BY <1>1, <1>3 DEF LogOK, ValidStatusForEvent, CanApplyEvent, AgentTypes
<1>7. outcome' # "none" => session'.status \in Terminal
  BY <1>1, <1>2, <1>3 DEF Covers, ValidStatusForEvent, Terminal
<1> QED
  BY <1>1, <1>2, <1>5, <1>6, <1>7 DEF LogOK

\* An event is counted that the log does not take.
LEMMA EventIsMiscounted ==
    ASSUME LogOK, Miscounted
    PROVE  LogOK' /\ UNCHANGED <<covered, outcome>>
<1>1. lag' \in [Writers -> -FarOff .. FarOff]
  BY Clipped, LogAssumption DEF LogOK, LogTypeOK, Miscounted
<1> QED
  BY <1>1 DEF LogOK, LogTypeOK, Miscounted

\* A request that raises has reached the log or not.
LEMMA EventRaises ==
    ASSUME LogOK, faults \in 0 .. MaxFaults, NEW step, NEW type \in AgentTypes, NEW valid,
           step = "end" => type = "session_completed",
           Raises(step, type, valid)
    PROVE  LogOK' /\ LogMoves(step) /\ faults' \in 0 .. MaxFaults
<1>1. faults' \in 0 .. MaxFaults
  BY AgentAssumption DEF Raises, Fail
<1>2. CASE Miscounted
  BY <1>1, <1>2, EventIsMiscounted DEF LogMoves
<1>3. CASE Written(step, type, valid)
  BY <1>1, <1>3, EventIsWritten DEF LogMoves
<1> QED
  BY <1>2, <1>3 DEF Raises

\* A task is cancelled, its last event reaches the log or not.
LEMMA EventIsCutShort ==
    ASSUME LogOK, NEW step, CutShort(step)
    PROVE  LogOK' /\ UNCHANGED <<covered, outcome>>
<1>1. CASE UNCHANGED <<session, lag, covered, outcome>>
  BY <1>1 DEF LogOK, LogTypeOK
<1>2. CASE Miscounted
  BY <1>2, EventIsMiscounted
<1>3. CASE step \in {"line", "fail"} /\ Written(step, EventOf(step), TRUE)
  <2>1. LogOK' /\ Covers(step)
    BY <1>3, EventIsWritten, EventOfStep
  <2> QED
    BY <1>3, <2>1 DEF Covers
<1> QED
  BY <1>1, <1>2, <1>3 DEF CutShort

-----------------------------------------------------------------------------
(* The operation under way. *)

\* Nothing changes of where the interview is in its plan.
SamePlan ==
    \A f \in {"current", "completed", "reprompts", "followups", "terminal", "target", "reason"} :
        ctl'[f] = ctl[f]

\* An operation that is under way has a step to do, and the interview is on or being ended.
LEMMA UnderWay ==
    ASSUME OperationOK, Locked
    PROVE  /\ op \in [by : Holders, todo : Lists]
           /\ \/ op.todo \in Ending /\ ctl.terminal
              \/ AboutQuestion(op.todo) /\ ~ctl.terminal /\ ctl.current # 0
<1>1. op # NoOp
  BY DEF Locked, NoOp
<1> QED
  BY <1>1 DEF OperationOK, AboutQuestion, Lists

\* What a step shows of the list it is the first of.
LEMMA FirstSteps ==
    ASSUME OperationOK, Locked
    PROVE  /\ op.todo # <<>>
           /\ Head(op.todo) = "completed" => op.todo \in Completing /\ Tail(op.todo) \in GoingOn
           /\ Head(op.todo) = "next" => op.todo \in GoingOn
           /\ Head(op.todo) = "reopen" => op.todo \in Reopening /\ Tail(op.todo) \in Reopened
           /\ Head(op.todo) = "reopened" => op.todo \in Reopened
           /\ Head(op.todo) = "followup" => op.todo \in FollowingUp
           /\ Head(op.todo) = "reprompt" => op.todo \in Reprompting
           /\ Head(op.todo) \in {"end", "closing", "fail", "closed", "disconnect"} =>
                  op.todo \in Ending
           /\ Head(op.todo) \in Steps
  BY UnderWay, PlainLists, CompletingLists, GoingOnLists, ReopeningLists, ReopenedLists,
     FollowingUpLists, RepromptingLists, EndingLists
     DEF AboutQuestion, Steps

\* A step is done: what is left is still about the current question, or ends the interview.
LEMMA OperationGoesOn ==
    ASSUME OperationOK, Locked, op' = Continue(Rest), SamePlan,
           Head(op.todo) \notin {"next", "reopen"},
           Head(op.todo) = "completed" => ctl.current \in covered'
    PROVE  OperationOK'
<1>1. /\ op \in [by : Holders, todo : Lists]
      /\ \/ op.todo \in Ending /\ ctl.terminal
         \/ AboutQuestion(op.todo) /\ ~ctl.terminal /\ ctl.current # 0
  BY UnderWay
<1>2. PICK left : left = Tail(op.todo)
  OBVIOUS
<1>3. Rest = [by |-> op.by, todo |-> left]
  <2>1. PICK b \in Holders, l \in Lists : op = [by |-> b, todo |-> l]
    BY <1>1
  <2>2. Rest = [op EXCEPT !.todo = left] /\ op.by = b
    BY <1>2, <2>1 DEF Rest
  <2> QED
    BY <2>1, <2>2
<1>4. CASE left = <<>>
  BY <1>3, <1>4 DEF Continue, OperationOK, NoOp, Holders
<1>5. CASE left # <<>>
  <2>1. op' = [by |-> op.by, todo |-> left]
    BY <1>3, <1>5 DEF Continue
  <2>2. CASE op.todo \in Ending /\ ctl.terminal
    <3>1. left \in Ending /\ ctl'.terminal
      BY <1>2, <1>5, <2>2, EndingLists DEF SamePlan
    <3> QED
      BY <1>1, <2>1, <3>1 DEF OperationOK, Lists, Locked
  <2>3. CASE AboutQuestion(op.todo) /\ ~ctl.terminal /\ ctl.current # 0
    <3>1. ~ctl'.terminal /\ ctl'.current # 0
      BY <2>3 DEF SamePlan
    <3>2. AboutQuestion(left)'
      BY <1>2, <1>5, <2>3, PlainLists, CompletingLists, GoingOnLists, ReopeningLists,
         ReopenedLists, FollowingUpLists, RepromptingLists
         DEF AboutQuestion, SamePlan
    <3>3. left \in Lists
      BY <3>2 DEF AboutQuestion, Lists
    <3> QED
      BY <1>1, <2>1, <3>1, <3>2, <3>3 DEF OperationOK, Locked, AboutQuestion
  <2> QED
    BY <1>1, <2>2, <2>3
<1> QED
  BY <1>4, <1>5

\* The operation under way stays or ends, around a plan that does not change.
LEMMA AroundThePlan ==
    ASSUME AgentIInv, LogOK', CoverOK', RestOK', ctl' \in ControllerType, SamePlan,
           op' = NoOp \/ (op' = op /\ UNCHANGED covered),
           worker' \in Phases, Conducting' <=> Conducting
    PROVE  AgentIInv'
<1>1. PlanOK'
  BY DEF AgentIInv, PlanOK, SamePlan
<1>2. OperationOK'
  <2>1. CASE op' = NoOp
    BY <2>1 DEF OperationOK, NoOp, Holders
  <2>2. CASE op' = op /\ UNCHANGED covered
    BY <2>2 DEF AgentIInv, OperationOK, AboutQuestion, SamePlan
  <2> QED
    BY <2>1, <2>2
<1>3. StageOK'
  BY DEF AgentIInv, StageOK, SamePlan
<1> QED
  BY <1>1, <1>2, <1>3 DEF AgentIInv

\* Only a completion, a reopening and the end of the interview tell the log of the plan.
LEMMA LittleIsCovered ==
    ASSUME NEW step, step \notin {"completed", "reopened", "end"}, LogMoves(step)
    PROVE  UNCHANGED <<covered, outcome>>
  BY DEF LogMoves, Covers

\* What the log says of the plan stays true, whether the step's event is in it or not.
LEMMA CoverFollows ==
    ASSUME AgentIInv, Locked, LogMoves(Head(op.todo)), ctl'.completed \subseteq ctl.completed
    PROVE  CoverOK'
<1> DEFINE step == Head(op.todo)
<1>1. CASE UNCHANGED <<covered, outcome>>
  BY <1>1 DEF AgentIInv, CoverOK
<1>2. CASE outcome = "none" /\ Covers(step)
  <2>1. CASE step = "completed"
    <3>1. op.todo \in Completing
      BY <2>1, FirstSteps DEF AgentIInv
    <3>2. ctl.current \in Questions
      <4>1. ctl.current \in 0 .. N /\ N \in Nat
        BY AgentEventsAssumption DEF AgentIInv, PlanOK, ControllerType
      <4>2. ctl.current # 0
        BY <3>1, UnderWay, CompletingLists, EndingLists DEF AgentIInv
      <4> QED
        BY <4>1, <4>2 DEF Questions
    <3> QED
      BY <1>2, <2>1, <3>2 DEF Covers, AgentIInv, CoverOK
  <2>2. CASE step = "reopened"
    <3>1. op.todo \in Reopened
      BY <2>2, FirstSteps DEF AgentIInv
    <3>2. ctl.current \notin ctl.completed
      BY <3>1, UnderWay, PlainLists, CompletingLists, GoingOnLists, ReopeningLists, ReopenedLists,
         FollowingUpLists, RepromptingLists, EndingLists
         DEF AgentIInv, AboutQuestion
    <3> QED
      BY <1>2, <2>2, <3>2 DEF Covers, AgentIInv, CoverOK
  <2>3. CASE step = "end"
    BY <1>2, <2>3 DEF Covers, AgentIInv, CoverOK, PlanOK, ControllerType
  <2>4. CASE step \notin {"completed", "reopened", "end"}
    BY <1>2, <2>4 DEF Covers, AgentIInv, CoverOK
  <2> QED
    BY <2>1, <2>2, <2>3, <2>4
<1> QED
  BY <1>1, <1>2 DEF LogMoves

-----------------------------------------------------------------------------
(* The worker's memory goes, and a task is cancelled. *)

\* A turn that is over is a turn.
LEMMA NoTurnHas == NoTurn \in TurnType
  BY DEF NoTurn, TurnType

\* A new controller has asked nothing.
LEMMA NewControllerHas ==
    /\ NewController \in ControllerType
    /\ NewController.current = 0
    /\ NewController.completed = {}
    /\ ~NewController.terminal
    /\ NewController.reason = "none"
  BY AgentEventsAssumption DEF NewController, ControllerType

\* A worker that has forgotten everything is one that has done nothing.
LEMMA ForgottenIsSafe ==
    ASSUME AgentIInv, Forget, LogOK',
           covered' \subseteq Questions, outcome' \in {"none", "all", "other"},
           outcome' = "all" => covered' = Questions,
           job' \in JobType, faults' \in 0 .. MaxFaults
    PROVE  AgentIInv'
<1>1. CoverOK' /\ PlanOK'
  BY NewControllerHas DEF Forget, CoverOK, PlanOK
<1>2. OperationOK'
  BY DEF Forget, OperationOK, NoOp, Holders
<1>3. StageOK'
  BY NewControllerHas DEF Forget, StageOK, Conducting, Phases
<1>4. RestOK'
  BY NoTurnHas DEF Forget, RestOK, AgentIInv
<1> QED
  BY <1>1, <1>2, <1>3, <1>4 DEF AgentIInv

\* The job that is queued again has been tried once more, and is dead at its limit.
LEMMA RetriedJob ==
    ASSUME AgentIInv, Retry
    PROVE  job' \in JobType /\ Forget
<1>1. /\ job \in JobType
      /\ Forget
      /\ job' = IF job.attempts + 1 >= MaxAttempts
                THEN [job EXCEPT !.at = "dead"]
                ELSE [at |-> "queued", attempts |-> job.attempts + 1]
  BY DEF Retry, AgentIInv, RestOK, JobType
<1>2. job.attempts \in 0 .. MaxAttempts /\ MaxAttempts \in Nat
  BY <1>1, AgentAssumption DEF JobType
<1> QED
  BY <1>1, <1>2 DEF JobType

\* The coordinator's task is cancelled, with the operation it may be at.
LEMMA InactivityIsCancelled ==
    ASSUME AgentIInv, CancelInactivity
    PROVE  /\ LogOK'
           /\ UNCHANGED <<covered, outcome>>
           /\ op' = NoOp \/ op' = op
           /\ inactivity' = "off"
  BY EventIsCutShort DEF CancelInactivity, AgentIInv, LogOK, LogTypeOK

-----------------------------------------------------------------------------
(* The invariant holds of every interview that begins, and every step keeps it. *)

\* An interview begins in the invariant: its log has the candidate, its worker nothing.
LEMMA AgentBegins ==
    ASSUME AgentInit
    PROVE  AgentIInv
<1>1. LogOK
  BY LogAssumption DEF AgentInit, ControllerInit, LogOK, LogTypeOK, SessionStatus, EventTypes,
                       CandidateTypes, Terminal
<1>2. CoverOK /\ PlanOK
  BY NewControllerHas DEF AgentInit, ControllerInit, CoverOK, PlanOK
<1>3. OperationOK
  BY DEF AgentInit, ControllerInit, OperationOK, NoOp, Holders
<1>4. StageOK
  BY NewControllerHas DEF AgentInit, ControllerInit, StageOK, Conducting, Phases
<1>5. RestOK
  BY AgentAssumption, NoTurnHas DEF AgentInit, ControllerInit, RestOK, JobType
<1> QED
  BY <1>1, <1>2, <1>3, <1>4, <1>5 DEF AgentIInv

\* Nothing is touched of the log, the plan and the operation.
LEMMA AllElseStays ==
    ASSUME AgentIInv, UNCHANGED <<session, lag, ctl, op, covered, outcome>>, RestOK',
           worker' \in Phases, Conducting' <=> Conducting
    PROVE  AgentIInv'
<1>1. LogOK' /\ CoverOK'
  BY DEF AgentIInv, LogOK, LogTypeOK, CoverOK
<1>2. ctl' \in ControllerType /\ SamePlan
  BY DEF AgentIInv, PlanOK, SamePlan
<1> QED
  BY <1>1, <1>2, AroundThePlan

\* The job is queued or lost.
LEMMA DispatchKeeps ==
    ASSUME AgentIInv, Dispatch
    PROVE  AgentIInv'
<1>1. RestOK'
  BY AgentAssumption DEF AgentIInv, RestOK, JobType, Dispatch, Fail
<1> QED
  BY <1>1, AllElseStays DEF Dispatch, AgentIInv, StageOK, Conducting

\* A worker claims the job, or acknowledges that of an interview that is over.
LEMMA ClaimKeeps ==
    ASSUME AgentIInv, Claim
    PROVE  AgentIInv'
<1>1. RestOK'
  BY DEF AgentIInv, RestOK, JobType, Claim
<1> QED
  BY <1>1, AllElseStays DEF Claim, AgentIInv, StageOK, Conducting, Phases

\* A worker dies and forgets everything.
LEMMA WorkerDiesKeeps ==
    ASSUME AgentIInv, WorkerDies
    PROVE  AgentIInv'
<1>1. LogOK'
  BY DEF AgentIInv, LogOK, LogTypeOK, WorkerDies
<1>2. job' \in JobType /\ faults' \in 0 .. MaxFaults
  BY AgentAssumption DEF AgentIInv, RestOK, WorkerDies, JobType, Fail
<1> QED
  BY <1>1, <1>2, ForgottenIsSafe DEF WorkerDies, AgentIInv, CoverOK

\* A worker counts the events and enters the room.
LEMMA JoinKeeps ==
    ASSUME AgentIInv, Join
    PROVE  AgentIInv'
<1>1. LogOK'
  BY LogAssumption DEF AgentIInv, LogOK, LogTypeOK, Join
<1>2. CoverOK' /\ ctl' \in ControllerType /\ SamePlan
  BY DEF AgentIInv, CoverOK, PlanOK, SamePlan, Join
<1>3. RestOK'
  BY DEF AgentIInv, RestOK, Join
<1> QED
  BY <1>1, <1>2, <1>3, AroundThePlan DEF Join, Conducting, Phases

\* The maximum duration is over.
LEMMA MaxDurationKeeps ==
    ASSUME AgentIInv, MaxDuration
    PROVE  AgentIInv'
<1>1. RestOK'
  BY DEF AgentIInv, RestOK, MaxDuration
<1> QED
  BY <1>1, AllElseStays DEF MaxDuration, Conducting, Phases

\* The closing is said.
LEMMA ClosedKeeps ==
    ASSUME AgentIInv, Closed
    PROVE  AgentIInv'
<1>1. RestOK'
  BY DEF AgentIInv, RestOK, Closed
<1> QED
  BY <1>1, AllElseStays DEF Closed, Conducting, Phases

\* An operation begins that is about the current question, or ends the interview.
LEMMA OperationBegins ==
    ASSUME LogOK', CoverOK', PlanOK', RestOK', worker' \in Phases, Conducting',
           NEW by \in Holders \ {"none"}, NEW todo \in Lists, op' = Op(by, todo),
           \/ todo \in Ending /\ ctl'.terminal
           \/ AboutQuestion(todo)' /\ ~ctl'.terminal /\ ctl'.current # 0
    PROVE  AgentIInv'
<1>1. OperationOK'
  BY DEF OperationOK, Op, AboutQuestion
<1>2. StageOK'
  BY DEF StageOK
<1> QED
  BY <1>1, <1>2 DEF AgentIInv

\* run() raises.
LEMMA MainRaisesKeeps ==
    ASSUME AgentIInv, LogOK', CoverOK', faults' \in 0 .. MaxFaults, MainRaises
    PROVE  AgentIInv'
<1>1. job' \in JobType /\ Forget
  BY RetriedJob DEF MainRaises
<1> QED
  BY <1>1, ForgottenIsSafe DEF CoverOK

\* An event of no step leaves what the log says of the plan alone.
LEMMA PlainEvent ==
    ASSUME AgentIInv, NEW type \in AgentTypes, NEW valid,
           \/ Written("none", type, valid) /\ UNCHANGED faults
           \/ Raises("none", type, valid)
    PROVE  LogOK' /\ UNCHANGED <<covered, outcome>> /\ faults' \in 0 .. MaxFaults
<1>1. LogOK' /\ LogMoves("none") /\ faults' \in 0 .. MaxFaults
  BY EventIsWritten, EventRaises DEF AgentIInv, RestOK, LogMoves
<1> QED
  BY <1>1, LittleIsCovered

\* agent_joined is taken, or the worker fails.
LEMMA EmitAgentJoinedKeeps ==
    ASSUME AgentIInv, EmitAgentJoined
    PROVE  AgentIInv'
<1>1. CASE Raises("none", "agent_joined", TRUE) /\ MainRaises
  <2>1. LogOK' /\ UNCHANGED <<covered, outcome>> /\ faults' \in 0 .. MaxFaults
    BY <1>1, PlainEvent DEF AgentTypes
  <2>2. CoverOK'
    BY <1>1, <2>1, NewControllerHas DEF MainRaises, Retry, Forget, AgentIInv, CoverOK
  <2> QED
    BY <1>1, <2>1, <2>2, MainRaisesKeeps
<1>2. CASE /\ Written("none", "agent_joined", TRUE)
           /\ worker' = "starting"
           /\ ctl' = [ctl EXCEPT !.connected = candidate.present]
           /\ absence' = IF candidate.present THEN "here" ELSE "grace"
           /\ UNCHANGED <<op, job, waiting, turn, inactivity, candidate, faults>>
  <2>1. LogOK' /\ UNCHANGED <<covered, outcome>>
    BY <1>2, PlainEvent DEF AgentTypes
  <2>2. ctl' \in ControllerType /\ SamePlan
    BY <1>2 DEF AgentIInv, PlanOK, ControllerType, RestOK, SamePlan
  <2>3. CoverOK'
    BY <2>1, <2>2 DEF AgentIInv, CoverOK, SamePlan
  <2>4. RestOK'
    BY <1>2 DEF AgentIInv, RestOK
  <2> QED
    BY <1>2, <2>1, <2>2, <2>3, <2>4, AroundThePlan
       DEF EmitAgentJoined, MainEmits, Conducting, Phases
<1> QED
  BY <1>1, <1>2 DEF EmitAgentJoined, MainEmits

\* session_started is taken and the first question comes up, or the worker fails.
LEMMA EmitSessionStartedKeeps ==
    ASSUME AgentIInv, EmitSessionStarted
    PROVE  AgentIInv'
<1>1. CASE Raises("none", "session_started", TRUE) /\ MainRaises
  <2>1. LogOK' /\ UNCHANGED <<covered, outcome>> /\ faults' \in 0 .. MaxFaults
    BY <1>1, PlainEvent DEF AgentTypes
  <2>2. CoverOK'
    BY <1>1, <2>1, NewControllerHas DEF MainRaises, Retry, Forget, AgentIInv, CoverOK
  <2> QED
    BY <1>1, <2>1, <2>2, MainRaisesKeeps
<1>2. CASE /\ Written("none", "session_started", TRUE)
           /\ worker' = "conducting"
           /\ ctl' = [ctl EXCEPT !.current = 1]
           /\ op' = Op("main", Say("ask") \o <<"asked">>)
           /\ UNCHANGED <<absence, job, waiting, turn, inactivity, candidate, faults>>
  <2>1. LogOK' /\ UNCHANGED <<covered, outcome>>
    BY <1>2, PlainEvent DEF AgentTypes
  <2>2. ~ctl.terminal /\ ctl \in ControllerType /\ 1 \in 0 .. N
    BY AgentEventsAssumption
       DEF EmitSessionStarted, MainEmits, Conducting, AgentIInv, StageOK, PlanOK
  <2>3. /\ ctl' \in ControllerType
        /\ ctl'.current = 1 /\ ~ctl'.terminal
        /\ ctl'.completed = ctl.completed /\ ctl'.reason = ctl.reason
    BY <1>2, <2>2 DEF ControllerType
  <2>4. CoverOK' /\ PlanOK'
    BY <2>1, <2>2, <2>3 DEF AgentIInv, CoverOK, PlanOK
  <2>5. RestOK'
    BY <1>2 DEF AgentIInv, RestOK
  <2>6. AboutQuestion(Say("ask") \o <<"asked">>)' /\ Say("ask") \o <<"asked">> \in Lists
    BY KnownLists DEF AboutQuestion, Lists
  <2> QED
    BY <1>2, <2>1, <2>3, <2>4, <2>5, <2>6, OperationBegins DEF Conducting, Phases, Holders
<1> QED
  BY <1>1, <1>2 DEF EmitSessionStarted, MainEmits

\* The conversation is over, and with it the coordinator's operation.
LEMMA ConductedKeeps ==
    ASSUME AgentIInv, Conducted
    PROVE  AgentIInv'
<1>1. /\ LogOK' /\ UNCHANGED <<covered, outcome>>
      /\ op' = NoOp \/ op' = op
  BY EventIsCutShort DEF Conducted, AgentIInv, LogOK, LogTypeOK
<1>2. CoverOK' /\ ctl' \in ControllerType /\ SamePlan
  BY <1>1 DEF AgentIInv, CoverOK, PlanOK, SamePlan, Conducted
<1>3. RestOK'
  BY DEF AgentIInv, RestOK, Conducted
<1> QED
  BY <1>1, <1>2, <1>3, AroundThePlan DEF Conducted, Conducting, Phases

\* The closing begins, unless the interview is being ended already.
LEMMA CloseForMaxDurationKeeps ==
    ASSUME AgentIInv, CloseForMaxDuration
    PROVE  AgentIInv'
<1>1. RestOK'
  BY DEF AgentIInv, RestOK, CloseForMaxDuration
<1>2. CASE ctl.terminal
  BY <1>1, <1>2, AllElseStays DEF CloseForMaxDuration, Conducting, Phases
<1>3. CASE ~ctl.terminal
  <2>1. /\ ctl' = [ctl EXCEPT !.terminal = TRUE, !.current = 0, !.reason = "other"]
        /\ op' = Op("maxduration", Close)
        /\ UNCHANGED <<session, lag, worker, covered, outcome>>
        /\ worker = "closing"
    BY <1>3 DEF CloseForMaxDuration
  <2>2. ctl \in ControllerType /\ 0 \in 0 .. N
    BY AgentEventsAssumption DEF AgentIInv, PlanOK
  <2>3. /\ ctl' \in ControllerType
        /\ ctl'.terminal /\ ctl'.reason = "other" /\ ctl'.completed = ctl.completed
    BY <2>1, <2>2 DEF ControllerType
  <2>4. LogOK' /\ CoverOK' /\ PlanOK'
    BY <2>1, <2>3 DEF AgentIInv, LogOK, LogTypeOK, CoverOK, PlanOK
  <2> QED
    BY <1>1, <2>1, <2>3, <2>4, KnownLists, OperationBegins DEF Conducting, Phases, Holders, Lists
<1> QED
  BY <1>2, <1>3

\* Every task has ended, and the worker forgets everything.
LEMMA DrainedKeeps ==
    ASSUME AgentIInv, Drained
    PROVE  AgentIInv'
<1>1. LogOK' /\ faults' \in 0 .. MaxFaults
  BY DEF AgentIInv, LogOK, LogTypeOK, RestOK, Drained
<1>2. job' \in JobType /\ Forget
  BY RetriedJob DEF Drained, AgentIInv, RestOK, JobType
<1> QED
  BY <1>1, <1>2, ForgottenIsSafe DEF Drained, AgentIInv, CoverOK

-----------------------------------------------------------------------------
(* The steps of an operation. *)

\* The error of an operation leaves the plan as it is, or ends the worker's task.
LEMMA OpRaisesKeeps ==
    ASSUME AgentIInv, Locked, LogOK', LogMoves(Head(op.todo)), faults' \in 0 .. MaxFaults, OpRaises
    PROVE  AgentIInv'
<1>1. CASE op.by \in {"main", "maxduration"}
  <2>1. MainRaises /\ ctl'.completed \subseteq ctl.completed
    BY <1>1, NewControllerHas DEF OpRaises, MainRaises, Retry, Forget
  <2>2. CoverOK'
    BY <2>1, CoverFollows
  <2> QED
    BY <2>1, <2>2, MainRaisesKeeps
<1>2. CASE op.by \notin {"main", "maxduration"}
  <2>1. /\ op' = NoOp
        /\ \E b \in BOOLEAN : ctl' = [ctl EXCEPT !.broken = b]
        /\ UNCHANGED <<job, worker, waiting, absence, candidate>>
    BY <1>2 DEF OpRaises, AgentIInv, PlanOK, ControllerType
  <2>2. ctl' \in ControllerType /\ SamePlan
    BY <2>1 DEF AgentIInv, PlanOK, ControllerType, SamePlan
  <2>3. CoverOK'
    BY <2>2, CoverFollows DEF SamePlan
  <2>4. turn' \in TurnType
    <3>1. turn' = NoTurn \/ \E b \in BOOLEAN : turn' = [turn EXCEPT !.fresh = b]
      BY <1>2 DEF OpRaises, AgentIInv, RestOK, TurnType
    <3>2. turn \in TurnType
      BY DEF AgentIInv, RestOK
    <3> QED
      BY <3>1, <3>2, NoTurnHas DEF TurnType
  <2>5. RestOK'
    BY <1>2, <2>1, <2>4 DEF OpRaises, AgentIInv, RestOK
  <2> QED
    BY <2>1, <2>2, <2>3, <2>5, AroundThePlan DEF Conducting, AgentIInv, StageOK
<1> QED
  BY <1>1, <1>2

\* An operation that goes on in the same plan.
LEMMA StepKeeps ==
    ASSUME AgentIInv, Locked, op' = Continue(Rest), Head(op.todo) \notin {"next", "reopen"},
           Head(op.todo) = "completed" => ctl.current \in covered',
           LogOK', CoverOK', RestOK', ctl' \in ControllerType, SamePlan, UNCHANGED worker
    PROVE  AgentIInv'
<1>1. OperationOK'
  BY OperationGoesOn DEF AgentIInv
<1>2. PlanOK'
  BY DEF AgentIInv, PlanOK, SamePlan
<1>3. StageOK'
  <2>1. Conducting
    BY DEF AgentIInv, StageOK, Locked, NoOp
  <2> QED
    BY <2>1 DEF AgentIInv, StageOK, Conducting, SamePlan
<1> QED
  BY <1>1, <1>2, <1>3 DEF AgentIInv

\* A step posts its event: what the log then says of the plan is what the worker takes for so.
LEMMA EmitStepKeeps ==
    ASSUME AgentIInv, EmitStep
    PROVE  AgentIInv'
<1> DEFINE step == Head(op.todo)
           type == EventOf(step)
<1>1. /\ Locked
      /\ step \in Posting
      /\ type \in AgentTypes
      /\ step = "end" => type = "session_completed"
  BY EventOfStep DEF EmitStep
<1>2. CASE Raises(step, type, ValidPayload(step)) /\ OpRaises
  <2>1. LogOK' /\ LogMoves(step) /\ faults' \in 0 .. MaxFaults
    BY <1>1, <1>2, EventRaises DEF AgentIInv, RestOK
  <2> QED
    BY <1>1, <1>2, <2>1, OpRaisesKeeps
<1>3. CASE /\ Written(step, type, ValidPayload(step))
           /\ op' = Continue(Rest)
           /\ turn' = IF step \in Prompts THEN [turn EXCEPT !.fresh = FALSE]
                      ELSE IF step = "turn" THEN [turn EXCEPT !.state = "recorded", !.ids = TRUE]
                      ELSE turn
           /\ UNCHANGED <<job, worker, ctl, waiting, inactivity, absence, candidate, faults>>
  <2>1. LogOK' /\ outcome = "none" /\ Covers(step)
    BY <1>1, <1>3, EventIsWritten DEF AgentIInv
  <2>2. CoverOK'
    BY <1>1, <1>3, <2>1, CoverFollows DEF LogMoves
  <2>3. RestOK'
    <3>1. turn' \in TurnType
      BY <1>3 DEF AgentIInv, RestOK, TurnType
    <3> QED
      BY <1>3, <3>1 DEF AgentIInv, RestOK
  <2>4. ctl' \in ControllerType /\ SamePlan
    BY <1>3 DEF AgentIInv, PlanOK, SamePlan
  <2>5. step \notin {"next", "reopen"}
    BY <1>1 DEF Posting, Prompts
  <2>6. step = "completed" => ctl.current \in covered'
    BY <2>1 DEF Covers
  <2> QED
    BY <1>1, <1>3, <2>1, <2>2, <2>3, <2>4, <2>5, <2>6, StepKeeps
<1> QED
  BY <1>2, <1>3 DEF EmitStep

\* Something is said to the end or talked over.
LEMMA PlayStepKeeps ==
    ASSUME AgentIInv, PlayStep
    PROVE  AgentIInv'
<1>1. LogOK' /\ CoverOK' /\ RestOK' /\ ctl' \in ControllerType /\ SamePlan
  BY DEF PlayStep, AgentIInv, LogOK, LogTypeOK, CoverOK, RestOK, PlanOK, SamePlan
<1> QED
  BY <1>1, StepKeeps DEF PlayStep

\* A verdict is kept or dropped: what it leads to is about the question it was given on.
LEMMA AssessKeeps ==
    ASSUME AgentIInv, Assess
    PROVE  AgentIInv'
<1>1. /\ Locked /\ Head(op.todo) = "assess"
      /\ LogOK'
      /\ UNCHANGED <<worker, covered, outcome>>
  BY DEF Assess, Locked, AgentIInv, LogOK, LogTypeOK
<1>2. RestOK'
  BY NoTurnHas DEF Assess, AgentIInv, RestOK
<1>3. CASE op' = NoOp /\ UNCHANGED ctl
  <2>1. CoverOK' /\ ctl' \in ControllerType /\ SamePlan
    BY <1>1, <1>3 DEF AgentIInv, CoverOK, PlanOK, SamePlan
  <2> QED
    BY <1>1, <1>2, <1>3, <2>1, AroundThePlan DEF Conducting, AgentIInv, StageOK
<1>4. CASE \E kind \in TurnKinds \ {"withdraw", "previous"} :
              ctl' = Policy(ctl, kind).ctl /\ op' = Op("turn", Policy(ctl, kind).todo)
  <2>1. PICK kind, todo :
            /\ todo = Policy(ctl, kind).todo
            /\ ctl' = Policy(ctl, kind).ctl
            /\ op' = Op("turn", todo)
    BY <1>4
  <2>2. ~ctl.terminal /\ ctl.current # 0
    BY <1>1, UnderWay, EndingLists DEF AgentIInv
  <2>3. ctl \in ControllerType
    BY DEF AgentIInv, PlanOK
  <2>4. /\ ctl' \in ControllerType
        /\ \A f \in {"current", "completed", "terminal", "reason", "target"} : ctl'[f] = ctl[f]
        /\ \/ todo \in Plain \cup Completing
           \/ todo \in FollowingUp /\ ctl'.followups[ctl'.current] = 1
           \/ todo \in Reprompting /\ ctl'.reprompts[ctl'.current] >= 1
    BY <2>1, <2>2, <2>3, PolicyStaysWithTheQuestion
  <2>5. CoverOK' /\ PlanOK'
    BY <1>1, <2>4 DEF AgentIInv, CoverOK, PlanOK
  <2>6. AboutQuestion(todo)' /\ todo \in Lists
    BY <2>4 DEF AboutQuestion, Lists
  <2>7. ~ctl'.terminal /\ ctl'.current # 0
    BY <2>2, <2>4
  <2>8. Conducting' /\ worker' \in Phases
    BY <1>1 DEF Conducting, AgentIInv, StageOK, Locked, NoOp
  <2> QED
    BY <1>1, <1>2, <2>1, <2>5, <2>6, <2>7, <2>8, OperationBegins DEF Holders
<1> QED
  BY <1>3, <1>4 DEF Assess

\* A step of the worker's memory; the next question comes after one the log has.
LEMMA MemoryStepKeeps ==
    ASSUME AgentIInv, MemoryStep
    PROVE  AgentIInv'
<1>1. /\ Locked
      /\ Head(op.todo) \in {"asked", "next", "extend", "closed", "disconnect"}
      /\ LogOK'
      /\ UNCHANGED <<worker, covered, outcome>>
  BY DEF MemoryStep, AgentIInv, LogOK, LogTypeOK
<1>2. RestOK'
  BY DEF MemoryStep, AgentIInv, RestOK
<1>3. CASE Head(op.todo) # "next"
  <2>1. op' = Continue(Rest) /\ (ctl' = ctl \/ ctl' = [ctl EXCEPT !.closed = TRUE])
    BY <1>1, <1>3 DEF MemoryStep
  <2>2. ctl' \in ControllerType /\ SamePlan
    BY <2>1 DEF AgentIInv, PlanOK, ControllerType, SamePlan
  <2>3. CoverOK'
    BY <1>1, <2>2 DEF AgentIInv, CoverOK, SamePlan
  <2> QED
    BY <1>1, <1>2, <1>3, <2>1, <2>2, <2>3, StepKeeps
<1>4. CASE Head(op.todo) = "next"
  <2>1. PICK c, todo :
            /\ c = NextQuestion(ctl)
            /\ todo = IF c.terminal THEN Close ELSE Say("ask") \o <<"asked">>
            /\ ctl' = c
            /\ op' = Op(op.by, todo)
    BY <1>1, <1>4 DEF MemoryStep
  <2>2. op.todo \in GoingOn
    BY <1>1, <1>4, FirstSteps DEF AgentIInv
  <2>3. ctl.current \in covered /\ ~ctl.terminal /\ ctl.current # 0 /\ op.by \in Holders \ {"none"}
    BY <1>1, <2>2, UnderWay, PlainLists, CompletingLists, GoingOnLists, ReopeningLists,
       ReopenedLists, FollowingUpLists, RepromptingLists, EndingLists
       DEF AgentIInv, AboutQuestion, Locked
  <2>4. ctl \in ControllerType /\ ctl.reason = "none"
    BY <2>3 DEF AgentIInv, PlanOK
  <2>5. /\ c \in ControllerType
        /\ c.completed = ctl.completed \cup {ctl.current}
        /\ \/ c.terminal /\ c.reason = "all" /\ c.completed = Questions
           \/ ~c.terminal /\ c.reason = "none" /\ c.current # 0
    BY <2>1, <2>3, <2>4, GoesOnOrEnds
  <2>6. CoverOK' /\ PlanOK'
    BY <1>1, <2>1, <2>3, <2>5 DEF AgentIInv, CoverOK, PlanOK
  <2>7. \/ todo \in Ending /\ ctl'.terminal
        \/ AboutQuestion(todo)' /\ ~ctl'.terminal /\ ctl'.current # 0
    BY <2>1, <2>5, KnownLists DEF AboutQuestion
  <2>8. todo \in Lists
    BY <2>1, KnownLists DEF Lists
  <2>9. Conducting' /\ worker' \in Phases
    BY <1>1 DEF Conducting, AgentIInv, StageOK, Locked, NoOp
  <2> QED
    BY <1>1, <1>2, <2>1, <2>3, <2>6, <2>7, <2>8, <2>9, OperationBegins
<1> QED
  BY <1>3, <1>4

\* A question is taken up again, and is open then.
LEMMA ReopenStepKeeps ==
    ASSUME AgentIInv, ReopenStep
    PROVE  AgentIInv'
<1>1. /\ Locked
      /\ Head(op.todo) = "reopen"
      /\ ctl' = [ctl EXCEPT !.completed = @ \ {ctl.target}, !.current = ctl.target, !.target = 0]
      /\ op' = Continue(Rest)
      /\ UNCHANGED <<worker, covered, outcome>>
      /\ LogOK'
  BY DEF ReopenStep, Reopen, AgentIInv, LogOK, LogTypeOK
<1>2. RestOK'
  BY DEF ReopenStep, AgentIInv, RestOK
<1>3. op.todo \in Reopening /\ Tail(op.todo) \in Reopened
  BY <1>1, FirstSteps DEF AgentIInv
<1>4. /\ op \in [by : Holders, todo : Lists] /\ op.by # "none"
      /\ ctl.target \in Questions /\ ~ctl.terminal
  BY <1>1, <1>3, UnderWay, PlainLists, CompletingLists, GoingOnLists, ReopeningLists,
     ReopenedLists, FollowingUpLists, RepromptingLists, EndingLists
     DEF AgentIInv, AboutQuestion, Locked
<1>5. ctl \in ControllerType /\ ctl.reason = "none" /\ N \in Nat
  BY <1>4, AgentEventsAssumption DEF AgentIInv, PlanOK
<1>6. /\ ctl' \in ControllerType
      /\ ctl'.completed \subseteq ctl.completed
      /\ ctl'.current \notin ctl'.completed /\ ctl'.current # 0
      /\ ~ctl'.terminal /\ ctl'.reason = "none"
  <2>1. PICK q, done : q = ctl.target /\ done = ctl.completed \ {q}
    OBVIOUS
  <2>2. /\ q \in 0 .. N /\ q # 0 /\ 0 \in 0 .. N
        /\ done \in SUBSET Questions /\ q \notin done /\ done \subseteq ctl.completed
    BY <1>4, <1>5, <2>1 DEF ControllerType, Questions
  <2>3. ctl' = [ctl EXCEPT !.completed = done, !.current = q, !.target = 0]
    BY <1>1, <2>1
  <2>4. ctl' \in ControllerType
    BY <1>5, <2>2, <2>3 DEF ControllerType
  <2>5. /\ ctl'.completed = done /\ ctl'.current = q
        /\ ctl'.terminal = ctl.terminal /\ ctl'.reason = ctl.reason
    BY <1>5, <2>3 DEF ControllerType
  <2> QED
    BY <1>4, <1>5, <2>2, <2>4, <2>5
<1>7. CoverOK' /\ PlanOK'
  BY <1>1, <1>6 DEF AgentIInv, CoverOK, PlanOK
<1>8. PICK left : left = Tail(op.todo)
  OBVIOUS
<1>9. op' = Op(op.by, left)
  <2>1. PICK b \in Holders, l \in Lists : op = [by |-> b, todo |-> l]
    BY <1>4
  <2>2. Rest = [op EXCEPT !.todo = left] /\ op.by = b
    BY <1>8, <2>1 DEF Rest
  <2>3. Rest = [by |-> b, todo |-> left]
    BY <2>1, <2>2
  <2> QED
    BY <1>1, <1>3, <1>8, <2>2, <2>3, ReopenedLists DEF Continue, Op
<1>10. AboutQuestion(left)' /\ left \in Lists
  BY <1>3, <1>6, <1>8 DEF AboutQuestion, Lists
<1>11. Conducting' /\ worker' \in Phases
  BY <1>1 DEF Conducting, AgentIInv, StageOK, Locked, NoOp
<1> QED
  BY <1>1, <1>2, <1>4, <1>6, <1>7, <1>9, <1>10, <1>11, OperationBegins

\* A turn goes on record.
LEMMA RecordTurnKeeps ==
    ASSUME AgentIInv, RecordTurn
    PROVE  AgentIInv'
<1>1. RestOK'
  BY DEF RecordTurn, AgentIInv, RestOK, TurnType
<1>2. CASE Attentive
  <2>1. PICK todo : todo = <<"turn">> /\ op' = Op("record", todo)
    BY <1>2 DEF RecordTurn, Begin
  <2>2. LogOK' /\ CoverOK' /\ PlanOK' /\ Conducting' /\ worker' \in Phases
    BY DEF RecordTurn, AgentIInv, LogOK, LogTypeOK, CoverOK, PlanOK, StageOK, Conducting
  <2>3. todo \in Plain
    BY <2>1, Zenon DEF Plain
  <2>4. AboutQuestion(todo)' /\ todo \in Lists
    BY <2>3 DEF AboutQuestion, Lists
  <2> QED
    BY <1>1, <1>2, <2>1, <2>2, <2>4, OperationBegins DEF RecordTurn, Attentive, Holders
<1>3. CASE ~Attentive
  BY <1>1, <1>3, AllElseStays DEF RecordTurn, AgentIInv, StageOK, Conducting
<1> QED
  BY <1>2, <1>3

\* A turn is over.
LEMMA TurnOverKeeps ==
    ASSUME AgentIInv, TurnOver
    PROVE  AgentIInv'
<1>1. RestOK'
  BY NoTurnHas DEF TurnOver, AgentIInv, RestOK
<1> QED
  BY <1>1, AllElseStays DEF TurnOver, AgentIInv, StageOK, Conducting

\* A turn is handled: it is dropped, withdraws, goes back or is assessed.
LEMMA HandleTurnKeeps ==
    ASSUME AgentIInv, HandleTurn
    PROVE  AgentIInv'
<1>1. /\ Conducting' /\ worker' \in Phases /\ (Conducting' <=> Conducting)
      /\ LogOK'
      /\ UNCHANGED <<worker, covered, outcome>>
      /\ ctl \in ControllerType /\ N \in Nat /\ 0 \in 0 .. N
  BY AgentEventsAssumption
     DEF HandleTurn, AgentIInv, LogOK, LogTypeOK, StageOK, PlanOK, Conducting
<1>2. turn' \in TurnType
  BY NoTurnHas DEF HandleTurn, AgentIInv, RestOK, TurnType
<1>3. RestOK'
  BY <1>2 DEF HandleTurn, AgentIInv, RestOK
<1>4. CASE UNCHANGED <<ctl, op>>
  BY <1>1, <1>3, <1>4, AllElseStays DEF HandleTurn
<1>5. CASE /\ Attentive
           /\ ctl' = [ctl EXCEPT !.terminal = TRUE, !.current = 0, !.reason = "other"]
           /\ op' = Op("turn", Close)
  <2>1. /\ ctl' \in ControllerType
        /\ ctl'.terminal /\ ctl'.reason = "other" /\ ctl'.completed = ctl.completed
    BY <1>1, <1>5 DEF ControllerType
  <2>2. CoverOK' /\ PlanOK'
    BY <1>1, <2>1 DEF AgentIInv, CoverOK, PlanOK
  <2> QED
    BY <1>1, <1>3, <1>5, <2>1, <2>2, KnownLists, OperationBegins DEF Holders, Lists
<1>6. CASE /\ Attentive
           /\ \E q \in ResumeTargets(ctl) :
                 /\ ctl' = [ctl EXCEPT !.target = q]
                 /\ op' = Op("turn", <<"evaluated", "reopen", "reopened", "play", "asked">>)
  <2>0. PICK q \in ResumeTargets(ctl) : ctl' = [ctl EXCEPT !.target = q]
    BY <1>6
  <2>1. PICK todo : /\ todo = <<"evaluated", "reopen", "reopened", "play", "asked">>
                    /\ op' = Op("turn", todo)
    BY <1>6
  <2>2. q \in Questions /\ q \in 0 .. N
    BY <1>1, ResumesACompletedOne DEF ControllerType, Questions
  <2>3. /\ ctl' \in ControllerType
        /\ ctl'.target = q /\ ctl'.current = ctl.current /\ ctl'.completed = ctl.completed
        /\ ctl'.terminal = ctl.terminal /\ ctl'.reason = ctl.reason
    BY <1>1, <2>0, <2>2 DEF ControllerType
  <2>4. CoverOK' /\ PlanOK'
    BY <1>1, <2>3 DEF AgentIInv, CoverOK, PlanOK
  <2>5. todo \in Reopening
    BY <2>1, Zenon DEF Reopening
  <2>6. AboutQuestion(todo)' /\ todo \in Lists
    BY <2>2, <2>3, <2>5 DEF AboutQuestion, Lists
  <2> QED
    BY <1>1, <1>3, <1>6, <2>1, <2>3, <2>4, <2>6, OperationBegins DEF Attentive, Holders
<1>7. CASE Attentive /\ UNCHANGED ctl /\ op' = Op("turn", <<"assess">>)
  <2>1. PICK todo : todo = <<"assess">> /\ op' = Op("turn", todo)
    BY <1>7
  <2>2. CoverOK' /\ PlanOK'
    BY <1>1, <1>7 DEF AgentIInv, CoverOK, PlanOK
  <2>3. todo \in Plain
    BY <2>1, Zenon DEF Plain
  <2>4. AboutQuestion(todo)' /\ todo \in Lists
    BY <2>3 DEF AboutQuestion, Lists
  <2> QED
    BY <1>1, <1>3, <1>7, <2>1, <2>2, <2>4, OperationBegins DEF Attentive, Holders
<1> QED
  BY <1>4, <1>5, <1>6, <1>7 DEF HandleTurn, Begin

\* A task that waited for the lock finds a question to be about, or does nothing.
LEMMA BeginWaitingKeeps ==
    ASSUME AgentIInv, NEW task \in Waiters, BeginWaiting(task)
    PROVE  AgentIInv'
<1>1. /\ Conducting' /\ worker' \in Phases /\ (Conducting' <=> Conducting)
      /\ LogOK' /\ RestOK'
      /\ UNCHANGED <<worker, covered, outcome>>
  BY DEF BeginWaiting, AgentIInv, LogOK, LogTypeOK, StageOK, RestOK, Conducting
<1>2. ctl' \in ControllerType /\ SamePlan
  BY DEF BeginWaiting, AgentIInv, PlanOK, ControllerType, SamePlan
<1>3. CoverOK' /\ PlanOK'
  BY <1>1, <1>2 DEF AgentIInv, CoverOK, PlanOK, SamePlan
<1>4. CASE op' = NoOp
  BY <1>1, <1>2, <1>3, <1>4, AroundThePlan
<1>5. CASE op' # NoOp
  <2>1. PICK by \in Holders \ {"none"}, todo \in {<<"again", "play">>, Complete, <<"noted">>} :
            op' = Op(by, todo) /\ ~ctl.terminal /\ ctl.current # 0
    <3>1. CASE task = "reconnect" /\ ~ctl.terminal /\ ctl.current # 0
      BY <3>1 DEF BeginWaiting, Holders
    <3>2. CASE task = "repeat" /\ Attentive
      BY <3>2 DEF BeginWaiting, Attentive, Holders
    <3>3. CASE task = "skip" /\ Attentive
      BY <3>3 DEF BeginWaiting, Attentive, Holders
    <3>4. CASE task = "recovered" /\ ~ctl.terminal /\ ctl.current # 0
      BY <3>4 DEF BeginWaiting, Holders
    <3> QED
      BY <1>5, <3>1, <3>2, <3>3, <3>4 DEF BeginWaiting
  <2>2. todo \in Plain \cup Completing
    BY <2>1, Zenon DEF Plain, Completing, Complete
  <2>3. AboutQuestion(todo)' /\ todo \in Lists
    BY <2>2 DEF AboutQuestion, Lists
  <2>4. ~ctl'.terminal /\ ctl'.current # 0
    BY <1>2, <2>1 DEF SamePlan
  <2> QED
    BY <1>1, <1>3, <2>1, <2>3, <2>4, OperationBegins
<1> QED
  BY <1>4, <1>5

-----------------------------------------------------------------------------
(* The candidate, the timers and the room. *)

\* The candidate is away.
LEMMA AwayKeeps ==
    ASSUME AgentIInv, Away
    PROVE  AgentIInv'
<1>1. RestOK'
  BY DEF Away, AgentIInv, RestOK
<1> QED
  BY <1>1, AllElseStays DEF Away, AgentIInv, StageOK, Conducting

\* The timer of a tier runs out.
LEMMA NextTierKeeps ==
    ASSUME AgentIInv, NextTier
    PROVE  AgentIInv'
<1>1. RestOK'
  BY DEF NextTier, AgentIInv, RestOK
<1> QED
  BY <1>1, AllElseStays DEF NextTier, AgentIInv, StageOK, Conducting

\* The coordinator says something, or ends the interview.
LEMMA InactivityStepKeeps ==
    ASSUME AgentIInv, InactivityStep
    PROVE  AgentIInv'
<1>1. /\ Conducting' /\ worker' \in Phases /\ (Conducting' <=> Conducting)
      /\ LogOK' /\ RestOK'
      /\ UNCHANGED <<worker, covered, outcome>>
      /\ ctl \in ControllerType /\ N \in Nat /\ 0 \in 0 .. N
  BY AgentEventsAssumption
     DEF InactivityStep, AgentIInv, LogOK, LogTypeOK, StageOK, RestOK, PlanOK, Conducting
<1>2. CASE UNCHANGED <<ctl, op>>
  BY <1>1, <1>2, AllElseStays DEF InactivityStep
<1>3. CASE Attentive /\ UNCHANGED ctl /\ op' = Op("inactivity", <<"line", "play">>)
  <2>1. PICK todo : todo = <<"line", "play">> /\ op' = Op("inactivity", todo)
    BY <1>3
  <2>2. CoverOK' /\ PlanOK'
    BY <1>1, <1>3 DEF AgentIInv, CoverOK, PlanOK
  <2>3. todo \in Plain
    BY <2>1, Zenon DEF Plain
  <2>4. AboutQuestion(todo)' /\ todo \in Lists
    BY <2>3 DEF AboutQuestion, Lists
  <2> QED
    BY <1>1, <1>3, <2>1, <2>2, <2>4, OperationBegins DEF Attentive, Holders
<1>4. CASE /\ ~ctl.terminal
           /\ ctl' = [ctl EXCEPT !.terminal = TRUE, !.current = 0]
           /\ op' = Op("inactivity", <<"line", "play", "fail", "closed", "disconnect">>)
  <2>1. PICK todo : /\ todo = <<"line", "play", "fail", "closed", "disconnect">>
                    /\ op' = Op("inactivity", todo)
    BY <1>4
  <2>2. /\ ctl' \in ControllerType
        /\ ctl'.terminal /\ ctl'.reason = ctl.reason /\ ctl'.completed = ctl.completed
    BY <1>1, <1>4 DEF ControllerType
  <2>3. CoverOK' /\ PlanOK'
    BY <1>1, <2>2 DEF AgentIInv, CoverOK, PlanOK
  <2>4. todo \in Ending /\ todo \in Lists
    BY <2>1, Zenon DEF Ending, Lists
  <2> QED
    BY <1>1, <2>1, <2>2, <2>3, <2>4, OperationBegins DEF Holders
<1>5. CASE ctl.terminal /\ UNCHANGED ctl /\ op' = Op("inactivity", <<"disconnect">>)
  <2>1. PICK todo : todo = <<"disconnect">> /\ op' = Op("inactivity", todo)
    BY <1>5
  <2>2. CoverOK' /\ PlanOK'
    BY <1>1, <1>5 DEF AgentIInv, CoverOK, PlanOK
  <2>3. todo \in Ending /\ todo \in Lists
    BY <2>1, Zenon DEF Ending, Lists
  <2> QED
    BY <1>1, <1>5, <2>1, <2>2, <2>3, OperationBegins DEF Holders
<1> QED
  BY <1>2, <1>3, <1>4, <1>5 DEF InactivityStep, Begin

\* What the candidate and the room do: the operation under way goes on or is cut short, and
\* of the controller only what it knows of the connection changes.
LEMMA CandidateStepKeeps ==
    ASSUME AgentIInv, LogOK', UNCHANGED <<worker, covered, outcome>>, op' = NoOp \/ op' = op,
           ctl' \in {ctl, [ctl EXCEPT !.broken = TRUE], [ctl EXCEPT !.connected = FALSE]},
           RestOK'
    PROVE  AgentIInv'
<1>1. ctl' \in ControllerType /\ SamePlan
  BY DEF AgentIInv, PlanOK, ControllerType, SamePlan
<1>2. CoverOK'
  BY <1>1 DEF AgentIInv, CoverOK, SamePlan
<1> QED
  BY <1>1, <1>2, AroundThePlan DEF Conducting, AgentIInv, StageOK

\* The candidate starts to speak.
LEMMA SpeakKeeps ==
    ASSUME AgentIInv, Speak
    PROVE  AgentIInv'
<1>1. LogOK' /\ UNCHANGED <<covered, outcome>> /\ faults' \in 0 .. MaxFaults
  BY PlainEvent DEF Speak, AgentTypes
<1>2. turn' \in TurnType
  BY DEF Speak, AgentIInv, RestOK, TurnType, NoTurn
<1>3. RestOK'
  BY <1>1, <1>2 DEF Speak, AgentIInv, RestOK, Waiters
<1> QED
  BY <1>1, <1>3, CandidateStepKeeps DEF Speak

\* The candidate speaks over the coordinator.
LEMMA SpeakOverKeeps ==
    ASSUME AgentIInv, SpeakOver
    PROVE  AgentIInv'
<1>1. /\ LogOK' /\ UNCHANGED <<covered, outcome>>
      /\ op' = NoOp \/ op' = op
      /\ inactivity' = "off"
  BY InactivityIsCancelled DEF SpeakOver
<1>2. turn' \in TurnType
  BY DEF SpeakOver, TurnType, NoTurn
<1>3. RestOK'
  BY <1>1, <1>2 DEF SpeakOver, AgentIInv, RestOK, Waiters
<1> QED
  BY <1>1, <1>3, CandidateStepKeeps DEF SpeakOver

\* The turn is committed or was a noise.
LEMMA CommitMessageKeeps ==
    ASSUME AgentIInv, CommitMessage
    PROVE  AgentIInv'
<1>1. turn' \in TurnType
  BY NoTurnHas DEF CommitMessage, AgentIInv, RestOK, TurnType
<1>2. RestOK'
  BY <1>1 DEF CommitMessage, AgentIInv, RestOK
<1> QED
  BY <1>2, AllElseStays DEF CommitMessage, AgentIInv, StageOK, Conducting

\* A button is pressed.
LEMMA ControlKeeps ==
    ASSUME AgentIInv, NEW button \in {"repeat", "skip"}, Control(button)
    PROVE  AgentIInv'
<1>1. /\ LogOK' /\ UNCHANGED <<covered, outcome>>
      /\ op' = NoOp \/ op' = op
      /\ inactivity' = "off"
  BY InactivityIsCancelled DEF Control
<1>2. RestOK'
  BY <1>1 DEF Control, AgentIInv, RestOK, Waiters
<1> QED
  BY <1>1, <1>2, CandidateStepKeeps DEF Control

\* The candidate leaves.
LEMMA LeaveKeeps ==
    ASSUME AgentIInv, Leave
    PROVE  AgentIInv'
<1>1. /\ LogOK' /\ UNCHANGED <<covered, outcome>>
      /\ op' = NoOp \/ op' = op
      /\ inactivity' = "off"
  BY InactivityIsCancelled DEF Leave
<1>2. candidate' \in [present : BOOLEAN, room : BOOLEAN, left : 0 .. Leaves]
  <2>1. candidate.left + 1 \in 0 .. Leaves
    BY AgentAssumption DEF Leave, AgentIInv, RestOK
  <2> QED
    BY <2>1 DEF Leave, AgentIInv, RestOK
<1>3. turn' \in TurnType
  BY NoTurnHas DEF Leave, AgentIInv, RestOK
<1>4. RestOK'
  BY <1>1, <1>2, <1>3 DEF Leave, AgentIInv, RestOK
<1> QED
  BY <1>1, <1>4, CandidateStepKeeps DEF Leave

\* The candidate is back.
LEMMA ReturnKeeps ==
    ASSUME AgentIInv, Return
    PROVE  AgentIInv'
<1>1. /\ LogOK' /\ UNCHANGED <<covered, outcome>>
      /\ op' = NoOp \/ op' = op
      /\ inactivity' = "off"
  BY InactivityIsCancelled DEF Return
<1>2. RestOK'
  BY <1>1 DEF Return, AgentIInv, RestOK, Waiters
<1> QED
  BY <1>1, <1>2, CandidateStepKeeps DEF Return

\* The candidate stayed away, and the interview has failed unless it was being ended.
LEMMA AbsenceTimeoutKeeps ==
    ASSUME AgentIInv, AbsenceTimeout
    PROVE  AgentIInv'
<1>1. LogOK' /\ UNCHANGED <<covered, outcome>> /\ faults' \in 0 .. MaxFaults
  <2>1. CASE ctl.terminal
    BY <2>1 DEF AbsenceTimeout, AgentIInv, LogOK, LogTypeOK, RestOK
  <2>2. CASE ~ctl.terminal
    BY <2>2, PlainEvent DEF AbsenceTimeout, AgentTypes
  <2> QED
    BY <2>1, <2>2
<1>2. candidate' \in [present : BOOLEAN, room : BOOLEAN, left : 0 .. Leaves]
  BY DEF AbsenceTimeout, AgentIInv, RestOK
<1>3. RestOK'
  BY <1>1, <1>2 DEF AbsenceTimeout, AgentIInv, RestOK
<1> QED
  BY <1>1, <1>3, CandidateStepKeeps DEF AbsenceTimeout

\* Nothing happens.
LEMMA StutterKeeps ==
    ASSUME AgentIInv, UNCHANGED agentVars
    PROVE  AgentIInv'
<1>1. RestOK'
  BY DEF AgentIInv, RestOK, agentVars, controllerVars
<1> QED
  BY <1>1, AllElseStays DEF agentVars, controllerVars, AgentIInv, StageOK, Conducting

\* Every step keeps the invariant.
LEMMA AgentStep ==
    ASSUME AgentIInv, [AgentNext]_agentVars
    PROVE  AgentIInv'
<1>1. CASE MainNext
  BY <1>1, ClaimKeeps, JoinKeeps, EmitAgentJoinedKeeps, EmitSessionStartedKeeps, ConductedKeeps,
     MaxDurationKeeps, CloseForMaxDurationKeeps, ClosedKeeps, DrainedKeeps
     DEF MainNext
<1>2. CASE OperationNext
  BY <1>2, EmitStepKeeps, PlayStepKeeps, AssessKeeps, MemoryStepKeeps, ReopenStepKeeps,
     RecordTurnKeeps, HandleTurnKeeps, TurnOverKeeps, BeginWaitingKeeps
     DEF OperationNext
<1>3. CASE CandidateNext
  BY <1>3, AwayKeeps, NextTierKeeps, InactivityStepKeeps, SpeakKeeps, SpeakOverKeeps,
     CommitMessageKeeps, LeaveKeeps, ReturnKeeps, AbsenceTimeoutKeeps, ControlKeeps
     DEF CandidateNext
<1> QED
  BY <1>1, <1>2, <1>3, DispatchKeeps, WorkerDiesKeeps, StutterKeeps DEF AgentNext

-----------------------------------------------------------------------------
(* What follows. *)

\* Every list of the worker is made of steps it knows.
LEMMA KnownSteps ==
    ASSUME NEW l \in Lists \cup {<<>>}
    PROVE  \A i \in DOMAIN l : l[i] \in Steps
  BY DEF Lists, Plain, Completing, GoingOn, Reopening, Reopened, FollowingUp, Reprompting, Ending,
         Steps

\* What the agent posts next is one of the payloads that were compared with the contract.
LEMMA PostsAForm ==
    ASSUME AgentIInv, Locked, Head(op.todo) \in Posting
    PROVE  <<Head(op.todo), Variant(Head(op.todo))>> \in Forms
<1> DEFINE step == Head(op.todo)
<1>1. CASE step = "followup"
  <2>1. ctl.followups[ctl.current] = 1
    BY <1>1, UnderWay, PlainLists, CompletingLists, GoingOnLists, ReopeningLists, ReopenedLists,
       FollowingUpLists, RepromptingLists, EndingLists
       DEF AgentIInv, AboutQuestion
  <2> QED
    BY <1>1, <2>1 DEF Variant, Forms
<1>2. CASE step = "reprompt"
  <2>1. ctl.reprompts[ctl.current] >= 1 /\ ~ctl.terminal /\ ctl.current # 0
    BY <1>2, UnderWay, PlainLists, CompletingLists, GoingOnLists, ReopeningLists, ReopenedLists,
       FollowingUpLists, RepromptingLists, EndingLists
       DEF AgentIInv, AboutQuestion
  <2>2. ctl.reprompts[ctl.current] \in 0 .. 2
    BY <2>1, AgentEventsAssumption DEF AgentIInv, PlanOK, ControllerType, Questions
  <2> QED
    BY <1>2, <2>1, <2>2 DEF Variant, Forms
<1>3. CASE step \notin {"followup", "reprompt"}
  BY <1>3 DEF Variant, Forms
<1> QED
  BY <1>1, <1>2, <1>3

\* The invariant is what AgentInv says and more.
LEMMA SafeWhenKept ==
    ASSUME OnlyTheseAreRefused, AgentIInv
    PROVE  AgentInv
<1>1. AgentTypeOK
  BY KnownSteps
     DEF AgentIInv, LogOK, CoverOK, PlanOK, ControllerType, StageOK, OperationOK, RestOK, JobType,
         TurnType, AgentTypeOK
<1>2. CompletedCoversPlan /\ AsksSomething
  BY DEF AgentIInv, CoverOK, StageOK, Conducting, CompletedCoversPlan, AsksSomething
<1>3. PostsWithinContract
  BY PostsAForm DEF PostsWithinContract
<1> QED
  BY <1>1, <1>2, <1>3 DEF AgentInv

\* The invariant of an interview, however long its texts.
THEOREM AgentKeepsInvariant == AgentSpec => []AgentIInv
<1>1. AgentInit => AgentIInv
  BY AgentBegins
<1>2. AgentIInv /\ [AgentNext]_agentVars => AgentIInv'
  BY AgentStep
<1> QED
  BY <1>1, <1>2, PTL DEF AgentSpec

\* An interview's log claims that all questions were gone through only if each was completed,
\* its agent always has a question to come back to, and it posts within the contract of the
\* realtime service but for three kinds of events.
THEOREM AgentIsSafe ==
    ASSUME LengthsFit
    PROVE  AgentSpec => []AgentInv
<1>1. OnlyTheseAreRefused
  BY OnlyTheseAreEverRefused
<1>2. AgentIInv => AgentInv
  BY <1>1, SafeWhenKept
<1> QED
  BY <1>2, AgentKeepsInvariant, PTL

\* The log takes agent_joined once.
LEMMA JoinsOnce ==
    ASSUME AgentIInv, [AgentNext]_agentVars, worker' = "starting", worker # "starting"
    PROVE  "agent_joined" \notin session.types
<1>1. CASE EmitAgentJoined
  <2>1. Written("none", "agent_joined", TRUE)
    BY <1>1 DEF EmitAgentJoined, MainEmits, MainRaises, Retry, Forget
  <2>2. CanApplyEvent(session.status, "agent_joined")
    BY <2>1 DEF Written, Accepts
  <2> QED
    BY <2>2 DEF AgentIInv, LogOK, CanApplyEvent
<1>2. CASE MainNext /\ ~EmitAgentJoined
  BY <1>2
     DEF MainNext, Claim, Join, EmitSessionStarted, MainEmits, MainRaises, Retry, Forget, Conducted,
         MaxDuration, CloseForMaxDuration, Closed, Drained
<1>3. CASE OperationNext
  BY <1>3
     DEF OperationNext, EmitStep, OpRaises, MainRaises, Retry, Forget, PlayStep, Assess, MemoryStep,
         ReopenStep, RecordTurn, HandleTurn, TurnOver, BeginWaiting
<1>4. CASE CandidateNext
  BY <1>4
     DEF CandidateNext, Away, NextTier, InactivityStep, Speak, SpeakOver, CommitMessage, Leave,
         Return, AbsenceTimeout, Control
<1>5. CASE Dispatch \/ WorkerDies \/ UNCHANGED agentVars
  BY <1>5 DEF Dispatch, WorkerDies, Forget, agentVars, controllerVars
<1> QED
  BY <1>1, <1>2, <1>3, <1>4, <1>5 DEF AgentNext

\* However often the job is tried, one worker conducts the interview: the log refuses the
\* agent_joined of any other.
THEOREM OneInterviewerAtMost == AgentSpec => OneInterviewer
<1>1. AgentIInv /\ [AgentNext]_agentVars =>
          [worker' = "starting" /\ worker # "starting" =>
               "agent_joined" \notin session.types]_agentVars
  BY JoinsOnce
<1> QED
  BY <1>1, AgentKeepsInvariant, PTL DEF AgentSpec, OneInterviewer
=============================================================================
