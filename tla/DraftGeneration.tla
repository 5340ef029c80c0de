--------------------------- MODULE DraftGeneration ---------------------------
(***************************************************************************)
(* How an interview plan is generated (interview-draft-generation.ts and   *)
(* core's interview-agent.ts): whatever the language model answers is      *)
(* normalized, screened, and filled up from templates; an answer that      *)
(* cannot be used, or none at all, leaves the templates alone. Criteria go *)
(* the same way as questions, but for the padding, and are left out.       *)
(***************************************************************************)
EXTENDS PlanPolicy, FiniteSets, Sequences

CONSTANTS
    ModelIds,           \* ids the model may give its questions; Missing is none
    PayloadLength,      \* questions it may write
    ModelGuardrails,    \* how many guardrails of its own it may write
    RequiredGuardrails, \* how many a plan needs
    GuardrailLimit      \* where normalizeGuardrails cuts the list

ASSUME GenerationAssumption ==
    /\ PayloadLength \in Nat
    /\ ModelGuardrails \subseteq Nat
    /\ RequiredGuardrails \in Nat
    /\ GuardrailLimit \in Nat

VARIABLES
    asked,              \* the target and the template the inputs resolve to
    generated           \* the draft, once there is one

generationVars == <<asked, generated>>

\* Where an id is from, and its number.
Missing == <<"missing", 0>>

\* A question as the model wrote it: a prompt too short to be one, one that trips
\* the policy, or one that is fine.
Written == [id : ModelIds, prompt : {"short", "dirty", "fine"}]

NoDraftYet == [questions |-> <<>>, guardrails |-> 0]

\* resolveTargetInterviewQuestionCount resolves to a number within the limits;
\* the template (focus questions, then supplements) may have fewer.
GenerationInit ==
    /\ asked \in [target : MinQuestions .. MaxQuestions, template : 1 .. MaxQuestions]
    /\ generated = NoDraftYet

-----------------------------------------------------------------------------
Smaller(m, n) == IF m < n THEN m ELSE n

\* The i-th of a set of places, and the questions at those places, in their order:
\* what Array.filter keeps.
Upto(places, k) == {l \in places : l <= k}

Place(places, i) == CHOOSE k \in places : Cardinality(Upto(places, k)) = i

Kept(questions, places) == [i \in 1 .. Cardinality(places) |-> questions[Place(places, i)]]

Fine(id) == [id |-> id, prompt |-> "fine"]

\* generateDeterministicInterviewDraft: uniqueQuestions, cut at the target.
Template == [k \in 1 .. Smaller(asked.template, asked.target) |-> Fine(<<"template", k>>)]

\* The question that takes a place when the others run out.
Padding(k) == Fine(<<"padding", k>>)

\* normalizeQuestion: an id that is missing is the question's place in the list.
Normalized(payload) ==
    Kept([k \in DOMAIN payload |->
             [payload[k] EXCEPT !.id = IF @ = Missing THEN <<"q", k>> ELSE @]],
         {k \in DOMAIN payload : payload[k].prompt # "short"})

\* questionViolatesPolicy.
Screened(questions) == Kept(questions, {k \in DOMAIN questions : questions[k].prompt = "fine"})

\* Mistake for the checks to catch: questions are taken as they come.
Deduped_AsTheyCome(questions) == questions

\* dedupeById: the first question of each id.
Deduped(questions) ==
    Kept(questions, {k \in DOMAIN questions :
                        \A l \in 1 .. k - 1 : questions[l].id # questions[k].id})

Cut(questions) == SubSeq(questions, 1, Smaller(Len(questions), asked.target))

\* The template's questions whose ids are not taken.
Untaken(own) ==
    Kept(Template, {k \in DOMAIN Template :
                       \A l \in DOMAIN own : own[l].id # Template[k].id})

\* fillQuestionsToTarget: the model's, the template's, then padding, of which no
\* one asks whether its id is taken.
Filled(questions) ==
    LET own == Deduped(Cut(questions))
        more == Cut(own \o Untaken(own))
    IN  [k \in 1 .. asked.target |-> IF k <= Len(more) THEN more[k] ELSE Padding(k)]

\* normalizeGuardrails: the model's own, then the required ones, then the cut.
Guardrails(own) ==
    IF own + RequiredGuardrails <= GuardrailLimit THEN RequiredGuardrails
    ELSE IF own < GuardrailLimit THEN GuardrailLimit - own ELSE 0

Draft(payload, own) ==
    [questions |-> Filled(Screened(Normalized(payload))), guardrails |-> Guardrails(own)]

\* generateDraftWithProvenance: the model's draft, or the template's.
Generate ==
    /\ generated = NoDraftYet
    /\ \/ \E length \in 0 .. PayloadLength, own \in ModelGuardrails :
          \E payload \in [1 .. length -> Written] : generated' = Draft(payload, own)
       \/ generated' = Draft(<<>>, 0)
    /\ UNCHANGED asked

GenerationSpec == GenerationInit /\ [][Generate]_generationVars

-----------------------------------------------------------------------------
GenerationTypeOK ==
    /\ asked \in [target : MinQuestions .. MaxQuestions, template : 1 .. MaxQuestions]
    /\ generated.guardrails \in 0 .. RequiredGuardrails

\* Whatever the model answers, a draft has as many questions as were asked for,
\* none that trips the policy, and no two with one id, by which the interview
\* tells what was asked from what was not: but for a question of the padding,
\* when the model has thought of the very id that the padding gives that place.
DraftsAreSound ==
    generated # NoDraftYet =>
       LET questions == generated.questions
       IN  /\ Len(questions) = asked.target
           /\ \A k \in DOMAIN questions : questions[k].prompt = "fine"
           /\ \A k, l \in DOMAIN questions :
                 k < l /\ questions[k].id = questions[l].id => questions[l] = Padding(l)

\* A generated draft is sound, and has no more guardrails than are shown.
GenerationInv == GenerationTypeOK /\ DraftsAreSound
=============================================================================
