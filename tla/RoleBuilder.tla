----------------------------- MODULE RoleBuilder -----------------------------
(***************************************************************************)
(* One tab of the role builder (interview-agent-builder.tsx): a recruiter  *)
(* writes a brief, has questions drafted, edits them, saves and publishes. *)
(*                                                                         *)
(* Every server call is made from a copy of the form as it was when its    *)
(* button was pressed, and its answer is applied to the form as it is when *)
(* it arrives; a few flags decide which buttons may be pressed meanwhile.  *)
(***************************************************************************)
EXTENDS PlanPolicy, Sequences

CONSTANTS
    Calls,              \* server calls that may be in flight together
    TargetQuestions,    \* resolveTargetInterviewQuestionCount
    LostAnswers         \* answers of saves that may be lost

ASSUME BuilderAssumption ==
    /\ TargetQuestions \in MinQuestions .. MaxQuestions
    /\ LostAnswers \in Nat

VARIABLES
    form,               \* the number of questions on the screen, 0 without a plan
    screen,             \* the step, the flags and the markers
    calls,
    server,             \* drafts made for this tab
    lost

builderVars == <<form, screen, calls, server, lost>>

\* What the questions, the criteria and the brief say is left out.
Form == 0 .. MaxQuestions

Steps == <<"brief", "calibrate", "questions", "evaluation", "share">>

Screen == [step : 1 .. Len(Steps), saving : BOOLEAN, publishing : BOOLEAN, generating : BOOLEAN,
           working : BOOLEAN, marker : {"none", "saved", "published"}, review : BOOLEAN,
           known : BOOLEAN]

NoCall == [kind |-> "none", form |-> 0, known |-> FALSE]

At(step) == Steps[screen.step] = step

BuilderInit ==
    /\ form = 0
    /\ screen = [step |-> 1, saving |-> FALSE, publishing |-> FALSE, generating |-> FALSE,
                 working |-> FALSE, marker |-> "none", review |-> FALSE, known |-> FALSE]
    /\ calls = [c \in Calls |-> NoCall]
    /\ server = 0
    /\ lost = 0

\* A call leaves with the form and the draft id of the render its button is on.
Sends(c, kind, sent) ==
    /\ calls[c] = NoCall
    /\ calls' = [calls EXCEPT ![c] = [kind |-> kind, form |-> sent, known |-> screen.known]]

\* markDraftDirty: an edit clears the marker and the review.
Dirty(scr) == [scr EXCEPT !.marker = "none", !.review = FALSE]

-----------------------------------------------------------------------------
(* The recruiter.                                                          *)

\* Mistake for the checks to catch: the footer waits for the generation alone.
FooterWaits_Generating == screen.generating

\* InterviewBuilderFooter's buttons.
FooterWaits == screen.saving \/ screen.generating

Footer == ~At("share") /\ ~FooterWaits

Back ==
    /\ Footer
    /\ screen.step > 1
    /\ screen' = [screen EXCEPT !.step = @ - 1]
    /\ UNCHANGED <<form, calls, server, lost>>

Continue ==
    /\ Footer
    /\ At("brief") \/ (At("questions") /\ form > 0)
    /\ screen' = [screen EXCEPT !.step = @ + 1]
    /\ UNCHANGED <<form, calls, server, lost>>

\* startDraftGeneration: from the calibration, from the questions when there are
\* none, or "Regenerate".
StartGeneration(c) ==
    /\ \/ Footer /\ (At("calibrate") \/ (At("questions") /\ form = 0))
       \/ At("questions") /\ form > 0 /\ ~screen.generating
    /\ Sends(c, "generate", form)
    /\ form' = 0
    /\ screen' = [screen EXCEPT !.step = 3, !.generating = TRUE]
    /\ UNCHANGED <<server, lost>>

\* The brief, the focus, the modes, the seniority, the language: what they say is
\* left out.
EditBrief ==
    /\ At("brief") \/ At("calibrate")
    /\ screen' = Dirty(screen)
    /\ UNCHANGED <<form, calls, server, lost>>

Editing == At("questions") /\ ~screen.generating /\ form > 0

\* updateQuestion, and the criteria's edits on the next step.
EditText ==
    /\ Editing \/ At("evaluation")
    /\ screen' = Dirty(screen)
    /\ UNCHANGED <<form, calls, server, lost>>

\* Questions go by their id; one added at a place where another was added before
\* has the other's id, and goes with it.
RemoveQuestion ==
    /\ Editing
    /\ form > MinQuestions
    /\ \E sameId \in {1, 2} : form' = form - sameId
    /\ screen' = Dirty(screen)
    /\ UNCHANGED <<calls, server, lost>>

\* addQuestion and refineQuestion: one flag for both, which a second call takes
\* over and the first answer clears.
AskAI(c) ==
    /\ Editing
    /\ \/ form < MaxQuestions /\ ~screen.working /\ Sends(c, "add", form)
       \/ Sends(c, "refine", form)
    /\ screen' = [screen EXCEPT !.working = calls'[c].kind = "add"]
    /\ UNCHANGED <<form, server, lost>>

Saves(c, kind) ==
    /\ form > 0
    /\ Sends(c, kind, form)
    /\ screen' = [screen EXCEPT !.saving = TRUE]
    /\ UNCHANGED <<form, server, lost>>

\* saveAndShare from the footer; saving, publishing and previewing from the last
\* step; publishing with a justification from the review panel.
Save(c) ==
    \/ Footer /\ At("evaluation") /\ Saves(c, "share")
    \/ At("share") /\ ~screen.saving /\ ~screen.publishing /\ \E kind \in {"save", "publish"} : Saves(c, kind)
    \/ At("share") /\ screen.review /\ ~screen.publishing /\ Saves(c, "publish")

\* The last step's way back to the questions is never disabled.
EditDraft ==
    /\ At("share")
    /\ screen' = [screen EXCEPT !.step = 3]
    /\ UNCHANGED <<form, calls, server, lost>>

-----------------------------------------------------------------------------
(* Answers.                                                                *)

CallEnds(c) == calls' = [calls EXCEPT ![c] = NoCall]

\* Drafted anew (see DraftGeneration), or not.
GenerationAnswers(c) ==
    /\ calls[c].kind = "generate"
    /\ CallEnds(c)
    /\ \/ /\ form' = TargetQuestions
          /\ screen' = [Dirty(screen) EXCEPT !.generating = FALSE]
       \/ /\ UNCHANGED form
          /\ screen' = [screen EXCEPT !.generating = FALSE]
    /\ UNCHANGED <<server, lost>>

\* Mistake for the checks to catch: the new question is put after those that are
\* on the screen by now.
AddedTo_Screen(sent) == form

AddedTo(sent) == sent

\* The answer is the whole plan that was sent, with the new question.
AddAnswers(c) ==
    /\ calls[c].kind = "add"
    /\ CallEnds(c)
    /\ \/ /\ form' = AddedTo(calls[c].form) + 1
          /\ screen' = [Dirty(screen) EXCEPT !.working = FALSE]
       \/ /\ screen' = [screen EXCEPT !.working = FALSE]
          /\ UNCHANGED form
    /\ UNCHANGED <<server, lost>>

\* The plan that was sent, with one text changed.
RefineAnswers(c) ==
    /\ calls[c].kind = "refine"
    /\ CallEnds(c)
    /\ \/ /\ form' = calls[c].form
          /\ screen' = [Dirty(screen) EXCEPT !.working = FALSE]
       \/ /\ screen' = [screen EXCEPT !.working = FALSE]
          /\ UNCHANGED form
    /\ UNCHANGED <<server, lost>>

SaveKinds == {"save", "share", "publish"}

\* saveInterviewDraft updates the draft the call names, or makes one.
Stored(c) == server' = IF calls[c].known THEN server ELSE server + 1

\* saveCurrentDraft's end; a publication goes on with the draft that was saved.
SaveAnswers(c) ==
    /\ calls[c].kind \in SaveKinds
    /\ Stored(c)
    /\ calls' = [calls EXCEPT ![c] = IF @.kind = "publish" THEN [@ EXCEPT !.kind = "publishing"]
                                                          ELSE NoCall]
    /\ screen' = [screen EXCEPT !.saving = FALSE, !.known = TRUE, !.marker = "saved",
                                !.publishing = @ \/ calls[c].kind = "publish",
                                !.step = IF calls[c].kind = "share" THEN 5 ELSE @]
    /\ UNCHANGED <<form, lost>>

SaveFails(c) ==
    /\ calls[c].kind \in SaveKinds
    /\ \/ UNCHANGED <<server, lost>>
       \/ Stored(c) /\ lost < LostAnswers /\ lost' = lost + 1
    /\ CallEnds(c)
    /\ screen' = [screen EXCEPT !.saving = FALSE]
    /\ UNCHANGED form

\* publishInterviewDraft: published, to be reviewed, or refused.
PublishAnswers(c) ==
    /\ calls[c].kind = "publishing"
    /\ CallEnds(c)
    /\ \/ screen' = [screen EXCEPT !.publishing = FALSE, !.review = FALSE, !.marker = "published"]
       \/ \E review \in BOOLEAN : screen' = [screen EXCEPT !.publishing = FALSE, !.review = review]
    /\ UNCHANGED <<form, server, lost>>

-----------------------------------------------------------------------------
BuilderNext ==
    \/ Back \/ Continue \/ EditBrief \/ EditText \/ RemoveQuestion \/ EditDraft
    \/ \E c \in Calls : \/ StartGeneration(c) \/ AskAI(c) \/ Save(c)
                        \/ GenerationAnswers(c) \/ AddAnswers(c) \/ RefineAnswers(c)
                        \/ SaveAnswers(c) \/ SaveFails(c) \/ PublishAnswers(c)

BuilderSpec == BuilderInit /\ [][BuilderNext]_builderVars

-----------------------------------------------------------------------------
\* However the answers of drafting, adding and refining cross, the plan on the screen
\* stays within the limit of questions.
BuilderTypeOK ==
    /\ form \in Form
    /\ screen \in Screen
    /\ server \in Nat
    /\ lost \in 0 .. LostAnswers

\* A tab fills one draft, and so one Job: whichever buttons are pressed while a
\* first save is on its way, only an answer that was lost makes a second one.
OneDraftPerTab == server <= 1 + lost
\* One draft per tab, and a plan on the screen that keeps to its limit.
BuilderInv == BuilderTypeOK /\ OneDraftPerTab
=============================================================================
