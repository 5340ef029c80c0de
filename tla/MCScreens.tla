------------------------------ MODULE MCScreens ------------------------------
(***************************************************************************)
(* What recruiters and candidates do in their tabs, for TLC.  The          *)
(* components share no state: a behaviour is one of a single component,    *)
(* the others at rest, and they share model values, which keeps the group  *)
(* of their permutations small.                                            *)
(***************************************************************************)
EXTENDS RolePublication, DraftGeneration, RoleBuilder, LiveRoom,
        CandidateReviews, CallScheduling, DemoAdmission, TLC

CONSTANTS a1, a2, b1, b2, c1, c2, e1, e2, f1, f2

VARIABLE focus

screensVars == <<publicationVars, generationVars, builderVars, roomVars, reviewVars,
                 callVars, demoVars, focus>>

ScreensInit ==
    /\ focus \in {"publication", "generation", "builder", "room", "reviews", "calls", "demo"}
    /\ PublicationInit
    /\ IF focus = "generation" THEN GenerationInit
       ELSE asked = [target |-> MinQuestions, template |-> 1] /\ generated = NoDraftYet
    /\ BuilderInit
    /\ RoomInit
    /\ ReviewsInit
    /\ CallsInit
    /\ DemoInit

ScreensNext ==
    /\ \/ focus = "publication" /\ PublicationNext
       \/ focus = "generation" /\ Generate
       \/ focus = "builder" /\ BuilderNext
       \/ focus = "room" /\ RoomNext
       \/ focus = "reviews" /\ ReviewsNext
       \/ focus = "calls" /\ CallsNext
       \/ focus = "demo" /\ DemoNext
    /\ focus # "publication" => UNCHANGED publicationVars
    /\ focus # "generation" => UNCHANGED generationVars
    /\ focus # "builder" => UNCHANGED builderVars
    /\ focus # "room" => UNCHANGED roomVars
    /\ focus # "reviews" => UNCHANGED reviewVars
    /\ focus # "calls" => UNCHANGED callVars
    /\ focus # "demo" => UNCHANGED demoVars
    /\ UNCHANGED focus

ScreensSpec == ScreensInit /\ [][ScreensNext]_screensVars

\* No id, one of those given by place, one of a template's, one of the padding's,
\* and one of its own.
MCModelIds == {Missing, <<"q", 2>>, <<"template", 1>>, <<"padding", 3>>, <<"own", 1>>}

\* None, some, and enough to cut off required ones.
MCModelGuardrails == {0, 3, 7}

\* What bears these names is interchangeable in every component.
MCSymmetry == Permutations({a1, a2}) \cup Permutations({b1, b2})
                  \cup Permutations({c1, c2}) \cup Permutations({e1, e2})
=============================================================================
