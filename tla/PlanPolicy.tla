------------------------------ MODULE PlanPolicy ------------------------------
(***************************************************************************)
(* The limits of an interview plan (interview-plan-policy.ts), shared by   *)
(* its generation, the builder and publication.                            *)
(***************************************************************************)
EXTENDS Naturals

CONSTANTS
    MinQuestions,       \* minQuestionsToPublish
    MaxQuestions        \* maxQuestions

ASSUME PlanPolicyAssumption ==
    /\ MinQuestions \in Nat \ {0, 1}
    /\ MaxQuestions \in Nat
    /\ MaxQuestions >= MinQuestions
=============================================================================
