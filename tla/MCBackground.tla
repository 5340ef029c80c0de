----------------------------- MODULE MCBackground -----------------------------
(***************************************************************************)
(* What the console does by the clock, for TLC.  The components share no   *)
(* state: a behaviour is one of a single component, the others at rest.    *)
(***************************************************************************)
EXTENDS RoleIntakes, BillingSweep, CandidateData, NotificationDelivery

CONSTANTS i1, w1, w2, u1, n1

VARIABLE focus

backgroundVars == <<intakeVars, sweepVars, dataVars, noticeVars, focus>>

BackgroundInit ==
    /\ focus \in {"intakes", "sweep", "data", "notices"}
    /\ IntakesInit
    /\ SweepInit
    /\ DataInit
    /\ NoticeInit

BackgroundNext ==
    /\ \/ focus = "intakes" /\ IntakesNext
       \/ focus = "sweep" /\ SweepNext
       \/ focus = "data" /\ DataNext
       \/ focus = "notices" /\ NoticeNext
    /\ focus # "intakes" => UNCHANGED intakeVars
    /\ focus # "sweep" => UNCHANGED sweepVars
    /\ focus # "data" => UNCHANGED dataVars
    /\ focus # "notices" => UNCHANGED noticeVars
    /\ UNCHANGED focus

\* At rest no intake and no session is due for anything, which leaves only the
\* fairness of the sweep, whose hour strikes anyway, to its own behaviours.
BackgroundSpec ==
    /\ BackgroundInit
    /\ [][BackgroundNext]_backgroundVars
    /\ IntakesFairness
    /\ DataFairness
    /\ focus = "sweep" => SweepFairness
=============================================================================
