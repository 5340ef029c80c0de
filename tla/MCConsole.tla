------------------------------ MODULE MCConsole ------------------------------
(***************************************************************************)
(* The workspace and what is sold and shown around it, for TLC.  The       *)
(* components share no state: a behaviour is one of a single component,    *)
(* the others at rest, and they share model values.                        *)
(***************************************************************************)
EXTENDS Organizations, Purchases, PlanSync, DemoLeads, LiveTests, TLC

CONSTANTS a1, a2, b1, b2, c1, c2, f1, f2

VARIABLE focus

consoleVars == <<orgVars, purchaseVars, planVars, leadVars, liveTestVars, focus>>

ConsoleInit ==
    /\ focus \in {"team", "purchases", "plan", "leads", "tests"}
    /\ OrgInit
    /\ PurchasesInit
    /\ PlanInit
    /\ LeadsInit
    /\ LiveTestsInit

ConsoleNext ==
    /\ \/ focus = "team" /\ OrgNext
       \/ focus = "purchases" /\ PurchasesNext
       \/ focus = "plan" /\ PlanNext
       \/ focus = "leads" /\ LeadsNext
       \/ focus = "tests" /\ LiveTestsNext
    /\ focus # "team" => UNCHANGED orgVars
    /\ focus # "purchases" => UNCHANGED purchaseVars
    /\ focus # "plan" => UNCHANGED planVars
    /\ focus # "leads" => UNCHANGED leadVars
    /\ focus # "tests" => UNCHANGED liveTestVars
    /\ UNCHANGED focus

ConsoleSpec == ConsoleInit /\ [][ConsoleNext]_consoleVars

\* What bears these names is interchangeable in every component.
MCSymmetry == Permutations({a1, a2}) \cup Permutations({b1, b2}) \cup Permutations({c1, c2})
=============================================================================
