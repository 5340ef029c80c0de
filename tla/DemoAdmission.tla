---------------------------- MODULE DemoAdmission ----------------------------
(***************************************************************************)
(* The public demo: a visitor of the website picks a role, talks to the    *)
(* interviewer once, and is handed back to the website                     *)
(* (marketing-demo-admission.ts, marketing-demo-handoffs.ts and the route  *)
(* that opens the rooms).                                                  *)
(*                                                                         *)
(* The starts of all visitors share one row that limits them. Opening the  *)
(* room and erasing what was said are requests to the realtime service,    *)
(* between transactions of the candidate app.                              *)
(***************************************************************************)
EXTENDS Naturals, FiniteSets

CONSTANTS
    Demos,              \* previews made for visitors, each with the nonce it was made from
    ConcurrentCap,      \* concurrentSessionCap
    DailyCap,           \* dailyStartedSessionCap
    AccessTtl,          \* accessTtlMs
    RuntimeTtl,         \* runtimeTtlMs
    HandoffTtl,         \* handoffTtlMs
    Day,                \* the length of a day
    DemoHorizon         \* bound on the clock

ASSUME DemoAssumption ==
    /\ IsFiniteSet(Demos)
    /\ ConcurrentCap \in Nat /\ DailyCap \in Nat /\ DemoHorizon \in Nat
    /\ AccessTtl \in Nat \ {0} /\ RuntimeTtl \in Nat \ {0} /\ HandoffTtl \in Nat \ {0}
    /\ Day \in Nat \ {0}

VARIABLES
    previews,           \* rows of CandidateExperiencePreview
    demoRooms,          \* what the realtime service has for each
    relays,             \* rows of MarketingDemoHandoff
    starts,             \* requests for a room, one per visitor
    handoffs,           \* requests for a handoff, one at a time per visitor
    startedOn,          \* startedCount of MarketingDemoDailyUsage, by day
    demoClock

demoVars == <<previews, demoRooms, relays, starts, handoffs, startedOn, demoClock>>

Days == 0..(DemoHorizon \div Day)
Today == demoClock \div Day

\* `used`: liveTestCount is 1; `runtime`: runtimeExpiresAt, 0 when null; `known`: the
\* realtime session's id is filed.
PreviewRow == [state : {"none", "open", "gone"}, expires : Nat, used : BOOLEAN,
               runtime : Nat, completed : BOOLEAN, known : BOOLEAN]

\* A room is open until its interview ends or its time is up.
RoomRow == [status : {"none", "open", "completed"}, until : Nat, transcript : BOOLEAN]

RelayRow == [state : {"none", "made", "exchanged"}, expires : Nat, shown : BOOLEAN]

DemoInit ==
    /\ previews = [d \in Demos |-> [state |-> "none", expires |-> 0, used |-> FALSE, runtime |-> 0,
                                    completed |-> FALSE, known |-> FALSE]]
    /\ demoRooms = [d \in Demos |-> [status |-> "none", until |-> 0, transcript |-> FALSE]]
    /\ relays = [d \in Demos |-> [state |-> "none", expires |-> 0, shown |-> FALSE]]
    /\ starts = [d \in Demos |-> "idle"]
    /\ handoffs = [d \in Demos |-> "idle"]
    /\ startedOn = [day \in Days |-> 0]
    /\ demoClock = 0

-----------------------------------------------------------------------------
(* Admission                                                                *)

\* createMarketingDemoPreview: a launch nonce is good for one preview.
CreatePreview(d) ==
    /\ previews[d].state = "none"
    /\ previews' = [previews EXCEPT ![d].state = "open", ![d].expires = demoClock + AccessTtl]
    /\ UNCHANGED <<demoRooms, relays, starts, handoffs, startedOn, demoClock>>

\* The demos that count against the limit.
Holding == {d \in Demos : previews[d].state = "open" /\ ~previews[d].completed
                          /\ previews[d].runtime > demoClock}

RoomLeft == Cardinality(Holding) < ConcurrentCap /\ startedOn[Today] < DailyCap

\* reserveMarketingDemoStart, one transaction under the lock of the control row.
ReserveStart(d) ==
    /\ starts[d] = "idle"
    /\ previews[d].state = "open" /\ previews[d].expires > demoClock /\ ~previews[d].used
    /\ RoomLeft
    /\ previews' = [previews EXCEPT ![d].used = TRUE, ![d].runtime = demoClock + RuntimeTtl]
    /\ startedOn' = [startedOn EXCEPT ![Today] = @ + 1]
    /\ starts' = [starts EXCEPT ![d] = "provision"]
    /\ UNCHANGED <<demoRooms, relays, handoffs, demoClock>>

\* Mistake for the checks to catch: a room that was not heard of is taken for none, and the
\* reservation released, as for a recruiter's preview.
ProvisionRoom_Release(d) ==
    LET opened == [demoRooms EXCEPT ![d] =
            [status |-> "open", until |-> previews[d].runtime, transcript |-> TRUE]]
    IN  /\ starts[d] = "provision"
        /\ \/ /\ demoRooms' = opened
              /\ starts' = [starts EXCEPT ![d] = "confirm"]
              /\ UNCHANGED <<previews, startedOn>>
           \/ /\ demoRooms' \in {demoRooms, opened}
              /\ starts' = [starts EXCEPT ![d] = "idle"]
              /\ previews' = [previews EXCEPT ![d].used = FALSE, ![d].runtime = 0]
              /\ startedOn' = [startedOn EXCEPT ![Today] = @ - 1]
        /\ UNCHANGED <<relays, handoffs, demoClock>>

\* The room is asked for, with the end of the reservation. When no answer comes the
\* reservation is kept: there may be a room.
ProvisionRoom(d) ==
    LET opened == [demoRooms EXCEPT ![d] =
            [status |-> "open", until |-> previews[d].runtime, transcript |-> TRUE]]
    IN  /\ starts[d] = "provision"
        /\ \/ demoRooms' = opened /\ starts' = [starts EXCEPT ![d] = "confirm"]
           \/ demoRooms' \in {demoRooms, opened} /\ starts' = [starts EXCEPT ![d] = "done"]
        /\ UNCHANGED <<previews, relays, handoffs, startedOn, demoClock>>

\* confirmMarketingDemoProvisioning
ConfirmRoom(d) ==
    /\ starts[d] = "confirm"
    /\ previews' = IF previews[d].used /\ ~previews[d].known
                   THEN [previews EXCEPT ![d].known = TRUE] ELSE previews
    /\ starts' = [starts EXCEPT ![d] = "done"]
    /\ UNCHANGED <<demoRooms, relays, handoffs, startedOn, demoClock>>

\* The process dies before the room is asked for, or before it is filed.
DropStart(d) ==
    /\ starts[d] \in {"provision", "confirm"}
    /\ starts' = [starts EXCEPT ![d] = "done"]
    /\ UNCHANGED <<previews, demoRooms, relays, handoffs, startedOn, demoClock>>

-----------------------------------------------------------------------------
(* The realtime service: rooms close on time                                *)

Alive(d) == demoRooms[d].status = "open" /\ demoClock < demoRooms[d].until

CompleteDemo(d) ==
    /\ Alive(d)
    /\ demoRooms' = [demoRooms EXCEPT ![d].status = "completed"]
    /\ UNCHANGED <<previews, relays, starts, handoffs, startedOn, demoClock>>

-----------------------------------------------------------------------------
(* The handoff                                                              *)

\* createMarketingDemoHandoff: for a completed demo whose time is not up the relay is
\* made, which the unique key on the preview allows once.
MakeRelay(d) ==
    /\ handoffs[d] = "idle"
    /\ previews[d].state = "open" /\ previews[d].known /\ previews[d].runtime > demoClock
    /\ demoRooms[d].status = "completed"
    /\ relays[d].state = "none"
    /\ relays' = [relays EXCEPT ![d] = [state |-> "made", expires |-> demoClock + HandoffTtl,
                                        shown |-> FALSE]]
    /\ handoffs' = [handoffs EXCEPT ![d] = "erase"]
    /\ UNCHANGED <<previews, demoRooms, starts, startedOn, demoClock>>

NoRelay(d) == relays' = [relays EXCEPT ![d].state = "none"]

\* What was said is erased; failing that the relay goes, for the visitor to try again.
EraseDemo(d) ==
    /\ handoffs[d] = "erase"
    /\ \/ /\ demoRooms' = [demoRooms EXCEPT ![d].transcript = FALSE]
          /\ handoffs' = [handoffs EXCEPT ![d] = "complete"]
          /\ UNCHANGED relays
       \/ /\ demoRooms' \in {demoRooms, [demoRooms EXCEPT ![d].transcript = FALSE]}
          /\ handoffs' = [handoffs EXCEPT ![d] = "idle"]
          /\ NoRelay(d)
    /\ UNCHANGED <<previews, starts, startedOn, demoClock>>

\* The preview is marked and the code shown; failing that the relay goes.
CompleteHandoff(d) ==
    /\ handoffs[d] = "complete"
    /\ \/ /\ previews[d].state = "open"
          /\ previews' = [previews EXCEPT ![d].completed = TRUE, ![d].runtime = relays[d].expires]
          /\ relays' = [relays EXCEPT ![d].shown = TRUE]
       \/ NoRelay(d) /\ UNCHANGED previews
    /\ handoffs' = [handoffs EXCEPT ![d] = "idle"]
    /\ UNCHANGED <<demoRooms, starts, startedOn, demoClock>>

\* The process dies: the relay stays, and nobody knows its code.
DropHandoff(d) ==
    /\ handoffs[d] # "idle"
    /\ handoffs' = [handoffs EXCEPT ![d] = "idle"]
    /\ UNCHANGED <<previews, demoRooms, relays, starts, startedOn, demoClock>>

\* exchangeMarketingDemoHandoff: the relay, the session and the preview are deleted in
\* the transaction that gives the website its answer.
ExchangeRelay(d) ==
    /\ relays[d].state = "made" /\ relays[d].shown /\ relays[d].expires > demoClock
    /\ relays' = [relays EXCEPT ![d].state = "exchanged"]
    /\ previews' = [previews EXCEPT ![d].state = "gone"]
    /\ UNCHANGED <<demoRooms, starts, handoffs, startedOn, demoClock>>

PassDemoTime ==
    /\ demoClock < DemoHorizon
    /\ demoClock' = demoClock + 1
    /\ UNCHANGED <<previews, demoRooms, relays, starts, handoffs, startedOn>>

-----------------------------------------------------------------------------
DemoNext ==
    \/ \E d \in Demos :
          \/ CreatePreview(d) \/ ReserveStart(d) \/ ProvisionRoom(d) \/ ConfirmRoom(d) \/ DropStart(d)
          \/ CompleteDemo(d)
          \/ MakeRelay(d) \/ EraseDemo(d) \/ CompleteHandoff(d) \/ DropHandoff(d) \/ ExchangeRelay(d)
    \/ PassDemoTime

DemoSpec == DemoInit /\ [][DemoNext]_demoVars

-----------------------------------------------------------------------------
DemoTypeOK ==
    /\ previews \in [Demos -> PreviewRow]
    /\ demoRooms \in [Demos -> RoomRow]
    /\ relays \in [Demos -> RelayRow]
    /\ starts \in [Demos -> {"idle", "provision", "confirm", "done"}]
    /\ handoffs \in [Demos -> {"idle", "erase", "complete"}]
    /\ startedOn \in [Days -> Nat]
    /\ demoClock \in 0..DemoHorizon

\* The rooms that are really open to visitors, those nobody heard of included, are never
\* more than the limit; nor are those that were let in on one day.
DemoRoomsWithinCap ==
    /\ Cardinality({d \in Demos : Alive(d)}) <= ConcurrentCap
    /\ \A day \in Days :
          Cardinality({d \in Demos : demoRooms[d].status # "none"
                                      /\ (demoRooms[d].until - RuntimeTtl) \div Day = day}) <= DailyCap

\* A visitor who gets a code has had what they said erased: the website learns of a demo
\* only that it took place.
CodeMeansErased ==
    \A d \in Demos : relays[d].shown => ~demoRooms[d].transcript

\* What the public demo may cost, and what it may keep.
DemoIsContained == DemoRoomsWithinCap /\ CodeMeansErased
\* The demo is contained, and rows are of their types.
DemoInv == DemoTypeOK /\ DemoIsContained
=============================================================================
