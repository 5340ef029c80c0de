------------------------------ MODULE Recording ------------------------------
(***************************************************************************)
(* The audio of one interview: started when the candidate's microphone is  *)
(* live, stopped with the session, finalized by a webhook or by the        *)
(* reconciler, erased by the retention sweep or on request (service.go,    *)
(* postgres.go, main.go of the realtime service).                          *)
(*                                                                         *)
(* Three stores hold a part of it and no transaction spans them: the rows  *)
(* of live_interview_recordings, LiveKit's egress and the audio object in  *)
(* the bucket.  Every step below touches one of them.                      *)
(***************************************************************************)
EXTENDS SessionLog

CONSTANTS
    Tabs,           \* browser tabs of the candidate, writers of the log
    Handlers,       \* requests of the realtime service busy with a recording
    Sweepers,       \* whoever erases: the retention ticker, an erasure request
    Retention,      \* the sweeper that is the retention ticker
    Egresses,       \* LiveKit recordings that can ever be started
    Nothing,        \* no recording
    MaxUpsets       \* failed calls and restarts the model explores

ASSUME RecordingAssumption ==
    /\ Agent \notin Tabs
    /\ Writers = Tabs \cup {Agent}
    /\ Retention \in Sweepers
    /\ Nothing \notin Egresses
    /\ MaxUpsets \in Nat

VARIABLES
    tabs,           \* what each browser tab is about to post
    rows,           \* recording rows, by the egress they were made for
    egress,         \* what LiveKit says of each egress
    objects,        \* egresses whose audio object is in the bucket
    webhooks,       \* egress_ended notifications not yet delivered
    handlers,       \* what each request has left to do
    sweeps,         \* what each sweeper has left to erase
    upsets          \* calls failed so far

recorderVars == <<tabs, rows, egress, objects, webhooks, handlers, sweeps, upsets>>

recordingVars == <<session, lag, recorderVars>>

-----------------------------------------------------------------------------
\* `tracked` is the egress id, `stale` that the row is older than the
\* reconciler's ten minutes, `due` that its retention window is over.
Row == [status : {"none", "recording", "available", "failed", "deleted"},
        tracked : BOOLEAN, stale : BOOLEAN, due : BOOLEAN]

NoRecording == [status |-> "none", tracked |-> FALSE, stale |-> FALSE, due |-> FALSE]

\* "complete" has a second of audio, "short" has less, "limit" ran into
\* LiveKit's own limit; all three leave a file, "aborted" leaves none.
EgressStatus == {"none", "active", "complete", "short", "limit", "aborted"}

OverStates == {"complete", "short", "limit", "aborted"}

Handler == [pc : {"idle", "check", "start", "save", "stop"}, egress : Egresses \cup {Nothing}]

NoHandling == [pc |-> "idle", egress |-> Nothing]

Sweep == [pc : {"idle", "rows", "tombstone", "events"}, todo : SUBSET Egresses,
          seen : [Egresses -> Row], row : Egresses \cup {Nothing}]

AtRest == [pc |-> "idle", todo |-> {}, seen |-> [e \in Egresses |-> NoRecording], row |-> Nothing]

RecorderInit ==
    /\ tabs = [t \in Tabs |-> "none"]
    /\ rows = [e \in Egresses |-> NoRecording]
    /\ egress = [e \in Egresses |-> "none"]
    /\ objects = {}
    /\ webhooks = {}
    /\ handlers = [h \in Handlers |-> NoHandling]
    /\ sweeps = [s \in Sweepers |-> AtRest]
    /\ upsets = 0

RecordingInit == LogInit /\ RecorderInit

Upset == upsets < MaxUpsets /\ upsets' = upsets + 1

-----------------------------------------------------------------------------
(* The candidate's browser, through the candidate app's events route.      *)

\* The route reads the log, answers a type it already holds, and numbers the
\* event by the events it has seen.
ReadLog(t, type) ==
    /\ tabs[t] = "none"
    /\ type \notin session.types
    /\ type = "candidate_media_ready" => "candidate_joined" \in session.types
    /\ tabs' = [tabs EXCEPT ![t] = type]
    /\ lag' = [lag EXCEPT ![t] = 0]
    /\ UNCHANGED <<session, rows, egress, objects, webhooks, handlers, sweeps, upsets>>

\* Whatever the answer, the route is done: a refusal is a 502 to the browser,
\* which asks again.  An accepted candidate_media_ready goes on to the recorder.
PostFromTab(t) ==
    /\ tabs[t] # "none"
    /\ tabs' = [tabs EXCEPT ![t] = "none"]
    /\ IF Accepts(t, tabs[t], TRUE)
       THEN /\ AppendEvent(t, tabs[t])
            /\ IF tabs[t] = "candidate_media_ready"
               THEN \E h \in Handlers :
                       /\ handlers[h] = NoHandling
                       /\ handlers' = [handlers EXCEPT ![h].pc = "check"]
               ELSE UNCHANGED handlers
       ELSE UNCHANGED <<session, lag, handlers>>
    /\ UNCHANGED <<rows, egress, objects, webhooks, sweeps, upsets>>

\* The agent counts the events before it joins and numbers on from there.
AgentJoins ==
    /\ "candidate_media_ready" \in session.types
    /\ CanApplyEvent(session.status, "agent_joined")
    /\ session' = [session EXCEPT !.status = ValidStatusForEvent("agent_joined", @),
                                  !.types = @ \cup {"agent_joined"}]
    /\ lag' = [w \in Writers |-> IF w = Agent THEN 0 ELSE Clip(lag[w] - 1)]
    /\ UNCHANGED <<tabs, rows, egress, objects, webhooks, handlers, sweeps, upsets>>

\* The interview ends; the request that appended the event stops the recording.
AgentEnds(type) ==
    /\ "agent_joined" \in session.types
    /\ Accepts(Agent, type, TRUE)
    /\ AppendEvent(Agent, type)
    /\ \E h \in Handlers :
          /\ handlers[h] = NoHandling
          /\ handlers' = [handlers EXCEPT ![h].pc = "stop"]
    /\ UNCHANGED <<tabs, rows, egress, objects, webhooks, sweeps, upsets>>

-----------------------------------------------------------------------------
(* Starting and stopping.                                                  *)

ActiveRecordings == {e \in Egresses : rows[e].status = "recording"}

Unstarted == {e \in Egresses : egress[e] = "none" /\ rows[e].status = "none"}

HandlerAt(h, pc) == handlers[h].pc = pc

\* startRecordingIfNeeded up to its last question, whether a recording is
\* already active.  (Consent, entitlement and the kind of session are decided
\* before the interview: here the recording is wanted.)
CheckActive(h) ==
    /\ HandlerAt(h, "check")
    /\ handlers' = [handlers EXCEPT ![h] = IF ActiveRecordings = {} THEN [@ EXCEPT !.pc = "start"]
                                                                    ELSE NoHandling]
    /\ UNCHANGED <<session, lag, tabs, rows, egress, objects, webhooks, sweeps, upsets>>

\* StartEgress answers, or fails and leaves a failed row without an egress id;
\* a failure may be an answer that was lost, and LiveKit records all the same.
StartEgress(h) ==
    /\ HandlerAt(h, "start")
    /\ \E e \in Unstarted :
          \/ /\ egress' = [egress EXCEPT ![e] = "active"]
             /\ handlers' = [handlers EXCEPT ![h] = [pc |-> "save", egress |-> e]]
             /\ UNCHANGED <<rows, upsets>>
          \/ /\ Upset
             /\ \/ UNCHANGED egress
                \/ egress' = [egress EXCEPT ![e] = "active"]
             /\ rows' = [rows EXCEPT ![e] = [NoRecording EXCEPT !.status = "failed"]]
             /\ handlers' = [handlers EXCEPT ![h] = NoHandling]
    /\ UNCHANGED <<session, lag, tabs, objects, webhooks, sweeps>>

\* CreateRecording; its failure is only logged.
SaveRecording(h) ==
    /\ HandlerAt(h, "save")
    /\ \/ /\ rows' = [rows EXCEPT ![handlers[h].egress] =
                         [NoRecording EXCEPT !.status = "recording", !.tracked = TRUE]]
          /\ UNCHANGED upsets
       \/ Upset /\ UNCHANGED rows
    /\ handlers' = [handlers EXCEPT ![h] = NoHandling]
    /\ UNCHANGED <<session, lag, tabs, egress, objects, webhooks, sweeps>>

\* FinalizeRecording: available is a completed egress not known to be too short.
FinalStatus(outcome) == IF outcome = "complete" THEN "available" ELSE "failed"

\* Mistake for the checks to catch: the last word wins, whatever the row says.
Finalized_AnyRow(e, outcome) == [rows EXCEPT ![e].status = FinalStatus(outcome)]

\* FinalizeRecordingByEgressID: only a row still recording.
Finalized(e, outcome) ==
    IF rows[e].tracked /\ rows[e].status = "recording"
    THEN [rows EXCEPT ![e].status = FinalStatus(outcome)]
    ELSE rows

\* An egress that ended: its file is in the bucket, its notification is sent.
Ends(e, outcome) ==
    /\ egress' = [egress EXCEPT ![e] = outcome]
    /\ objects' = IF outcome = "aborted" THEN objects ELSE objects \cup {e}
    /\ webhooks' = webhooks \cup {e}

\* StopEgress and what follows it.  LiveKit usually answers that the egress is
\* ending, and ends it later; when it answers a final state the row is
\* finalized at once.
StopAndFinalize(e) ==
    \/ /\ egress[e] \in OverStates
       /\ rows' = Finalized(e, egress[e])
       /\ UNCHANGED <<egress, objects, webhooks, upsets>>
    \/ /\ egress[e] = "active"
       /\ \E outcome \in OverStates : Ends(e, outcome)
       /\ UNCHANGED <<rows, upsets>>
    \/ /\ Upset
       /\ UNCHANGED <<rows, egress, objects, webhooks>>

StopRecording(h) ==
    /\ HandlerAt(h, "stop")
    /\ handlers' = [handlers EXCEPT ![h] = NoHandling]
    /\ IF ActiveRecordings = {}
       THEN UNCHANGED <<rows, egress, objects, webhooks, upsets>>
       ELSE \E e \in ActiveRecordings : StopAndFinalize(e)
    /\ UNCHANGED <<session, lag, tabs, sweeps>>

\* LiveKit ends an egress by itself: the room empties, its limit, an error.
EgressEnds(e) ==
    /\ egress[e] = "active"
    /\ \E outcome \in OverStates : Ends(e, outcome)
    /\ UNCHANGED <<session, lag, tabs, rows, handlers, sweeps, upsets>>

\* egress_ended is delivered: a row that is not there yet is not waited for.
EgressWebhook(e) ==
    /\ e \in webhooks
    /\ webhooks' = webhooks \ {e}
    /\ rows' = Finalized(e, egress[e])
    /\ UNCHANGED <<session, lag, tabs, egress, objects, handlers, sweeps, upsets>>

WebhookLost(e) ==
    /\ e \in webhooks
    /\ Upset
    /\ webhooks' = webhooks \ {e}
    /\ UNCHANGED <<session, lag, tabs, rows, egress, objects, handlers, sweeps>>

-----------------------------------------------------------------------------
(* The ticker: reconciliation, then retention.                             *)

\* Ten minutes pass, or the retention window does.
Ages(e) ==
    /\ \/ /\ rows[e].status = "recording" /\ ~rows[e].stale
          /\ rows' = [rows EXCEPT ![e].stale = TRUE]
       \/ /\ rows[e].status \in {"available", "failed"} /\ ~rows[e].due
          /\ rows' = [rows EXCEPT ![e].due = TRUE]
    /\ UNCHANGED <<session, lag, tabs, egress, objects, webhooks, handlers, sweeps, upsets>>

\* Mistake for the checks to catch: the reconciler asks about rows whose
\* notification it still waits for.
StaleRecordings_Notified == {e \in Egresses : rows[e].status = "recording" /\ rows[e].stale
                                                 /\ e \in webhooks}

StaleRecordings == {e \in Egresses : rows[e].status = "recording" /\ rows[e].stale}

\* ReconcileRecordings on one row; a GetEgress that fails leaves it for the
\* next tick.
Reconcile(e) ==
    /\ e \in StaleRecordings
    /\ rows[e].tracked
    /\ egress[e] \in OverStates
    /\ rows' = Finalized(e, egress[e])
    /\ UNCHANGED <<session, lag, tabs, egress, objects, webhooks, handlers, sweeps, upsets>>

DeletableRecordings == {e \in Egresses : rows[e].status = "available" /\ rows[e].due}

\* Both sweepers read their list once and work through the copy.
BeginSweep(s) ==
    /\ sweeps[s] = AtRest
    /\ LET list == IF s = Retention THEN DeletableRecordings
                   ELSE {e \in Egresses : rows[e].status # "none"}
       IN  /\ s = Retention => list # {}
           /\ sweeps' = [sweeps EXCEPT ![s] =
                            [pc |-> "rows", todo |-> list, seen |-> rows, row |-> Nothing]]
    /\ UNCHANGED <<session, lag, tabs, rows, egress, objects, webhooks, handlers, upsets>>

\* Mistake for the checks to catch: what is still being recorded is erased too.
Erasable_InFlight(row) == row.status # "deleted"

\* What EraseRecordingsForSession and the retention sweep delete, by their copy
\* of the row.
Erasable(row) == row.status \in {"available", "failed"}

\* One row of the sweep.  An erasable one loses its object now and becomes a
\* tombstone in a step of its own; one in flight is only stopped; an error of
\* the bucket is logged and the sweep goes on.
SweepRow(s) ==
    /\ sweeps[s].pc = "rows"
    /\ \E e \in sweeps[s].todo :
          LET rest == [sweeps[s] EXCEPT !.todo = @ \ {e}]
              row == sweeps[s].seen[e]
          IN  \/ /\ Erasable(row)
                 /\ objects' = objects \ {e}
                 /\ sweeps' = [sweeps EXCEPT ![s] = [rest EXCEPT !.pc = "tombstone", !.row = e]]
                 /\ UNCHANGED <<rows, egress, webhooks, upsets>>
              \/ /\ Erasable(row)
                 /\ Upset
                 /\ sweeps' = [sweeps EXCEPT ![s] = rest]
                 /\ UNCHANGED <<rows, egress, objects, webhooks>>
              \/ /\ ~Erasable(row)
                 /\ sweeps' = [sweeps EXCEPT ![s] = rest]
                 /\ IF row.status = "recording" /\ row.tracked
                    THEN StopAndFinalize(e)
                    ELSE UNCHANGED <<rows, egress, objects, webhooks, upsets>>
    /\ UNCHANGED <<session, lag, tabs, handlers>>

\* MarkRecordingDeleted, whatever the row says by now.
Tombstone(s) ==
    /\ sweeps[s].pc = "tombstone"
    /\ rows' = [rows EXCEPT ![sweeps[s].row].status = "deleted"]
    /\ sweeps' = [sweeps EXCEPT ![s].pc = "rows", ![s].row = Nothing]
    /\ UNCHANGED <<session, lag, tabs, egress, objects, webhooks, handlers, upsets>>

\* The list is done.  An erasure request goes on to the transcript, whether the
\* audio could be erased or not: DeleteEventsForSession, which puts the count
\* of events, and so the next number, back to the start.
EndSweep(s) ==
    /\ sweeps[s].pc = "rows"
    /\ sweeps[s].todo = {}
    /\ sweeps' = [sweeps EXCEPT ![s] = AtRest]
    /\ IF s = Retention
       THEN UNCHANGED <<session, lag>>
       ELSE /\ session' = [session EXCEPT !.types = {}]
            /\ lag' = [w \in Writers |-> Clip(lag[w] + Cardinality(session.types))]
    /\ UNCHANGED <<tabs, rows, egress, objects, webhooks, handlers, upsets>>

\* The service restarts: every request and every sweep of it is forgotten.
Restart ==
    /\ Upset
    /\ handlers' = [h \in Handlers |-> NoHandling]
    /\ sweeps' = [s \in Sweepers |-> AtRest]
    /\ UNCHANGED <<session, lag, tabs, rows, egress, objects, webhooks>>

-----------------------------------------------------------------------------
RecordingNext ==
    \/ \E t \in Tabs : PostFromTab(t) \/ \E type \in CandidateTypes : ReadLog(t, type)
    \/ AgentJoins
    \/ \E type \in {"session_completed", "session_failed"} : AgentEnds(type)
    \/ \E h \in Handlers : CheckActive(h) \/ StartEgress(h) \/ SaveRecording(h) \/ StopRecording(h)
    \/ \E e \in Egresses : EgressEnds(e) \/ EgressWebhook(e) \/ WebhookLost(e)
                              \/ Ages(e) \/ Reconcile(e)
    \/ \E s \in Sweepers : BeginSweep(s) \/ SweepRow(s) \/ Tombstone(s) \/ EndSweep(s)
    \/ Restart

\* The five-minute ticker of main.go keeps running and time passes; LiveKit
\* ends an egress when the room empties.  No candidate, webhook or erasure
\* request is owed to anyone.
RecordingFairness ==
    \A e \in Egresses :
        /\ WF_recordingVars(EgressEnds(e))
        /\ WF_recordingVars(Ages(e))
        /\ WF_recordingVars(Reconcile(e))

\* The retention half of the ticker.
RetentionFairness ==
    /\ WF_recordingVars(BeginSweep(Retention))
    /\ WF_recordingVars(SweepRow(Retention))
    /\ WF_recordingVars(Tombstone(Retention))
    /\ WF_recordingVars(EndSweep(Retention))

RecordingSpec ==
    RecordingInit /\ [][RecordingNext]_recordingVars /\ RecordingFairness /\ RetentionFairness

-----------------------------------------------------------------------------
\* The state is of its type, and what a row says of its egress is true: an
\* available recording is a completed one, a tracked one did start.
RecordingTypeOK ==
    /\ LogTypeOK
    /\ tabs \in [Tabs -> CandidateTypes \cup {"none"}]
    /\ rows \in [Egresses -> Row]
    /\ egress \in [Egresses -> EgressStatus]
    /\ objects \subseteq Egresses
    /\ webhooks \subseteq Egresses
    /\ handlers \in [Handlers -> Handler]
    /\ sweeps \in [Sweepers -> Sweep]
    /\ upsets \in 0 .. MaxUpsets
    /\ \A e \in Egresses : /\ rows[e].status = "available" => egress[e] = "complete"
                           /\ rows[e].tracked => egress[e] # "none"

\* A candidate is recorded once at a time, whichever tabs report a microphone
\* and in whatever order: two requests that each found no active recording
\* would both start one (service.go:658).
OneEgressAtATime == Cardinality({e \in Egresses : egress[e] = "active"}) <= 1

\* A tombstone is never written over audio that exists or is still to land
\* (service.go:1005 "we never tombstone a row whose audio still exists"): a
\* deleted row with an egress id has no object, and its egress is over.
TombstonesHaveNoAudio ==
    \A e \in Egresses :
        rows[e].status = "deleted" /\ rows[e].tracked => e \notin objects /\ egress[e] \in OverStates

\* One recording at a time, whose row says the truth of it and of its audio.
RecordingInv == RecordingTypeOK /\ OneEgressAtATime /\ TombstonesHaveNoAudio

\* What a reader of the rows and the bucket sees of a recording that has an
\* egress id.
Audio(e) == CASE ~rows[e].tracked -> "unknown"
              [] rows[e].tracked /\ egress[e] = "active" -> "coming"
              [] rows[e].tracked /\ egress[e] # "active" ->
                    IF e \in objects THEN "there" ELSE "none"

Life == INSTANCE RecordingLife WITH life <- [e \in Egresses |-> rows[e].status],
                                    audio <- [e \in Egresses |-> Audio(e)]

\* The rows and the bucket keep the promise of RecordingLife: whatever late
\* webhook, reconciliation, sweep and erasure race each other, a fate is sealed
\* once, by the audio there is, and nothing is called deleted that has audio.
KeepsItsPromise == Life!LifeSpec

\* The reconciler is the backstop of the webhook: whatever is lost, every
\* recording the database knows of is finalized in the end.
RecordingsSettle ==
    \A e \in Egresses : rows[e].status = "recording" ~> rows[e].status # "recording"
=============================================================================
