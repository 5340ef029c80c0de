---------------------------- MODULE RecordingProofs ----------------------------
(***************************************************************************)
(* An interview is recorded once, its row says the truth of the recording, *)
(* and the rows and the bucket keep the promise of RecordingLife, for any  *)
(* number of tabs, requests, sweepers, egresses and failures.              *)
(***************************************************************************)
EXTENDS Recording, FiniteSetTheorems, TLAPS

\* The log begins with the candidate, and no event is taken twice.
LogInOrder ==
    /\ session.status # "created"
    /\ session.types # {} => "candidate_joined" \in session.types
    /\ session.types # {} => session.status # "waiting_candidate"
    /\ "agent_joined" \in session.types => session.status # "agent_joining"
    /\ session.types \cap {"session_completed", "session_failed"} # {} => session.status \in Terminal
    /\ session.types \subseteq EventTypes \ {"session_started", "talk"}

\* A media_ready that is still on its way was numbered after a candidate_joined: an
\* erasure of the log puts its number out of reach.
LateMediaReady ==
    \A t \in Tabs : tabs[t] = "candidate_media_ready" => lag[t] + Cardinality(session.types) >= 1

\* The log can still take a media_ready.
BeforeMedia ==
    /\ "candidate_media_ready" \notin session.types
    /\ session.types = {} => session.status = "waiting_candidate"

Begins(h) == handlers[h].pc \in {"check", "start", "save"}

Started == {e \in Egresses : egress[e] # "none"}

\* One request in the life of a session comes to start a recording, and starts one.
OneBeginning ==
    /\ BeforeMedia => (\A h \in Handlers : ~Begins(h)) /\ Started = {}
    /\ \A h, k \in Handlers : Begins(h) /\ Begins(k) => h = k
    /\ \A h \in Handlers : handlers[h].pc \in {"check", "start"} => Started = {}
    /\ \A h \in Handlers : handlers[h].pc = "save" =>
           /\ handlers[h].egress \in Started
           /\ rows[handlers[h].egress] = NoRecording
    /\ \A e, f \in Started : e = f

HasFile == {"complete", "short", "limit"}

Fate == {"available", "failed", "deleted"}

\* A row, its egress and its object.
RowTellsTruth(e) ==
    /\ rows[e].status = "none" => rows[e] = NoRecording
    /\ rows[e].status = "available" => egress[e] = "complete"
    /\ rows[e].tracked => egress[e] # "none"
    /\ rows[e].tracked /\ rows[e].status # "recording" => egress[e] \in OverStates
    /\ egress[e] \in {"none", "active"} => e \notin objects
    /\ rows[e].status \in {"none", "recording"} /\ egress[e] \in HasFile => e \in objects
    /\ rows[e].status = "deleted" /\ rows[e].tracked => e \notin objects
    /\ e \in webhooks => egress[e] \in OverStates

RowsOK ==
    /\ rows \in [Egresses -> Row]
    /\ egress \in [Egresses -> EgressStatus]
    /\ objects \subseteq Egresses
    /\ webhooks \subseteq Egresses
    /\ \A e \in Egresses : RowTellsTruth(e)

\* What a sweeper read of a row that could be erased is still so, and of the one whose
\* object it has deleted there is none.
SweepStandsBy(s) ==
    /\ \A e \in sweeps[s].todo : Erasable(sweeps[s].seen[e]) => rows[e].status \in Fate
    /\ sweeps[s].pc = "tombstone" =>
         /\ sweeps[s].row \in Egresses
         /\ rows[sweeps[s].row].status \in Fate
         /\ rows[sweeps[s].row].tracked => sweeps[s].row \notin objects

RecordingIInv ==
    /\ RecordingTypeOK
    /\ LogInOrder
    /\ LateMediaReady
    /\ OneBeginning
    /\ RowsOK
    /\ \A s \in Sweepers : SweepStandsBy(s)

-----------------------------------------------------------------------------
(* What a step may do to the row, the egress and the object of a recording. *)

\* Whatever has a fate keeps one, and audio that is gone does not come back to it.
FatesLast ==
    \A e \in Egresses :
        rows[e].status \in Fate =>
            /\ rows'[e].status \in Fate
            /\ rows'[e].tracked = rows[e].tracked
            /\ rows[e].tracked /\ e \notin objects => e \notin objects'

\* No recording is started, and the row of one that was is not written yet.
NothingBegins ==
    /\ \A e \in Egresses : egress'[e] = "none" <=> egress[e] = "none"
    /\ \A e \in Egresses : rows[e] = NoRecording => rows'[e] = NoRecording

\* A step of the life of a recording, as RecordingLife has it.
LifeStep == [Life!LifeNext]_(Life!lifeVars)

\* What an egress has before its row is written.
LEMMA NoRecordingHas == NoRecording.status = "none" /\ ~NoRecording.tracked
  BY DEF NoRecording

\* A step that moves one egress along, or none, is a step of the abstract specification.
LEMMA LifeOfOne ==
    ASSUME \/ \E e \in Egresses :
                \/ Life!BeginRecording(e) \/ Life!GiveUp(e) \/ Life!Arrive(e)
                \/ Life!Seal(e) \/ Life!RemoveAudio(e) \/ Life!CallDeleted(e)
           \/ \A e \in Egresses : rows'[e].status = rows[e].status /\ Audio(e)' = Audio(e)
    PROVE  LifeStep
  BY DEF LifeStep, Life!LifeNext, Life!lifeVars

\* Nothing changes but that notifications are delivered or lost.
LEMMA RowsRest ==
    ASSUME RowsOK, UNCHANGED <<rows, egress, objects>>, webhooks' \subseteq webhooks
    PROVE  RowsOK' /\ FatesLast /\ NothingBegins /\ LifeStep
<1>1. LifeStep
  BY LifeOfOne DEF Audio
<1> QED
  BY <1>1 DEF RowsOK, RowTellsTruth, FatesLast, NothingBegins

\* FinalizeRecordingByEgressID on an egress that is over.
LEMMA RowIsFinalized ==
    ASSUME RowsOK, NEW e \in Egresses, egress[e] \in OverStates,
           rows' = Finalized(e, egress[e]), UNCHANGED <<egress, objects>>,
           webhooks' \subseteq webhooks
    PROVE  RowsOK' /\ FatesLast /\ NothingBegins /\ LifeStep
<1>1. CASE ~(rows[e].tracked /\ rows[e].status = "recording")
  BY <1>1, RowsRest DEF Finalized
<1>2. CASE rows[e].tracked /\ rows[e].status = "recording"
  <2>1. rows' = [rows EXCEPT ![e].status = FinalStatus(egress[e])]
    BY <1>2 DEF Finalized
  <2>2. /\ rows' \in [Egresses -> Row]
        /\ rows'[e].status = FinalStatus(egress[e]) /\ rows'[e].tracked
        /\ \A f \in Egresses \ {e} : rows'[f] = rows[f]
    BY <1>2, <2>1 DEF RowsOK, Row, FinalStatus
  <2>3. RowsOK'
    BY <1>2, <2>2 DEF RowsOK, RowTellsTruth, FinalStatus, HasFile, OverStates
  <2>4. FatesLast /\ NothingBegins
    BY <1>2, <2>2 DEF FatesLast, NothingBegins, NoRecording, Fate
  <2>5. Audio(e) \in {"there", "none"} /\ (egress[e] = "complete" => Audio(e) = "there")
    BY <1>2 DEF Audio, OverStates, RowsOK, RowTellsTruth, HasFile
  <2>6. \A f \in Egresses : Audio(f)' = Audio(f)
    BY <1>2, <2>2 DEF Audio
  <2>7. Life!Seal(e)
    BY <1>2, <2>2, <2>5, <2>6 DEF Life!Seal, FinalStatus
  <2> QED
    BY <2>3, <2>4, <2>7, LifeOfOne
<1> QED
  BY <1>1, <1>2

\* An egress ends, and leaves its file or none.
LEMMA EgressIsOver ==
    ASSUME RowsOK, NEW e \in Egresses, egress[e] = "active", NEW outcome \in OverStates,
           Ends(e, outcome), UNCHANGED rows
    PROVE  RowsOK' /\ FatesLast /\ NothingBegins /\ LifeStep
<1>1. /\ egress' \in [Egresses -> EgressStatus]
      /\ egress'[e] = outcome
      /\ \A f \in Egresses \ {e} : egress'[f] = egress[f] /\ (f \in objects' <=> f \in objects)
      /\ objects' \subseteq Egresses
      /\ e \in objects' <=> outcome # "aborted"
      /\ webhooks' = webhooks \cup {e}
  BY DEF RowsOK, RowTellsTruth, Ends, OverStates, EgressStatus
<1>2. RowsOK'
  BY <1>1 DEF RowsOK, RowTellsTruth, OverStates, HasFile
<1>3. FatesLast /\ NothingBegins
  BY <1>1 DEF FatesLast, NothingBegins, OverStates, RowsOK, RowTellsTruth, Fate
<1>4. \A f \in Egresses \ {e} : Audio(f)' = Audio(f)
  BY <1>1 DEF Audio
<1>5. CASE rows[e].tracked
  <2>1. Audio(e) = "coming" /\ Audio(e)' \in {"there", "none"}
    BY <1>1, <1>5 DEF Audio, OverStates
  <2>2. Life!Arrive(e)
    BY <1>4, <2>1 DEF Life!Arrive
  <2> QED
    BY <1>2, <1>3, <2>2, LifeOfOne
<1>6. CASE ~rows[e].tracked
  BY <1>2, <1>3, <1>4, <1>6, LifeOfOne DEF Audio
<1> QED
  BY <1>5, <1>6

\* Time passes over a row.
LEMMA RowAges ==
    ASSUME RowsOK, NEW e \in Egresses, Ages(e)
    PROVE  RowsOK' /\ FatesLast /\ NothingBegins /\ LifeStep
<1>1. /\ rows' \in [Egresses -> Row]
      /\ \A f \in Egresses : rows'[f].status = rows[f].status /\ rows'[f].tracked = rows[f].tracked
      /\ \A f \in Egresses : rows[f].status = "none" => rows'[f] = rows[f]
  <2>1. rows[e] \in Row /\ rows \in [Egresses -> Row]
    BY DEF RowsOK
  <2>2. PICK row : /\ row = [rows[e] EXCEPT !.stale = TRUE] \/ row = [rows[e] EXCEPT !.due = TRUE]
                   /\ rows' = [rows EXCEPT ![e] = row]
    BY DEF Ages
  <2>3. rows[e].status # "none"
    BY DEF Ages
  <2>4. row \in Row /\ row.status = rows[e].status /\ row.tracked = rows[e].tracked
    BY <2>1, <2>2 DEF Row
  <2>5. /\ rows' \in [Egresses -> Row] /\ rows'[e] = row
        /\ \A f \in Egresses \ {e} : rows'[f] = rows[f]
    BY <2>1, <2>2, <2>4
  <2>6. QED
    BY <2>3, <2>4, <2>5
<1>2. RowsOK'
  BY <1>1 DEF RowsOK, RowTellsTruth, Ages
<1>3. FatesLast /\ NothingBegins
  BY <1>1 DEF FatesLast, NothingBegins, Ages, NoRecording
<1>4. LifeStep
  BY <1>1, LifeOfOne DEF Audio, Ages
<1> QED
  BY <1>2, <1>3, <1>4

\* The object of a recording whose fate is sealed is deleted.
LEMMA ObjectIsErased ==
    ASSUME RowsOK, NEW e \in Egresses, rows[e].status \in Fate, objects' = objects \ {e},
           UNCHANGED <<rows, egress, webhooks>>
    PROVE  RowsOK' /\ FatesLast /\ NothingBegins /\ LifeStep
<1>1. RowsOK'
  BY DEF RowsOK, RowTellsTruth, Fate
<1>2. FatesLast /\ NothingBegins
  BY DEF FatesLast, NothingBegins
<1>3. \A f \in Egresses \ {e} : Audio(f)' = Audio(f)
  BY DEF Audio
<1>4. CASE rows[e].tracked /\ e \in objects
  <2>1. Audio(e) = "there" /\ Audio(e)' = "none"
    BY <1>4 DEF Audio, RowsOK, RowTellsTruth, Fate, OverStates
  <2>2. Life!RemoveAudio(e)
    BY <1>3, <2>1 DEF Life!RemoveAudio, Fate
  <2> QED
    BY <1>1, <1>2, <2>2, LifeOfOne
<1>5. CASE ~(rows[e].tracked /\ e \in objects)
  BY <1>1, <1>2, <1>3, <1>5, LifeOfOne DEF Audio
<1> QED
  BY <1>4, <1>5

\* MarkRecordingDeleted on a row whose audio is gone, if it ever had any.
LEMMA RowIsDeleted ==
    ASSUME RowsOK, NEW e \in Egresses, rows[e].status \in Fate,
           rows[e].tracked => e \notin objects,
           rows' = [rows EXCEPT ![e].status = "deleted"], UNCHANGED <<egress, objects, webhooks>>
    PROVE  RowsOK' /\ FatesLast /\ NothingBegins /\ LifeStep
<1>1. /\ rows' \in [Egresses -> Row]
      /\ rows'[e].status = "deleted" /\ rows'[e].tracked = rows[e].tracked
      /\ \A f \in Egresses \ {e} : rows'[f] = rows[f]
  BY DEF RowsOK, Row
<1>2. RowsOK'
  BY <1>1 DEF RowsOK, RowTellsTruth, Fate
<1>3. FatesLast /\ NothingBegins
  BY <1>1, NoRecordingHas DEF FatesLast, NothingBegins, Fate
<1>4. \A f \in Egresses : Audio(f)' = Audio(f)
  BY <1>1 DEF Audio
<1>5. Audio(e) \in {"none", "unknown"}
  BY DEF Audio, RowsOK, RowTellsTruth, Fate, OverStates
<1>6. CASE rows[e].status = "deleted"
  BY <1>1, <1>2, <1>3, <1>4, <1>6, LifeOfOne
<1>7. CASE rows[e].status # "deleted"
  <2>1. Life!CallDeleted(e)
    BY <1>1, <1>4, <1>5, <1>7 DEF Life!CallDeleted, Life!Sealed, Fate
  <2> QED
    BY <1>2, <1>3, <2>1, LifeOfOne
<1> QED
  BY <1>6, <1>7

\* LiveKit begins to record.
LEMMA EgressBegins ==
    ASSUME RowsOK, NEW e \in Unstarted, egress' = [egress EXCEPT ![e] = "active"],
           UNCHANGED <<rows, objects, webhooks>>
    PROVE  RowsOK' /\ FatesLast /\ LifeStep
<1>1. /\ egress' \in [Egresses -> EgressStatus]
      /\ egress'[e] = "active"
      /\ \A f \in Egresses \ {e} : egress'[f] = egress[f]
      /\ e \in Egresses /\ rows[e] = NoRecording
  BY DEF RowsOK, RowTellsTruth, EgressStatus, Unstarted
<1>2. RowsOK'
  BY <1>1 DEF RowsOK, RowTellsTruth, NoRecording, OverStates, HasFile, Unstarted
<1>3. FatesLast
  BY DEF FatesLast
<1>4. LifeStep
  BY <1>1, LifeOfOne DEF Audio, NoRecording
<1> QED
  BY <1>2, <1>3, <1>4

\* It could not be told to, or its answer was lost.
LEMMA EgressFails ==
    ASSUME RowsOK, NEW e \in Unstarted,
           UNCHANGED egress \/ egress' = [egress EXCEPT ![e] = "active"],
           rows' = [rows EXCEPT ![e] = [NoRecording EXCEPT !.status = "failed"]],
           UNCHANGED <<objects, webhooks>>
    PROVE  RowsOK' /\ FatesLast /\ LifeStep
<1>1. /\ egress' \in [Egresses -> EgressStatus]
      /\ egress'[e] \in {"none", "active"}
      /\ \A f \in Egresses \ {e} : egress'[f] = egress[f] /\ rows'[f] = rows[f]
      /\ e \in Egresses /\ rows[e] = NoRecording /\ egress[e] = "none"
      /\ rows' \in [Egresses -> Row]
      /\ rows'[e] = [NoRecording EXCEPT !.status = "failed"]
  BY DEF RowsOK, RowTellsTruth, EgressStatus, Unstarted, Row, NoRecording
<1>2. RowsOK'
  BY <1>1 DEF RowsOK, RowTellsTruth, NoRecording, OverStates, HasFile
<1>3. FatesLast
  BY <1>1 DEF FatesLast, NoRecording, Fate
<1>4. \A f \in Egresses : Audio(f)' = Audio(f)
  BY <1>1 DEF Audio, NoRecording
<1>5. rows[e].status = "none" /\ rows'[e].status = "failed"
  BY <1>1, NoRecordingHas DEF NoRecording
<1>6. Life!GiveUp(e)
  BY <1>1, <1>4, <1>5 DEF Life!GiveUp
<1>7. e \in Egresses
  BY <1>1
<1> QED
  BY <1>2, <1>3, <1>6, <1>7, LifeOfOne

\* CreateRecording for an egress that was started, whatever has become of it.
LEMMA RowIsSaved ==
    ASSUME RowsOK, NEW e \in Egresses, rows[e] = NoRecording, egress[e] # "none",
           rows' = [rows EXCEPT ![e] = [NoRecording EXCEPT !.status = "recording",
                                                           !.tracked = TRUE]],
           UNCHANGED <<egress, objects, webhooks>>
    PROVE  RowsOK' /\ FatesLast /\ LifeStep
<1>1. /\ rows' \in [Egresses -> Row]
      /\ rows'[e] = [NoRecording EXCEPT !.status = "recording", !.tracked = TRUE]
      /\ rows'[e].status = "recording" /\ rows'[e].tracked
      /\ \A f \in Egresses \ {e} : rows'[f] = rows[f]
  BY DEF RowsOK, Row, NoRecording
<1>2. RowsOK'
  BY <1>1 DEF RowsOK, RowTellsTruth, NoRecording
<1>3. FatesLast
  BY <1>1, NoRecordingHas DEF FatesLast, Fate
<1>4. \A f \in Egresses \ {e} : Audio(f)' = Audio(f)
  BY <1>1 DEF Audio
<1>5. Audio(e)' \in {"coming", "there", "none"}
  BY <1>1 DEF Audio, NoRecording
<1>6. rows[e].status = "none" /\ rows'[e].status = "recording"
  BY <1>1, NoRecordingHas
<1>7. Life!BeginRecording(e)
  <2>1. /\ [f \in Egresses |-> rows'[f].status] =
              [[f \in Egresses |-> rows[f].status] EXCEPT ![e] = "recording"]
        /\ [f \in Egresses |-> rows[f].status][e] = "none"
    BY <1>1, <1>6
  <2>2. \E a \in {"coming", "there", "none"} :
            [f \in Egresses |-> Audio(f)]' = [[f \in Egresses |-> Audio(f)] EXCEPT ![e] = a]
    BY <1>4, <1>5
  <2>3. QED
    BY <2>1, <2>2 DEF Life!BeginRecording
<1> QED
  BY <1>2, <1>3, <1>7, LifeOfOne

\* StopEgress, and what follows it.
LEMMA EgressIsStopped ==
    ASSUME RowsOK, NEW e \in Egresses, StopAndFinalize(e)
    PROVE  RowsOK' /\ FatesLast /\ NothingBegins /\ LifeStep
<1>1. CASE egress[e] \in OverStates /\ rows' = Finalized(e, egress[e])
              /\ UNCHANGED <<egress, objects, webhooks, upsets>>
  BY <1>1, RowIsFinalized
<1>2. CASE egress[e] = "active" /\ (\E outcome \in OverStates : Ends(e, outcome))
              /\ UNCHANGED <<rows, upsets>>
  BY <1>2, EgressIsOver
<1>3. CASE Upset /\ UNCHANGED <<rows, egress, objects, webhooks>>
  BY <1>3, RowsRest
<1> QED
  BY <1>1, <1>2, <1>3 DEF StopAndFinalize

-----------------------------------------------------------------------------
(* The log. *)

\* The kinds of events are finitely many.
LEMMA EventTypesFinite ==
    \A types \in SUBSET EventTypes : IsFiniteSet(types) /\ Cardinality(types) \in Nat
<1>1. IsFiniteSet({"candidate_joined", "candidate_media_ready", "agent_joined"})
  <2>1. IsFiniteSet({"candidate_joined"} \cup {"candidate_media_ready"})
    BY FS_Singleton, FS_AddElement
  <2>2. IsFiniteSet(({"candidate_joined"} \cup {"candidate_media_ready"}) \cup {"agent_joined"})
    BY <2>1, FS_AddElement
  <2> QED
    BY <2>2
<1>2. IsFiniteSet({"session_started", "session_completed", "session_failed", "talk"})
  <2>1. IsFiniteSet({"session_started"} \cup {"session_completed"})
    BY FS_Singleton, FS_AddElement
  <2>2. IsFiniteSet({"session_failed"} \cup {"talk"})
    BY FS_Singleton, FS_AddElement
  <2>3. IsFiniteSet(({"session_started"} \cup {"session_completed"})
                      \cup ({"session_failed"} \cup {"talk"}))
    BY <2>1, <2>2, FS_Union
  <2> QED
    BY <2>3
<1>3. IsFiniteSet(EventTypes)
  <2>1. IsFiniteSet({"candidate_joined", "candidate_media_ready", "agent_joined"}
                      \cup {"session_started", "session_completed", "session_failed", "talk"})
    BY <1>1, <1>2, FS_Union
  <2> QED
    BY <2>1 DEF EventTypes
<1> QED
  BY <1>3, FS_Subset, FS_CardinalityType

\* Where the model cuts a distance off, it keeps what the invariant asks of it.
LEMMA ClipBounds ==
    ASSUME NEW n \in Int
    PROVE  /\ Clip(n) \in -FarOff .. FarOff
           /\ n <= FarOff => Clip(n) >= n
           /\ n >= 1 => Clip(n) >= 1
  BY LogAssumption DEF Clip

\* A new event is appended: it was the candidate's first, or the candidate was there.
LEMMA LogGrows ==
    ASSUME LogTypeOK, LogInOrder, LateMediaReady,
           NEW type \in {"candidate_joined", "candidate_media_ready", "agent_joined",
                         "session_completed", "session_failed"},
           CanApplyEvent(session.status, type), type \notin session.types,
           type # "candidate_joined" => session.types # {},
           session' = [session EXCEPT !.status = ValidStatusForEvent(type, @),
                                      !.types = @ \cup {type}],
           lag' \in [Writers -> -FarOff .. FarOff],
           \A t \in Tabs : /\ lag'[t] = lag[t] \/ lag'[t] = Clip(lag[t] - 1)
                           /\ tabs'[t] = "candidate_media_ready" => tabs[t] = tabs'[t]
    PROVE  /\ LogTypeOK' /\ LogInOrder' /\ LateMediaReady'
           /\ BeforeMedia' => BeforeMedia
<1>1. /\ session'.status = ValidStatusForEvent(type, session.status)
      /\ session'.types = session.types \cup {type}
      /\ session' \in [status : SessionStatus, types : SUBSET EventTypes]
  BY DEF LogTypeOK, ValidStatusForEvent, SessionStatus, EventTypes
<1>2. Cardinality(session.types) \in Nat
      /\ Cardinality(session'.types) = Cardinality(session.types) + 1
  BY <1>1, EventTypesFinite, FS_AddElement DEF LogTypeOK
<1>3. LogInOrder'
  BY <1>1 DEF LogInOrder, CanApplyEvent, ValidStatusForEvent, EventTypes, Terminal
<1>4. LateMediaReady'
  <2> SUFFICES ASSUME NEW t \in Tabs, tabs'[t] = "candidate_media_ready"
               PROVE  lag'[t] + Cardinality(session'.types) >= 1
    BY DEF LateMediaReady
  <2>1. lag[t] \in -FarOff .. FarOff /\ FarOff \in Nat
    BY LogAssumption, RecordingAssumption DEF LogTypeOK
  <2>2. lag[t] + Cardinality(session.types) >= 1
    BY DEF LateMediaReady
  <2>3. lag'[t] \in Int /\ lag'[t] >= lag[t] - 1
    BY <2>1, ClipBounds
  <2> QED
    BY <1>2, <2>1, <2>2, <2>3
<1>5. BeforeMedia' => BeforeMedia
  BY <1>1 DEF BeforeMedia, LogInOrder, CanApplyEvent, LogTypeOK, SessionStatus
<1> QED
  BY <1>1, <1>3, <1>4, <1>5 DEF LogTypeOK

\* An event takes every other tab one further behind the log.
LEMMA AppendedLags ==
    ASSUME LogTypeOK, NEW w \in Writers, NEW type, AppendEvent(w, type)
    PROVE  /\ lag' \in [Writers -> -FarOff .. FarOff]
           /\ \A t \in Tabs : lag'[t] = lag[t] \/ lag'[t] = Clip(lag[t] - 1)
<1>1. \A x \in Writers : lag[x] \in Int
  BY LogAssumption DEF LogTypeOK
<1> QED
  BY <1>1, ClipBounds, RecordingAssumption DEF AppendEvent, LogTypeOK

\* An erasure empties the log; the numbers it leaves are of no use.
LEMMA LogIsErased ==
    ASSUME LogTypeOK, LogInOrder, LateMediaReady, UNCHANGED tabs,
           session' = [session EXCEPT !.types = {}],
           lag' = [w \in Writers |-> Clip(lag[w] + Cardinality(session.types))]
    PROVE  /\ LogTypeOK' /\ LogInOrder' /\ LateMediaReady'
           /\ BeforeMedia' => BeforeMedia
<1>1. /\ session'.status = session.status /\ session'.types = {}
      /\ session' \in [status : SessionStatus, types : SUBSET EventTypes]
  BY DEF LogTypeOK
<1>2. Cardinality(session.types) \in Nat /\ Cardinality({}) = 0
  BY EventTypesFinite, FS_EmptySet DEF LogTypeOK
<1>3. \A w \in Writers : lag[w] \in Int
  BY LogAssumption DEF LogTypeOK
<1>4. lag' \in [Writers -> -FarOff .. FarOff]
  BY <1>2, <1>3, ClipBounds
<1>5. LateMediaReady'
  <2> SUFFICES ASSUME NEW t \in Tabs, tabs[t] = "candidate_media_ready"
               PROVE  lag'[t] + Cardinality(session'.types) >= 1
    BY DEF LateMediaReady
  <2>1. t \in Writers /\ lag[t] + Cardinality(session.types) >= 1
    BY RecordingAssumption DEF LateMediaReady
  <2>2. lag'[t] >= 1 /\ lag'[t] \in Int
    BY <1>2, <1>3, <1>4, <2>1, ClipBounds, LogAssumption
  <2> QED
    BY <1>1, <1>2, <2>2
<1> QED
  BY <1>1, <1>4, <1>5 DEF LogTypeOK, LogInOrder, BeforeMedia, EventTypes

\* A step that leaves the log and the tabs alone keeps what is known of them.
LEMMA LogRests ==
    ASSUME LogTypeOK, LogInOrder, LateMediaReady, UNCHANGED <<session, lag, tabs>>
    PROVE  /\ LogTypeOK' /\ LogInOrder' /\ LateMediaReady'
           /\ BeforeMedia' => BeforeMedia
  BY DEF LogTypeOK, LogInOrder, LateMediaReady, BeforeMedia

-----------------------------------------------------------------------------
(* Requests and sweeps. *)

\* A step that starts no recording: a request goes on with what it had, or is done.
LEMMA BeginningStays ==
    ASSUME OneBeginning, NothingBegins, handlers \in [Handlers -> Handler],
           BeforeMedia' => BeforeMedia,
           \A h \in Handlers :
               Begins(h)' => /\ Begins(h)
                             /\ handlers'[h].pc = "save" => handlers'[h] = handlers[h]
                             /\ handlers'[h].pc # "save" => handlers[h].pc # "save"
    PROVE  OneBeginning'
<1>1. Started' = Started
  BY DEF Started, NothingBegins
<1>2. \A h \in Handlers : handlers'[h].pc = "save" =>
          /\ handlers'[h].egress \in Started'
          /\ rows'[handlers'[h].egress] = NoRecording
  BY <1>1 DEF OneBeginning, NothingBegins, Started, Begins
<1>3. \A h \in Handlers : handlers'[h].pc \in {"check", "start"} => Started' = {}
  BY <1>1 DEF OneBeginning, Begins
<1> QED
  BY <1>1, <1>2, <1>3 DEF OneBeginning

\* What a sweeper has left to do stays what it was.
LEMMA SweepStays ==
    ASSUME FatesLast, sweeps \in [Sweepers -> Sweep], NEW s \in Sweepers, SweepStandsBy(s),
           sweeps'[s] = sweeps[s]
    PROVE  SweepStandsBy(s)'
<1>1. sweeps[s] \in Sweep
  OBVIOUS
<1> QED
  BY <1>1 DEF SweepStandsBy, FatesLast, Sweep

\* A step that leaves the sweepers alone keeps what is known of them.
LEMMA SweepsStay ==
    ASSUME FatesLast, sweeps \in [Sweepers -> Sweep], \A s \in Sweepers : SweepStandsBy(s),
           UNCHANGED sweeps
    PROVE  \A s \in Sweepers : SweepStandsBy(s)'
  BY SweepStays

-----------------------------------------------------------------------------
(* The invariant and the life of a recording, step by step. *)

\* What is left to show of a step.
StepHolds == RecordingIInv' /\ LifeStep

\* The invariant by what its parts are about.
Parts ==
    /\ LogTypeOK /\ LogInOrder /\ LateMediaReady
    /\ tabs \in [Tabs -> CandidateTypes \cup {"none"}]
    /\ RowsOK
    /\ handlers \in [Handlers -> Handler] /\ OneBeginning
    /\ sweeps \in [Sweepers -> Sweep] /\ \A s \in Sweepers : SweepStandsBy(s)
    /\ upsets \in 0 .. MaxUpsets

\* The invariant, part by part.
LEMMA RecordingParts == (RecordingIInv <=> Parts) /\ (RecordingIInv' <=> Parts')
<1>1. RecordingIInv <=> Parts
  BY DEF Parts, RecordingIInv, RecordingTypeOK, RowsOK, RowTellsTruth
<1>2. RecordingIInv' <=> Parts'
  BY DEF Parts, RecordingIInv, RecordingTypeOK, RowsOK, RowTellsTruth
<1> QED
  BY <1>1, <1>2

\* A step on rows, egresses, objects and notifications alone.
LEMMA RowsStep ==
    ASSUME RecordingIInv, RowsOK', FatesLast, NothingBegins, LifeStep,
           UNCHANGED <<session, lag, tabs, handlers, sweeps>>, upsets' \in 0 .. MaxUpsets
    PROVE  StepHolds
<1>1. LogTypeOK' /\ LogInOrder' /\ LateMediaReady' /\ (BeforeMedia' => BeforeMedia)
  BY RecordingParts, LogRests DEF Parts
<1>2. OneBeginning'
  BY <1>1, RecordingParts, BeginningStays DEF Begins, Parts
<1>3. \A s \in Sweepers : SweepStandsBy(s)'
  BY RecordingParts, SweepsStay DEF Parts
<1>4. Parts'
  BY <1>1, <1>2, <1>3, RecordingParts DEF Parts
<1> QED
  BY <1>4, RecordingParts DEF StepHolds

\* A step on the log alone.
LEMMA LogStep ==
    ASSUME RecordingIInv, LogTypeOK', LogInOrder', LateMediaReady', BeforeMedia' => BeforeMedia,
           tabs' \in [Tabs -> CandidateTypes \cup {"none"}],
           UNCHANGED <<rows, egress, objects, webhooks, handlers, sweeps, upsets>>
    PROVE  StepHolds
<1>1. RowsOK' /\ FatesLast /\ NothingBegins /\ LifeStep
  BY RecordingParts, RowsRest DEF Parts
<1>2. OneBeginning'
  BY <1>1, RecordingParts, BeginningStays DEF Begins, Parts
<1>3. \A s \in Sweepers : SweepStandsBy(s)'
  BY <1>1, RecordingParts, SweepsStay DEF Parts
<1>4. Parts'
  BY <1>1, <1>2, <1>3, RecordingParts DEF Parts
<1> QED
  BY <1>1, <1>4, RecordingParts DEF StepHolds

\* The route reads the log and numbers the event behind what it has seen.
LEMMA ReadLogStep ==
    ASSUME RecordingIInv, NEW t \in Tabs, NEW type \in CandidateTypes, ReadLog(t, type)
    PROVE  StepHolds
<1>1. Parts
  BY RecordingParts
<1>2. t \in Writers /\ 0 \in -FarOff .. FarOff
  BY LogAssumption, RecordingAssumption
<1>3. /\ LogTypeOK'
      /\ tabs' \in [Tabs -> CandidateTypes \cup {"none"}]
  BY <1>1, <1>2 DEF Parts, ReadLog, LogTypeOK
<1>4. LogInOrder' /\ (BeforeMedia' => BeforeMedia)
  BY <1>1 DEF Parts, ReadLog, LogInOrder, BeforeMedia
<1>5. LateMediaReady'
  <2> SUFFICES ASSUME NEW u \in Tabs, tabs'[u] = "candidate_media_ready"
               PROVE  lag'[u] + Cardinality(session'.types) >= 1
    BY DEF LateMediaReady
  <2>1. session' = session /\ session.types \subseteq EventTypes /\ u \in Writers
    BY <1>1, RecordingAssumption DEF Parts, ReadLog, LogTypeOK
  <2>2. CASE u = t
    <3>1. lag'[u] = 0 /\ session.types # {}
      BY <1>1, <2>1, <2>2 DEF ReadLog, Parts, LogTypeOK
    <3>2. Cardinality(session.types) \in Nat /\ Cardinality(session.types) # 0
      BY <2>1, <3>1, EventTypesFinite, FS_EmptySet
    <3> QED
      BY <2>1, <3>1, <3>2
  <2>3. CASE u # t
    BY <1>1, <2>1, <2>3 DEF ReadLog, Parts, LogTypeOK, LateMediaReady
  <2> QED
    BY <2>2, <2>3
<1> QED
  BY <1>3, <1>4, <1>5, LogStep DEF ReadLog

\* The first candidate_media_ready the log takes is the last it will take: nothing has
\* been recorded, and its request is the only one that begins.
LEMMA PostFromTabStep ==
    ASSUME RecordingIInv, NEW t \in Tabs, PostFromTab(t)
    PROVE  StepHolds
<1>1. Parts
  BY RecordingParts
<1>2. /\ tabs' \in [Tabs -> CandidateTypes \cup {"none"}]
      /\ tabs[t] \in CandidateTypes
      /\ \A u \in Tabs : tabs'[u] = "candidate_media_ready" => tabs[u] = tabs'[u]
      /\ t \in Writers
  BY <1>1, RecordingAssumption DEF Parts, PostFromTab
<1>3. CASE ~Accepts(t, tabs[t], TRUE)
  <2>1. LogTypeOK' /\ LogInOrder' /\ LateMediaReady' /\ (BeforeMedia' => BeforeMedia)
    BY <1>1, <1>2, <1>3 DEF PostFromTab, Parts, LogTypeOK, LogInOrder, LateMediaReady, BeforeMedia
  <2> QED
    BY <1>2, <1>3, <2>1, LogStep DEF PostFromTab
<1>4. CASE Accepts(t, tabs[t], TRUE)
  <2>1. /\ CanApplyEvent(session.status, tabs[t])
        /\ tabs[t] \notin session.types
        /\ lag[t] = 0
    BY <1>2, <1>4 DEF Accepts, Known
  <2>2. tabs[t] = "candidate_media_ready" => session.types # {}
    <3>1. lag[t] + Cardinality({}) = 0
      BY <2>1, FS_EmptySet
    <3> QED
      BY <1>1, <3>1 DEF Parts, LateMediaReady
  <2>3. AppendEvent(t, tabs[t])
    BY <1>4 DEF PostFromTab
  <2>4. /\ LogTypeOK' /\ LogInOrder' /\ LateMediaReady'
        /\ BeforeMedia' => BeforeMedia
    BY <1>1, <1>2, <2>1, <2>2, <2>3, AppendedLags, LogGrows
       DEF Parts, CandidateTypes, AppendEvent
  <2>5. CASE tabs[t] # "candidate_media_ready"
    BY <1>2, <1>4, <2>4, <2>5, LogStep DEF PostFromTab
  <2>6. CASE tabs[t] = "candidate_media_ready"
    <3>1. PICK h \in Handlers : /\ handlers[h] = NoHandling
                                /\ handlers' = [handlers EXCEPT ![h].pc = "check"]
      BY <1>4, <2>6 DEF PostFromTab
    <3>2. BeforeMedia /\ ~BeforeMedia'
      BY <2>1, <2>2, <2>3, <2>6, <1>1 DEF BeforeMedia, AppendEvent, Parts, LogTypeOK
    <3>3. /\ handlers' \in [Handlers -> Handler]
          /\ handlers'[h].pc = "check"
          /\ \A k \in Handlers \ {h} : handlers'[k] = handlers[k]
      BY <1>1, <3>1 DEF Parts, Handler
    <3>4. RowsOK' /\ FatesLast /\ NothingBegins /\ LifeStep
      BY <1>1, RowsRest DEF Parts, PostFromTab
    <3>5. Started' = Started /\ Started = {} /\ \A k \in Handlers : ~Begins(k)
      BY <1>1, <3>2, <3>4 DEF Parts, OneBeginning, Started, NothingBegins
    <3>6. OneBeginning'
      BY <3>2, <3>3, <3>5 DEF OneBeginning, Begins
    <3>7. \A s \in Sweepers : SweepStandsBy(s)'
      BY <1>1, <3>4, SweepsStay DEF Parts, PostFromTab
    <3>8. Parts'
      BY <1>1, <1>2, <2>4, <3>3, <3>4, <3>6, <3>7 DEF Parts, PostFromTab
    <3> QED
      BY <3>4, <3>8, RecordingParts DEF StepHolds
  <2> QED
    BY <2>5, <2>6
<1> QED
  BY <1>3, <1>4

\* agent_joined comes once: an agent cannot join an interview that is in progress.
LEMMA AgentJoinsStep ==
    ASSUME RecordingIInv, AgentJoins
    PROVE  StepHolds
<1>1. Parts
  BY RecordingParts
<1>2. /\ "agent_joined" \notin session.types
      /\ session.types # {}
  BY <1>1 DEF AgentJoins, Parts, LogInOrder, CanApplyEvent
<1>3. /\ lag' \in [Writers -> -FarOff .. FarOff]
      /\ \A t \in Tabs : lag'[t] = Clip(lag[t] - 1) /\ tabs'[t] = tabs[t]
  <2>1. \A x \in Writers : lag[x] \in Int
    BY <1>1, LogAssumption DEF Parts, LogTypeOK
  <2>2. 0 \in -FarOff .. FarOff
    BY LogAssumption
  <2> QED
    BY <2>1, <2>2, ClipBounds, RecordingAssumption DEF AgentJoins
<1>4. LogTypeOK' /\ LogInOrder' /\ LateMediaReady' /\ (BeforeMedia' => BeforeMedia)
  BY <1>1, <1>2, <1>3, LogGrows DEF Parts, AgentJoins
<1> QED
  BY <1>1, <1>4, LogStep DEF AgentJoins, Parts

\* The end of the interview: a request that stops is not one that begins.
LEMMA AgentEndsStep ==
    ASSUME RecordingIInv, NEW type \in {"session_completed", "session_failed"}, AgentEnds(type)
    PROVE  StepHolds
<1>1. Parts
  BY RecordingParts
<1>2. /\ CanApplyEvent(session.status, type)
      /\ type \notin session.types
      /\ session.types # {}
      /\ AppendEvent(Agent, type)
  BY <1>1 DEF AgentEnds, Accepts, Parts, LogInOrder, CanApplyEvent
<1>3. LogTypeOK' /\ LogInOrder' /\ LateMediaReady' /\ (BeforeMedia' => BeforeMedia)
  BY <1>1, <1>2, AppendedLags, LogGrows, LogAssumption DEF Parts, AppendEvent, AgentEnds
<1>4. PICK h \in Handlers : /\ handlers[h] = NoHandling
                            /\ handlers' = [handlers EXCEPT ![h].pc = "stop"]
  BY DEF AgentEnds
<1>5. /\ handlers' \in [Handlers -> Handler]
      /\ handlers'[h].pc = "stop"
      /\ \A k \in Handlers \ {h} : handlers'[k] = handlers[k]
  BY <1>1, <1>4 DEF Parts, Handler
<1>6. RowsOK' /\ FatesLast /\ NothingBegins /\ LifeStep
  BY <1>1, RowsRest DEF Parts, AgentEnds
<1>7. OneBeginning'
  BY <1>1, <1>3, <1>5, <1>6, BeginningStays DEF Parts, Begins
<1>8. \A s \in Sweepers : SweepStandsBy(s)'
  BY <1>1, <1>6, SweepsStay DEF Parts, AgentEnds
<1>9. Parts'
  BY <1>1, <1>3, <1>5, <1>6, <1>7, <1>8 DEF Parts, AgentEnds
<1> QED
  BY <1>6, <1>9, RecordingParts DEF StepHolds

\* A step of a request that touches neither the log nor a sweep.
LEMMA HandlerStep ==
    ASSUME RecordingIInv, NEW h \in Handlers, NEW next \in Handler,
           handlers' = [handlers EXCEPT ![h] = next],
           RowsOK', FatesLast, LifeStep, UNCHANGED <<session, lag, tabs, sweeps>>,
           upsets' \in 0 .. MaxUpsets, OneBeginning'
    PROVE  StepHolds
<1>1. LogTypeOK' /\ LogInOrder' /\ LateMediaReady'
  BY RecordingParts, LogRests DEF Parts
<1>2. \A s \in Sweepers : SweepStandsBy(s)'
  BY RecordingParts, SweepsStay DEF Parts
<1>3. Parts'
  BY <1>1, <1>2, RecordingParts DEF Parts
<1> QED
  BY <1>3, RecordingParts DEF StepHolds

\* The handler looks for an active recording.
LEMMA CheckActiveStep ==
    ASSUME RecordingIInv, NEW h \in Handlers, CheckActive(h)
    PROVE  StepHolds
<1>1. Parts
  BY RecordingParts
<1>2. RowsOK' /\ FatesLast /\ NothingBegins /\ LifeStep
  BY <1>1, RowsRest DEF Parts, CheckActive
<1> DEFINE next == IF ActiveRecordings = {} THEN [handlers[h] EXCEPT !.pc = "start"]
                                           ELSE NoHandling
<1>3. /\ handlers' = [handlers EXCEPT ![h] = next]
      /\ next \in Handler /\ next.pc \in {"start", "idle"}
  <2>1. handlers' = [handlers EXCEPT ![h] = next]
    BY DEF CheckActive
  <2>2. handlers[h] \in Handler
    BY <1>1 DEF Parts
  <2> QED
    BY <2>1, <2>2 DEF Handler, NoHandling
<1> HIDE DEF next
<1>4. OneBeginning'
  <2>1. BeforeMedia' => BeforeMedia
    BY <1>1, LogRests DEF Parts, CheckActive
  <2>2. /\ handlers'[h] = next
        /\ \A k \in Handlers \ {h} : handlers'[k] = handlers[k]
    BY <1>1, <1>3 DEF Parts
  <2>3. handlers[h].pc = "check"
    BY DEF CheckActive, HandlerAt
  <2> QED
    BY <1>1, <1>2, <1>3, <2>1, <2>2, <2>3, BeginningStays DEF Parts, Begins
<1> QED
  BY <1>1, <1>2, <1>3, <1>4, HandlerStep DEF CheckActive, Parts

\* The one request that begins starts the one egress there will be.
LEMMA StartEgressStep ==
    ASSUME RecordingIInv, NEW h \in Handlers, StartEgress(h)
    PROVE  StepHolds
<1>1. Parts
  BY RecordingParts
<1>2. /\ ~BeforeMedia'
      /\ Started = {}
      /\ \A k \in Handlers \ {h} : ~Begins(k)
  BY <1>1 DEF Parts, OneBeginning, Begins, StartEgress, HandlerAt, BeforeMedia
<1>3. PICK e \in Unstarted :
          \/ /\ egress' = [egress EXCEPT ![e] = "active"]
             /\ handlers' = [handlers EXCEPT ![h] = [pc |-> "save", egress |-> e]]
             /\ UNCHANGED <<rows, upsets>>
          \/ /\ Upset
             /\ \/ UNCHANGED egress
                \/ egress' = [egress EXCEPT ![e] = "active"]
             /\ rows' = [rows EXCEPT ![e] = [NoRecording EXCEPT !.status = "failed"]]
             /\ handlers' = [handlers EXCEPT ![h] = NoHandling]
  BY DEF StartEgress
<1>4. /\ e \in Egresses /\ egress[e] = "none" /\ rows[e] = NoRecording
      /\ \A f \in Egresses : egress[f] = "none"
  BY <1>1, <1>2 DEF Unstarted, Parts, RowsOK, RowTellsTruth, Started
<1>5. CASE /\ egress' = [egress EXCEPT ![e] = "active"]
           /\ handlers' = [handlers EXCEPT ![h] = [pc |-> "save", egress |-> e]]
           /\ UNCHANGED <<rows, upsets>>
  <2>1. RowsOK' /\ FatesLast /\ LifeStep
    BY <1>1, <1>5, EgressBegins DEF StartEgress, Parts
  <2>2. [pc |-> "save", egress |-> e] \in Handler
    BY <1>4 DEF Handler
  <2>3. Started' = {e}
    BY <1>1, <1>4, <1>5 DEF Started, Parts, RowsOK
  <2>4. /\ handlers'[h] = [pc |-> "save", egress |-> e]
        /\ \A k \in Handlers \ {h} : ~Begins(k)'
    BY <1>1, <1>2, <1>5 DEF Parts, Begins
  <2>5. OneBeginning'
    BY <1>2, <1>4, <1>5, <2>3, <2>4 DEF OneBeginning, Begins
  <2> QED
    BY <1>1, <1>5, <2>1, <2>2, <2>5, HandlerStep DEF StartEgress, Parts
<1>6. CASE /\ Upset
           /\ UNCHANGED egress \/ egress' = [egress EXCEPT ![e] = "active"]
           /\ rows' = [rows EXCEPT ![e] = [NoRecording EXCEPT !.status = "failed"]]
           /\ handlers' = [handlers EXCEPT ![h] = NoHandling]
  <2>1. RowsOK' /\ FatesLast /\ LifeStep
    BY <1>1, <1>6, EgressFails DEF StartEgress, Parts
  <2>2. NoHandling \in Handler
    BY DEF Handler, NoHandling
  <2>3. Started' \in {{}, {e}}
    BY <1>1, <1>4, <1>6 DEF Started, Parts, RowsOK
  <2>4. \A k \in Handlers : ~Begins(k)'
    BY <1>1, <1>2, <1>6 DEF Parts, Begins, NoHandling
  <2>5. OneBeginning'
    BY <1>2, <2>3, <2>4 DEF OneBeginning, Begins
  <2>6. upsets' \in 0 .. MaxUpsets
    BY <1>1, <1>6, RecordingAssumption DEF Upset, Parts
  <2> QED
    BY <1>6, <2>1, <2>2, <2>5, <2>6, HandlerStep DEF StartEgress
<1> QED
  BY <1>3, <1>5, <1>6

\* The handler stores the row of the egress it began.
LEMMA SaveRecordingStep ==
    ASSUME RecordingIInv, NEW h \in Handlers, SaveRecording(h)
    PROVE  StepHolds
<1>1. Parts
  BY RecordingParts
<1> DEFINE e == handlers[h].egress
<1>2. /\ e \in Egresses /\ egress[e] # "none" /\ rows[e] = NoRecording
      /\ \A k \in Handlers \ {h} : ~Begins(k)
      /\ ~BeforeMedia
  BY <1>1 DEF SaveRecording, HandlerAt, Parts, OneBeginning, Started, Begins
<1>3. RowsOK' /\ FatesLast /\ LifeStep
  <2>1. CASE rows' = [rows EXCEPT ![e] = [NoRecording EXCEPT !.status = "recording",
                                                            !.tracked = TRUE]]
    BY <1>1, <1>2, <2>1, RowIsSaved DEF SaveRecording, Parts
  <2>2. CASE UNCHANGED rows
    BY <1>1, <2>2, RowsRest DEF SaveRecording, Parts
  <2> QED
    BY <2>1, <2>2 DEF SaveRecording
<1>4. handlers' = [handlers EXCEPT ![h] = NoHandling] /\ NoHandling \in Handler
  BY DEF SaveRecording, NoHandling, Handler
<1>5. \A k \in Handlers : ~Begins(k)'
  BY <1>1, <1>2, <1>4 DEF Parts, Begins, NoHandling
<1>6. Started' = Started /\ ~BeforeMedia'
  BY <1>2 DEF Started, SaveRecording, BeforeMedia
<1>7. OneBeginning'
  BY <1>1, <1>5, <1>6 DEF OneBeginning, Begins, Parts
<1>8. upsets' \in 0 .. MaxUpsets
  BY <1>1, RecordingAssumption DEF Upset, Parts, SaveRecording
<1> QED
  BY <1>3, <1>4, <1>7, <1>8, HandlerStep DEF SaveRecording

\* The handler stops the active recording, if there is one.
LEMMA StopRecordingStep ==
    ASSUME RecordingIInv, NEW h \in Handlers, StopRecording(h)
    PROVE  StepHolds
<1>1. Parts
  BY RecordingParts
<1>2. /\ RowsOK' /\ FatesLast /\ NothingBegins /\ LifeStep
      /\ upsets' \in 0 .. MaxUpsets
  <2>1. CASE UNCHANGED <<rows, egress, objects, webhooks, upsets>>
    BY <1>1, <2>1, RowsRest DEF Parts
  <2>2. CASE \E e \in ActiveRecordings : StopAndFinalize(e)
    BY <1>1, <2>2, EgressIsStopped, RecordingAssumption
       DEF Parts, ActiveRecordings, StopAndFinalize, Upset
  <2> QED
    BY <2>1, <2>2 DEF StopRecording
<1>3. handlers' = [handlers EXCEPT ![h] = NoHandling] /\ NoHandling \in Handler
  BY DEF StopRecording, NoHandling, Handler
<1>4. OneBeginning'
  <2>1. BeforeMedia' => BeforeMedia
    BY <1>1, LogRests DEF Parts, StopRecording
  <2> QED
    BY <1>1, <1>2, <1>3, <2>1, BeginningStays DEF Parts, Begins, NoHandling
<1> QED
  BY <1>2, <1>3, <1>4, HandlerStep DEF StopRecording

\* LiveKit, its notifications, time and the reconciler.
LEMMA EgressStep ==
    ASSUME RecordingIInv, NEW e \in Egresses,
           EgressEnds(e) \/ EgressWebhook(e) \/ WebhookLost(e) \/ Ages(e) \/ Reconcile(e)
    PROVE  StepHolds
<1>1. Parts
  BY RecordingParts
<1>2. CASE EgressEnds(e)
  BY <1>1, <1>2, EgressIsOver, RowsStep DEF EgressEnds, Parts
<1>3. CASE EgressWebhook(e)
  BY <1>1, <1>3, RowIsFinalized, RowsStep DEF EgressWebhook, Parts, RowsOK, RowTellsTruth
<1>4. CASE WebhookLost(e)
  <2>1. upsets' \in 0 .. MaxUpsets
    BY <1>1, <1>4, RecordingAssumption DEF WebhookLost, Upset, Parts
  <2> QED
    BY <1>1, <1>4, <2>1, RowsRest, RowsStep DEF WebhookLost, Parts
<1>5. CASE Ages(e)
  BY <1>1, <1>5, RowAges, RowsStep DEF Ages, Parts
<1>6. CASE Reconcile(e)
  BY <1>1, <1>6, RowIsFinalized, RowsStep DEF Reconcile, Parts
<1> QED
  BY <1>2, <1>3, <1>4, <1>5, <1>6

\* A step of a sweep over the rows, or of one that begins.
LEMMA SweepStep ==
    ASSUME RecordingIInv, NEW s \in Sweepers, NEW next \in Sweep,
           sweeps' = [sweeps EXCEPT ![s] = next], SweepStandsBy(s)',
           RowsOK', FatesLast, NothingBegins, LifeStep, UNCHANGED <<session, lag, tabs, handlers>>,
           upsets' \in 0 .. MaxUpsets
    PROVE  StepHolds
<1>1. Parts
  BY RecordingParts
<1>2. LogTypeOK' /\ LogInOrder' /\ LateMediaReady' /\ (BeforeMedia' => BeforeMedia)
  BY <1>1, LogRests DEF Parts
<1>3. OneBeginning'
  BY <1>1, <1>2, BeginningStays DEF Begins, Parts
<1>4. \A r \in Sweepers : SweepStandsBy(r)'
  BY <1>1, SweepStays DEF Parts
<1>5. Parts'
  BY <1>1, <1>2, <1>3, <1>4 DEF Parts
<1> QED
  BY <1>5, RecordingParts DEF StepHolds

\* A sweeper copies the rows it is to deal with.
LEMMA BeginSweepStep ==
    ASSUME RecordingIInv, NEW s \in Sweepers, BeginSweep(s)
    PROVE  StepHolds
<1>1. Parts
  BY RecordingParts
<1>2. PICK list \in SUBSET Egresses :
          sweeps' = [sweeps EXCEPT ![s] = [pc |-> "rows", todo |-> list, seen |-> rows,
                                           row |-> Nothing]]
  BY DEF BeginSweep, DeletableRecordings
<1> DEFINE next == [pc |-> "rows", todo |-> list, seen |-> rows, row |-> Nothing]
<1>3. next \in Sweep
  BY <1>1 DEF Parts, RowsOK, Sweep
<1>4. RowsOK' /\ FatesLast /\ NothingBegins /\ LifeStep
  BY <1>1, RowsRest DEF Parts, BeginSweep
<1>5. SweepStandsBy(s)'
  BY <1>1, <1>2 DEF SweepStandsBy, Parts, BeginSweep, Erasable, Fate
<1> QED
  BY <1>1, <1>2, <1>3, <1>4, <1>5, SweepStep DEF BeginSweep, Parts

\* An object goes only when the row had a fate when it was read, and so has one now.
LEMMA SweepRowStep ==
    ASSUME RecordingIInv, NEW s \in Sweepers, SweepRow(s)
    PROVE  StepHolds
<1>1. Parts /\ sweeps[s] \in Sweep /\ SweepStandsBy(s)
  BY RecordingParts DEF Parts
<1>2. PICK e \in sweeps[s].todo :
          \/ /\ Erasable(sweeps[s].seen[e])
             /\ objects' = objects \ {e}
             /\ sweeps' = [sweeps EXCEPT ![s] = [[sweeps[s] EXCEPT !.todo = @ \ {e}]
                                                    EXCEPT !.pc = "tombstone", !.row = e]]
             /\ UNCHANGED <<rows, egress, webhooks, upsets>>
          \/ /\ Erasable(sweeps[s].seen[e])
             /\ Upset
             /\ sweeps' = [sweeps EXCEPT ![s] = [sweeps[s] EXCEPT !.todo = @ \ {e}]]
             /\ UNCHANGED <<rows, egress, objects, webhooks>>
          \/ /\ ~Erasable(sweeps[s].seen[e])
             /\ sweeps' = [sweeps EXCEPT ![s] = [sweeps[s] EXCEPT !.todo = @ \ {e}]]
             /\ IF sweeps[s].seen[e].status = "recording" /\ sweeps[s].seen[e].tracked
                THEN StopAndFinalize(e)
                ELSE UNCHANGED <<rows, egress, objects, webhooks, upsets>>
  BY DEF SweepRow
<1>3. e \in Egresses /\ sweeps[s].pc = "rows"
  BY <1>1 DEF Sweep, SweepRow
<1> DEFINE rest == [sweeps[s] EXCEPT !.todo = @ \ {e}]
           erased == [rest EXCEPT !.pc = "tombstone", !.row = e]
<1>4. /\ rest \in Sweep /\ erased \in Sweep
      /\ rest.pc = "rows" /\ rest.seen = sweeps[s].seen /\ rest.todo \subseteq sweeps[s].todo
      /\ erased.pc = "tombstone" /\ erased.row = e
      /\ erased.seen = rest.seen /\ erased.todo = rest.todo
  BY <1>1, <1>3 DEF Sweep
<1>5. Erasable(sweeps[s].seen[e]) => rows[e].status \in Fate
  BY <1>1, <1>3 DEF SweepStandsBy
<1>6. ASSUME FatesLast, sweeps' = [sweeps EXCEPT ![s] = rest]
      PROVE  SweepStandsBy(s)'
  <2>1. sweeps'[s] = rest
    BY <1>1, <1>6 DEF Parts
  <2>2. \A f \in rest.todo : Erasable(rest.seen[f]) => rows'[f].status \in Fate
    BY <1>1, <1>3, <1>4, <1>6 DEF SweepStandsBy, FatesLast, Sweep
  <2> QED
    BY <1>4, <2>1, <2>2 DEF SweepStandsBy
<1>7. CASE /\ Erasable(sweeps[s].seen[e])
           /\ objects' = objects \ {e}
           /\ sweeps' = [sweeps EXCEPT ![s] = erased]
           /\ UNCHANGED <<rows, egress, webhooks, upsets>>
  <2>1. RowsOK' /\ FatesLast /\ NothingBegins /\ LifeStep
    BY <1>1, <1>3, <1>5, <1>7, ObjectIsErased DEF Parts
  <2>2. sweeps'[s] = erased
    BY <1>1, <1>7 DEF Parts
  <2> HIDE DEF rest, erased
  <2>3. SweepStandsBy(s)'
    <3>1. rows'[e].status \in Fate /\ e \notin objects'
      BY <1>5, <1>7
    <3>2. \A f \in erased.todo : Erasable(erased.seen[f]) => rows'[f].status \in Fate
      BY <1>1, <1>4, <1>7 DEF SweepStandsBy
    <3> QED
      BY <1>3, <1>4, <2>2, <3>1, <3>2 DEF SweepStandsBy
  <2> QED
    BY <1>1, <1>4, <1>7, <2>1, <2>3, SweepStep DEF SweepRow, Parts
<1>8. CASE /\ Upset
           /\ sweeps' = [sweeps EXCEPT ![s] = rest]
           /\ UNCHANGED <<rows, egress, objects, webhooks>>
  <2>1. RowsOK' /\ FatesLast /\ NothingBegins /\ LifeStep
    BY <1>1, <1>8, RowsRest DEF Parts
  <2>2. upsets' \in 0 .. MaxUpsets
    BY <1>1, <1>8, RecordingAssumption DEF Parts, Upset
  <2> QED
    BY <1>4, <1>6, <1>8, <2>1, <2>2, SweepStep DEF SweepRow
<1>9. CASE /\ sweeps' = [sweeps EXCEPT ![s] = rest]
           /\ StopAndFinalize(e) \/ UNCHANGED <<rows, egress, objects, webhooks, upsets>>
  <2>1. RowsOK' /\ FatesLast /\ NothingBegins /\ LifeStep
    BY <1>1, <1>3, <1>9, EgressIsStopped, RowsRest DEF Parts
  <2>2. upsets' \in 0 .. MaxUpsets
    BY <1>1, <1>9, RecordingAssumption DEF Parts, StopAndFinalize, Upset
  <2> QED
    BY <1>4, <1>6, <1>9, <2>1, <2>2, SweepStep DEF SweepRow
<1> QED
  BY <1>2, <1>7, <1>8, <1>9

\* A sweeper writes a tombstone over a row.
LEMMA TombstoneStep ==
    ASSUME RecordingIInv, NEW s \in Sweepers, Tombstone(s)
    PROVE  StepHolds
<1>1. Parts /\ sweeps[s] \in Sweep /\ SweepStandsBy(s)
  BY RecordingParts DEF Parts
<1> DEFINE e == sweeps[s].row
           next == [sweeps[s] EXCEPT !.pc = "rows", !.row = Nothing]
<1>2. /\ e \in Egresses
      /\ rows[e].status \in Fate
      /\ rows[e].tracked => e \notin objects
  BY <1>1 DEF Tombstone, SweepStandsBy
<1>3. RowsOK' /\ FatesLast /\ NothingBegins /\ LifeStep
  BY <1>1, <1>2, RowIsDeleted DEF Tombstone, Parts
<1>4. /\ sweeps' = [sweeps EXCEPT ![s] = next]
      /\ next \in Sweep /\ next.pc = "rows"
      /\ next.todo = sweeps[s].todo /\ next.seen = sweeps[s].seen
  BY <1>1 DEF Tombstone, Sweep, Parts
<1> HIDE DEF next
<1>5. SweepStandsBy(s)'
  <2>1. sweeps'[s] = next
    BY <1>1, <1>4 DEF Parts
  <2>2. \A f \in next.todo : Erasable(next.seen[f]) => rows'[f].status \in Fate
    BY <1>1, <1>3, <1>4 DEF Tombstone, SweepStandsBy, FatesLast, Sweep
  <2> QED
    BY <1>4, <2>1, <2>2 DEF SweepStandsBy
<1> QED
  BY <1>1, <1>3, <1>4, <1>5, SweepStep DEF Tombstone, Parts

\* A sweeper at rest.
LEMMA AtRestIsSweep == AtRest \in Sweep /\ AtRest.pc = "idle" /\ AtRest.todo = {}
  BY DEF AtRest, Sweep, NoRecording, Row

\* A sweeper has no row left; an erasure then empties the log.
LEMMA EndSweepStep ==
    ASSUME RecordingIInv, NEW s \in Sweepers, EndSweep(s)
    PROVE  StepHolds
<1>1. Parts
  BY RecordingParts
<1>2. /\ LogTypeOK' /\ LogInOrder' /\ LateMediaReady'
      /\ BeforeMedia' => BeforeMedia
  BY <1>1, LogRests, LogIsErased DEF Parts, EndSweep
<1>3. RowsOK' /\ FatesLast /\ NothingBegins /\ LifeStep
  BY <1>1, RowsRest DEF Parts, EndSweep
<1>4. OneBeginning'
  BY <1>1, <1>2, <1>3, BeginningStays DEF Begins, Parts, EndSweep
<1>5. /\ sweeps' \in [Sweepers -> Sweep]
      /\ sweeps'[s].pc = "idle" /\ sweeps'[s].todo = {}
      /\ \A r \in Sweepers \ {s} : sweeps'[r] = sweeps[r]
  BY <1>1, AtRestIsSweep DEF EndSweep, Parts
<1>6. ASSUME NEW r \in Sweepers PROVE SweepStandsBy(r)'
  <2>1. CASE r = s
    BY <1>5, <2>1 DEF SweepStandsBy
  <2>2. CASE r # s
    BY <1>1, <1>3, <1>5, <2>2, SweepStays DEF Parts
  <2> QED
    BY <2>1, <2>2
<1>7. Parts'
  BY <1>1, <1>2, <1>3, <1>4, <1>5, <1>6 DEF Parts, EndSweep
<1> QED
  BY <1>3, <1>7, RecordingParts DEF StepHolds

\* A service that restarts has forgotten its requests and its sweeps.
LEMMA RestartStep ==
    ASSUME RecordingIInv, Restart
    PROVE  StepHolds
<1>1. Parts
  BY RecordingParts
<1>2. LogTypeOK' /\ LogInOrder' /\ LateMediaReady' /\ (BeforeMedia' => BeforeMedia)
  BY <1>1, LogRests DEF Parts, Restart
<1>3. RowsOK' /\ FatesLast /\ NothingBegins /\ LifeStep
  BY <1>1, RowsRest DEF Parts, Restart
<1>4. /\ handlers' \in [Handlers -> Handler]
      /\ \A h \in Handlers : ~Begins(h)'
  BY DEF Restart, NoHandling, Handler, Begins
<1>5. OneBeginning'
  BY <1>1, <1>2, <1>3, <1>4, BeginningStays DEF Parts
<1>6. /\ sweeps' \in [Sweepers -> Sweep]
      /\ \A s \in Sweepers : SweepStandsBy(s)'
  BY AtRestIsSweep DEF Restart, SweepStandsBy
<1>7. upsets' \in 0 .. MaxUpsets
  BY <1>1, RecordingAssumption DEF Parts, Restart, Upset
<1>8. Parts'
  BY <1>1, <1>2, <1>3, <1>4, <1>5, <1>6, <1>7 DEF Parts, Restart
<1> QED
  BY <1>3, <1>8, RecordingParts DEF StepHolds

\* The first state.
LEMMA RecordingInitially ==
    ASSUME RecordingInit
    PROVE  RecordingIInv /\ Life!LifeInit
<1>1. LogTypeOK /\ LogInOrder /\ LateMediaReady
  BY LogAssumption DEF RecordingInit, RecorderInit, LogInit, NewSession, LogTypeOK, LogInOrder,
                       LateMediaReady, SessionStatus
<1>2. RowsOK
  BY DEF RecordingInit, RecorderInit, RowsOK, RowTellsTruth, NoRecording, Row, EgressStatus,
         HasFile, OverStates
<1>3. handlers \in [Handlers -> Handler] /\ OneBeginning
  BY DEF RecordingInit, RecorderInit, NoHandling, Handler, OneBeginning, Begins, Started
<1>4. sweeps \in [Sweepers -> Sweep] /\ \A s \in Sweepers : SweepStandsBy(s)
  BY AtRestIsSweep DEF RecordingInit, RecorderInit, SweepStandsBy
<1>5. /\ tabs \in [Tabs -> CandidateTypes \cup {"none"}]
      /\ upsets \in 0 .. MaxUpsets
  BY RecordingAssumption DEF RecordingInit, RecorderInit
<1>6. Parts
  BY <1>1, <1>2, <1>3, <1>4, <1>5 DEF Parts
<1>7. Life!LifeInit
  BY DEF RecordingInit, RecorderInit, Life!LifeInit, Audio, NoRecording
<1> QED
  BY <1>6, <1>7, RecordingParts

\* Every step of the service, the browser and LiveKit keeps the invariant and is a
\* step of the recordings' life or none.
LEMMA RecordingStep ==
    ASSUME RecordingIInv, [RecordingNext]_recordingVars
    PROVE  StepHolds
<1>1. CASE UNCHANGED recordingVars
  <2>1. Parts
    BY RecordingParts
  <2>2. RowsOK' /\ FatesLast /\ NothingBegins /\ LifeStep
    BY <1>1, <2>1, RowsRest DEF Parts, recordingVars, recorderVars
  <2> QED
    BY <1>1, <2>1, <2>2, RowsStep DEF Parts, recordingVars, recorderVars
<1>2. ASSUME NEW t \in Tabs, PostFromTab(t) \/ \E type \in CandidateTypes : ReadLog(t, type)
      PROVE  StepHolds
  BY <1>2, PostFromTabStep, ReadLogStep
<1>3. CASE AgentJoins
  BY <1>3, AgentJoinsStep
<1>4. ASSUME NEW type \in {"session_completed", "session_failed"}, AgentEnds(type)
      PROVE  StepHolds
  BY <1>4, AgentEndsStep
<1>5. ASSUME NEW h \in Handlers,
             CheckActive(h) \/ StartEgress(h) \/ SaveRecording(h) \/ StopRecording(h)
      PROVE  StepHolds
  BY <1>5, CheckActiveStep, StartEgressStep, SaveRecordingStep, StopRecordingStep
<1>6. ASSUME NEW e \in Egresses,
             EgressEnds(e) \/ EgressWebhook(e) \/ WebhookLost(e) \/ Ages(e) \/ Reconcile(e)
      PROVE  StepHolds
  BY <1>6, EgressStep
<1>7. ASSUME NEW s \in Sweepers, BeginSweep(s) \/ SweepRow(s) \/ Tombstone(s) \/ EndSweep(s)
      PROVE  StepHolds
  BY <1>7, BeginSweepStep, SweepRowStep, TombstoneStep, EndSweepStep
<1>8. CASE Restart
  BY <1>8, RestartStep
<1> QED
  BY <1>1, <1>2, <1>3, <1>4, <1>5, <1>6, <1>7, <1>8 DEF RecordingNext

\* One recording at a time: there is one at all.
LEMMA RecordingIInvImplies ==
    ASSUME RecordingIInv
    PROVE  RecordingInv
<1>1. OneEgressAtATime
  <2> DEFINE active == {e \in Egresses : egress[e] = "active"}
  <2>1. \A e, f \in active : e = f
    BY DEF RecordingIInv, OneBeginning, Started
  <2>2. active = {} \/ \E e : active = {e}
    BY <2>1
  <2>3. Cardinality(active) \in {0, 1}
    BY <2>2, FS_EmptySet, FS_Singleton
  <2> QED
    BY <2>3 DEF OneEgressAtATime
<1>2. TombstonesHaveNoAudio
  BY DEF RecordingIInv, RowsOK, RowTellsTruth, TombstonesHaveNoAudio
<1> QED
  BY <1>1, <1>2 DEF RecordingIInv, RecordingInv

-----------------------------------------------------------------------------
(* The results. *)

\* Whatever tabs, requests, sweeps and failures there are, a candidate is recorded once
\* at a time, no tombstone is written over audio that exists or is still to land, and a
\* row says the truth of its egress (service.go startRecordingIfNeeded,
\* EraseRecordingsForSession, PurgeExpiredRecordings).
THEOREM RecordingIsSafe == RecordingSpec => []RecordingInv
<1>1. RecordingInit => RecordingIInv
  BY RecordingInitially
<1>2. RecordingIInv /\ [RecordingNext]_recordingVars => RecordingIInv'
  BY RecordingStep DEF StepHolds
<1>3. RecordingIInv => RecordingInv
  BY RecordingIInvImplies
<1> QED
  BY <1>1, <1>2, <1>3, PTL DEF RecordingSpec

\* The rows and the bucket implement RecordingLife: a fate is sealed once, by the audio
\* there is, and only what has no audio is called deleted.
THEOREM RecordingKeepsItsPromise == RecordingSpec => KeepsItsPromise
<1>1. RecordingInit => RecordingIInv /\ Life!LifeInit
  BY RecordingInitially
<1>2. RecordingIInv /\ [RecordingNext]_recordingVars
          => RecordingIInv' /\ [Life!LifeNext]_(Life!lifeVars)
  BY RecordingStep DEF StepHolds, LifeStep
<1> QED
  BY <1>1, <1>2, PTL DEF RecordingSpec, KeepsItsPromise, Life!LifeSpec

\* A session is recorded once in its life, not only once at a time: no second egress is
\* ever started for it, by no tab, retry or erasure (service.go:658).
THEOREM RecordedOnce ==
    RecordingSpec => [](\A e, f \in Egresses : egress[e] # "none" /\ egress[f] # "none" => e = f)
<1>1. RecordingInit => RecordingIInv
  BY RecordingInitially
<1>2. RecordingIInv /\ [RecordingNext]_recordingVars => RecordingIInv'
  BY RecordingStep DEF StepHolds
<1>3. RecordingIInv => \A e, f \in Egresses : egress[e] # "none" /\ egress[f] # "none" => e = f
  BY DEF RecordingIInv, OneBeginning, Started
<1> QED
  BY <1>1, <1>2, <1>3, PTL DEF RecordingSpec
=============================================================================
