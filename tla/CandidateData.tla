---------------------------- MODULE CandidateData ----------------------------
(***************************************************************************)
(* What the console keeps about candidates, and how it lets go of it       *)
(* (candidate-brief-generation.ts, candidate-erasure.ts,                   *)
(* candidate-invitations.ts and the retention sweep).                      *)
(*                                                                         *)
(* An interview's content is with the realtime service: the transcript and *)
(* the audio. The console has the session row, the invitation with the     *)
(* candidate's identity, the recruiter's review and the generated brief.   *)
(* Every request reads, waits and writes, so it keeps what it read;        *)
(* the writes of an erasure are one transaction, which follows the call    *)
(* to the realtime service. A session has one invitation of its own;       *)
(* reissuing one makes another row. The identity on the session goes with  *)
(* its stamp and has no field here.                                        *)
(***************************************************************************)
EXTENDS Naturals, FiniteSets

CONSTANTS
    LastSession,        \* sessions, numbered in the order they were completed
    Running,            \* those whose interview is still going on at first
    Requests,           \* requests under way
    Reissues,           \* rows for invitations made by reissuing one
    Stuck,              \* sessions the realtime service fails to erase whenever the sweep asks
    RetentionLimit      \* `limit` of the retention sweep

ASSUME DataAssumption ==
    /\ LastSession \in Nat /\ RetentionLimit \in Nat \ {0}
    /\ Running \subseteq 1..LastSession /\ Stuck \subseteq 1..LastSession
    /\ Reissues \cap (1..LastSession) = {}

VARIABLES
    sessions,           \* rows of CandidateSession and the content they stand for
    invitations,        \* rows of CandidateInvitation
    briefs,             \* rows of CandidateBrief
    requests,           \* what each request has read
    sweep,              \* sessions the retention sweep has still to erase
    aged                \* how many sessions are past the retention period

dataVars == <<sessions, invitations, briefs, requests, sweep, aged>>

Sessions == 1..LastSession
Sweeper == "sweeper"    \* the call the retention sweep makes for each session
Requesters == Requests \cup {Sweeper}

\* `end`: how the interview ended; only a completed one has a completedAt.
SessionRow == [end : {"none", "completed", "failed"}, erased : BOOLEAN,
               transcript : BOOLEAN, audio : {"none", "recording", "available"}]

\* An invitation past its date reads as expired, written down or not
\* (resolveCandidateInvitationStatus).
InvitationRow == [status : {"none", "open", "completed", "failed", "expired", "superseded"},
                  named : BOOLEAN]

\* The row is gone, or has a status; what a summary says is left out.
NoBrief == "none"
BriefStatus == {NoBrief, "processing", "completed", "failed"}

\* What a call has read.
NoRequest == [kind |-> "none", at |-> "none", session |-> 0, read |-> "none"]

RequestRow == [kind : {"none", "brief", "erase", "reissue"},
               at : {"none", "read", "synthesis", "tombstone", "failed"},
               session : Sessions \cup Reissues \cup {0},
               read : {"none", "named", "nameless"}]

DataInit ==
    /\ sessions \in [Sessions -> [end : {"completed"}, erased : {FALSE},
                                  transcript : {TRUE}, audio : {"available"}]
                             \cup [end : {"none"}, erased : {FALSE},
                                   transcript : {FALSE}, audio : {"recording"}]]
    /\ \A s \in Sessions : sessions[s].end = "none" <=> s \in Running
    /\ invitations = [i \in Sessions \cup Reissues |->
          [status |-> IF i \in Reissues THEN "none"
                      ELSE IF i \in Running THEN "open" ELSE "completed",
           named |-> i \in Sessions]]
    /\ briefs = [s \in Sessions |-> NoBrief]
    /\ requests = [c \in Requesters |-> NoRequest]
    /\ sweep = {}
    /\ aged = 0

-----------------------------------------------------------------------------
(* The realtime service, and the candidate                                  *)

\* Events come in while the interview goes on, and the recording's file lands
\* some time after it has ended. It is purged on the realtime service's own clock.
Speak(s) ==
    /\ sessions[s].end = "none"
    /\ sessions' = [sessions EXCEPT ![s].transcript = TRUE]
    /\ UNCHANGED <<invitations, briefs, requests, sweep, aged>>

EndInterview(s) ==
    /\ sessions[s].end = "none"
    /\ \E outcome \in {"completed", "failed"} :
          /\ invitations' = [invitations EXCEPT ![s].status =
                                IF @ \in {"completed", "expired", "superseded"} THEN @ ELSE outcome]
          /\ sessions' = [sessions EXCEPT ![s].end = outcome]
    /\ UNCHANGED <<briefs, requests, sweep, aged>>

LandAudio(s) ==
    /\ sessions[s].audio = "recording" /\ sessions[s].end # "none"
    /\ sessions' = [sessions EXCEPT ![s].audio = "available"]
    /\ UNCHANGED <<invitations, briefs, requests, sweep, aged>>

\* ErasePersonalDataForSession: a file still being recorded is left to land.
Forgotten(row) ==
    [row EXCEPT !.transcript = FALSE, !.audio = IF @ = "available" THEN "none" ELSE @]

\* The retention period of the next session runs out.
Age ==
    /\ aged < LastSession
    /\ aged' = aged + 1
    /\ UNCHANGED <<sessions, invitations, briefs, requests, sweep>>

-----------------------------------------------------------------------------
(* generateCandidateBriefForSession                                         *)

BeginRequest(c, kind, s, read) ==
    requests' = [requests EXCEPT ![c] =
        [kind |-> kind, at |-> "read", session |-> s, read |-> read]]

Return(c) == requests' = [requests EXCEPT ![c] = NoRequest]

At(c, kind, place) == requests[c].kind = kind /\ requests[c].at = place

Move(c, place) == requests' = [requests EXCEPT ![c].at = place]

\* An erased session gets no brief: it is looked up once, before the evidence.
GenerateBrief(c, s) ==
    /\ requests[c].kind = "none"
    /\ ~sessions[s].erased
    /\ BeginRequest(c, "brief", s, "none")
    /\ UNCHANGED <<sessions, invitations, briefs, sweep, aged>>

\* With the evidence read, the row is made or marked: the upsert.
MarkProcessing(c) ==
    /\ At(c, "brief", "read")
    /\ Move(c, "synthesis")
    /\ briefs' = [briefs EXCEPT ![requests[c].session] = "processing"]
    /\ UNCHANGED <<sessions, invitations, sweep, aged>>

\* The summary is written, or the failure over the summary there was. Either is
\* an update of the row: with the row gone the first throws, and so does the
\* second, which reports it.
WriteBrief(c) ==
    LET s == requests[c].session
    IN  /\ At(c, "brief", "synthesis")
        /\ IF briefs[s] = NoBrief THEN UNCHANGED briefs
           ELSE \E status \in {"completed", "failed"} : briefs' = [briefs EXCEPT ![s] = status]
        /\ Return(c)
        /\ UNCHANGED <<sessions, invitations, sweep, aged>>

-----------------------------------------------------------------------------
(* eraseCandidateSessionData                                                *)

\* Who erases: a recruiter on request, or the sweep; the session may be erased already.
EraseOnRequest(c, s) ==
    /\ requests[c].kind = "none"
    /\ BeginRequest(c, "erase", s, "none")
    /\ UNCHANGED <<sessions, invitations, briefs, sweep, aged>>

Refused(c, s) == c = Sweeper /\ s \in Stuck

\* Mistake for the checks to catch: the first failure ends the batch.
EraseRemotely_Abort(c) ==
    LET s == requests[c].session
    IN  /\ At(c, "erase", "read")
        /\ \/ /\ ~Refused(c, s)
              /\ sessions' = [sessions EXCEPT ![s] = Forgotten(@)]
              /\ Move(c, "tombstone")
              /\ UNCHANGED sweep
           \/ /\ Refused(c, s)
              /\ UNCHANGED sessions
              /\ Return(c)
              /\ sweep' = {}
        /\ UNCHANGED <<invitations, briefs, aged>>

\* Mistake for the checks to catch: the answer of the realtime service is not looked at.
EraseRemotely_Unchecked(c) ==
    LET s == requests[c].session
    IN  /\ At(c, "erase", "read")
        /\ sessions' \in {sessions, [sessions EXCEPT ![s] = Forgotten(@)]}
        /\ Move(c, "tombstone")
        /\ UNCHANGED <<invitations, briefs, sweep, aged>>

\* DELETE personal-data: a failure, the transcript gone or not, ends the call.
EraseRemotely(c) ==
    LET s == requests[c].session
    IN  /\ At(c, "erase", "read")
        /\ \/ /\ ~Refused(c, s)
              /\ sessions' = [sessions EXCEPT ![s] = Forgotten(@)]
              /\ Move(c, "tombstone")
           \/ /\ c # Sweeper \/ s \in Stuck
              /\ sessions' \in {sessions, [sessions EXCEPT ![s].transcript = FALSE]}
              /\ Return(c)
        /\ UNCHANGED <<invitations, briefs, sweep, aged>>

\* The transaction: brief, identity, stamp and link. The recruiter's review is not
\* among what it clears; the stamp's date and reason are left out.
Tombstone(c) ==
    LET s == requests[c].session
    IN  /\ At(c, "erase", "tombstone")
        /\ sessions' = [sessions EXCEPT ![s].erased = TRUE]
        /\ invitations' = [invitations EXCEPT ![s] = [status |-> "expired", named |-> FALSE]]
        /\ briefs' = [briefs EXCEPT ![s] = NoBrief]
        /\ Return(c)
        /\ UNCHANGED <<sweep, aged>>

-----------------------------------------------------------------------------
(* sweepExpiredCandidateData                                                *)

Due == {s \in 1..aged : sessions[s].end = "completed" /\ ~sessions[s].erased}

\* The oldest of them, `limit` at most, those that failed before included.
Page == {s \in Due : Cardinality({d \in Due : d < s}) < RetentionLimit}

StartSweep ==
    /\ sweep = {} /\ requests[Sweeper].kind = "none"
    /\ Page # {}
    /\ sweep' = Page
    /\ UNCHANGED <<sessions, invitations, briefs, requests, aged>>

\* One after the other; one that fails is counted and the next one is taken.
EraseNextDue ==
    /\ sweep # {} /\ requests[Sweeper].kind = "none"
    /\ LET s == CHOOSE x \in sweep : \A y \in sweep : x <= y
       IN  BeginRequest(Sweeper, "erase", s, "none") /\ sweep' = sweep \ {s}
    /\ UNCHANGED <<sessions, invitations, briefs, aged>>

-----------------------------------------------------------------------------
(* candidate-invitations.ts                                                 *)

\* An invitation's date passes; expireStaleCandidateInvitations writes it down.
PassDate(i) ==
    /\ invitations[i].status \in {"open", "failed"}
    /\ invitations' = [invitations EXCEPT ![i].status = "expired"]
    /\ UNCHANGED <<sessions, briefs, requests, sweep, aged>>

\* reissueCandidateInvitation: an expired or a failed one is read ...
ReadReissue(c, i) ==
    /\ requests[c].kind = "none"
    /\ invitations[i].status \in {"expired", "failed"}
    /\ requests' = [requests EXCEPT ![c] =
          [kind |-> "reissue", at |-> IF invitations[i].status = "failed" THEN "failed" ELSE "read",
           session |-> i, read |-> IF invitations[i].named THEN "named" ELSE "nameless"]]
    /\ UNCHANGED <<sessions, invitations, briefs, sweep, aged>>

\* ... closed, and copied to a row of its own, with the identity that was read.
WriteReissue(c) ==
    LET source == requests[c].session
    IN  /\ requests[c].kind = "reissue"
        /\ \E i \in Reissues :
              /\ invitations[i].status = "none"
              /\ invitations' = [invitations EXCEPT
                    ![i] = [status |-> "open", named |-> requests[c].read = "named"],
                    ![source].status = IF requests[c].at = "failed" THEN "superseded" ELSE "expired"]
        /\ Return(c)
        /\ UNCHANGED <<sessions, briefs, sweep, aged>>

-----------------------------------------------------------------------------
Requested(c) ==
    \/ \E s \in Sessions : GenerateBrief(c, s) \/ EraseOnRequest(c, s)
    \/ \E i \in DOMAIN invitations : ReadReissue(c, i)
    \/ MarkProcessing(c) \/ WriteBrief(c)
    \/ WriteReissue(c)

Swept == StartSweep \/ EraseNextDue \/ EraseRemotely(Sweeper) \/ Tombstone(Sweeper)

DataNext ==
    \/ \E s \in Sessions : Speak(s) \/ EndInterview(s) \/ LandAudio(s)
    \/ Age
    \/ \E c \in Requests : Requested(c) \/ EraseRemotely(c) \/ Tombstone(c)
    \/ Swept
    \/ \E i \in DOMAIN invitations : PassDate(i)

\* The retention sweep is scheduled daily and goes through its page.
DataFairness == WF_dataVars(Swept)

DataSpec == DataInit /\ [][DataNext]_dataVars /\ DataFairness

-----------------------------------------------------------------------------
DataTypeOK ==
    /\ sessions \in [Sessions -> SessionRow]
    /\ invitations \in [Sessions \cup Reissues -> InvitationRow]
    /\ briefs \in [Sessions -> BriefStatus]
    /\ requests \in [Requesters -> RequestRow]
    /\ sweep \subseteq Sessions
    /\ aged \in 0..LastSession

\* A candidate whose interview had ended and who reads as erased is: neither the
\* realtime service nor the session nor the invitation holds anything of theirs,
\* and their link opens nothing, whatever requests were under way.
ErasedIsGone ==
    \A s \in Sessions \ Running :
        sessions[s].erased =>
            /\ ~sessions[s].transcript /\ sessions[s].audio = "none"
            /\ ~invitations[s].named /\ invitations[s].status \in {"expired", "superseded"}

\* "An erased candidate has no brief, and must not acquire one."
ErasedHasNoBrief == \A s \in Sessions : sessions[s].erased => briefs[s] = NoBrief

\* Once their retention has run out, all who completed are erased but those the realtime service
\* cannot erase, which hold nobody else up as long as they do not fill a page.
ExpiredDataIsErased ==
    \A s \in Sessions \ Stuck : (s <= aged /\ sessions[s].end = "completed") ~> sessions[s].erased
\* What reads as erased is gone, and rows are of their types.
DataInv == DataTypeOK /\ ErasedIsGone
=============================================================================
