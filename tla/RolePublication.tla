--------------------------- MODULE RolePublication ---------------------------
(***************************************************************************)
(* Drafts of role screens and what is published from them                  *)
(* (interview-drafts.ts, interview-actions.ts,                             *)
(* role-publication-admission.ts).                                         *)
(*                                                                         *)
(* Publishing reads the draft, then asks a classifier and the billing      *)
(* store, and writes the published snapshot in a third, serializable       *)
(* transaction. Between these the draft may be saved or published again    *)
(* and the snapshot paused, so a request keeps its own copy of what it     *)
(* read; pausing and resuming are one serializable transaction each. The   *)
(* link for candidates that every publication ensures is left out.         *)
(***************************************************************************)
EXTENDS Naturals, FiniteSets

CONSTANTS
    Drafts,             \* rows of InterviewDraft of one organization
    Jobs,               \* the roles they are for
    Snapshots,          \* rows of Interview
    Requests,           \* calls of publishInterviewDraft
    RoleLimit,          \* activeRoleLimit of the workspace's plan
    WaiverLimit         \* OVERRIDE_RATE_LIMIT_MAX

\* Rows and calls are finitely many, and none bears the name that stands for there being none.
ASSUME PublicationAssumption ==
    /\ RoleLimit \in Nat /\ WaiverLimit \in Nat
    /\ IsFiniteSet(Snapshots) /\ IsFiniteSet(Requests)
    /\ "none" \notin Drafts \cup Snapshots

VARIABLES
    drafts,
    snapshots,
    requests,           \* what each call has read and decided
    waivers             \* ComplianceOverrideEvent rows of the recruiter

publicationVars == <<drafts, snapshots, requests, waivers>>

\* What a plan says, as far as its gates tell: nothing to object to; a topic an
\* owner may waive; one that nobody may.
Text == {"clean", "sensitive", "forbidden"}

NoDraft == [status |-> "none", job |-> "none", text |-> "none"]

DraftRow == [status : {"none", "draft", "published"}, job : Jobs \cup {"none"},
             text : Text \cup {"none"}]

NoSnapshot == [status |-> "none", job |-> "none", draft |-> "none", text |-> "none",
               waived |-> FALSE]

SnapshotRow == [status : {"none", "published", "paused"}, job : Jobs \cup {"none"},
                draft : Drafts \cup {"none"}, text : Text \cup {"none"},
                waived : BOOLEAN]

NoRequest == [pc |-> "none", draft |-> "none", copy |-> NoDraft, snapshot |-> "none",
              was |-> "none", waive |-> FALSE]

PublicationInit ==
    /\ drafts = [d \in Drafts |-> NoDraft]
    /\ snapshots = [s \in Snapshots |-> NoSnapshot]
    /\ requests = [r \in Requests |-> NoRequest]
    /\ waivers = 0

-----------------------------------------------------------------------------
\* saveInterviewDraft: the last save wins, and a published draft is a draft again.
SaveDraft(d) ==
    /\ \E text \in Text, j \in IF drafts[d] = NoDraft THEN Jobs ELSE {drafts[d].job} :
          drafts' = [drafts EXCEPT ![d] = [status |-> "draft", text |-> text, job |-> j]]
    /\ UNCHANGED <<snapshots, requests, waivers>>

SnapshotOf(d) == {s \in Snapshots : snapshots[s].draft = d}

\* The first transaction: the draft, its snapshot and the keyword gate.
BeginPublish(r) ==
    /\ requests[r] = NoRequest
    /\ \E d \in Drafts :
          /\ drafts[d].status # "none"
          /\ \E s \in IF SnapshotOf(d) = {} THEN {"none"} ELSE SnapshotOf(d) :
                requests' = [requests EXCEPT ![r] =
                   [pc |-> "screen", draft |-> d, copy |-> drafts[d], snapshot |-> s,
                    was |-> IF s = "none" THEN "none" ELSE snapshots[s].status, waive |-> FALSE]]
    /\ UNCHANGED <<drafts, snapshots, waivers>>

\* What an owner or an admin may waive who asks for it, and only so often.
Waivable(text) == text = "sensitive" /\ waivers < WaiverLimit

\* The classifier reads the copy; when it cannot be reached the call ends, and
\* so it does when the plan is flagged and the flag is not waived.
ScreenPlan(r) ==
    /\ requests[r].pc = "screen"
    /\ \/ LET text == requests[r].copy.text
          IN  /\ text = "clean" \/ Waivable(text)
              /\ requests' = [requests EXCEPT ![r].pc = "write", ![r].waive = text # "clean"]
       \/ requests' = [requests EXCEPT ![r] = NoRequest]
    /\ UNCHANGED <<drafts, snapshots, waivers>>

-----------------------------------------------------------------------------
Published(s) == snapshots[s].status = "published"

PublishedJobs == {snapshots[s].job : s \in {x \in Snapshots : Published(x)}}

\* Mistake for the checks to catch: a role that was ever published keeps its place.
Admitted_OncePublished(j) ==
    \/ \E s \in Snapshots : snapshots[s].job = j
    \/ Cardinality(PublishedJobs) < RoleLimit

\* evaluateRolePublicationAdmission: a role that is published takes no new place.
Admitted(j) == j \in PublishedJobs \/ Cardinality(PublishedJobs) < RoleLimit

\* Mistake for the checks to catch: the text is read again when it is written.
PublishedText_Reread(r) == drafts[requests[r].draft].text

PublishedText(r) == requests[r].copy.text

\* The draft's snapshot as the first transaction read it: one that was paused
\* since is still taken for a published one.
Returned(r, s) ==
    /\ requests[r].copy.status = "published"
    /\ s = requests[r].snapshot
    /\ snapshots' = IF requests[r].was = "published" THEN snapshots
                    ELSE [snapshots EXCEPT ![s].status = "published"]
    /\ UNCHANGED <<drafts, waivers>>

\* A new snapshot; the one that was read lets go of the draft. A snapshot that
\* appeared since keeps it (draftId is unique), and the call fails.
Created(r, s) ==
    LET d == requests[r].draft
        old == requests[r].snapshot
    IN  /\ old = "none" \/ requests[r].copy.status # "published"
        /\ snapshots[s] = NoSnapshot
        /\ SnapshotOf(d) \subseteq {old}
        /\ snapshots' = [x \in Snapshots |->
              IF x = s THEN [status |-> "published", job |-> requests[r].copy.job, draft |-> d,
                             text |-> PublishedText(r), waived |-> requests[r].waive]
              ELSE IF x = old THEN [snapshots[x] EXCEPT !.draft = "none"]
              ELSE snapshots[x]]
        /\ drafts' = [drafts EXCEPT ![d].status = "published"]
        /\ waivers' = IF requests[r].waive THEN waivers + 1 ELSE waivers

\* The third transaction.
Publish(r) ==
    /\ requests[r].pc = "write"
    /\ requests' = [requests EXCEPT ![r] = NoRequest]
    /\ Admitted(requests[r].copy.job)
    /\ \E s \in Snapshots : Returned(r, s) \/ Created(r, s)

\* The plan cannot be run, billing is out, the workspace is full, or the
\* transaction fails.
Refuse(r) ==
    /\ requests[r].pc = "write"
    /\ requests' = [requests EXCEPT ![r] = NoRequest]
    /\ UNCHANGED <<drafts, snapshots, waivers>>

\* updateInterviewPublicationStatusAction.
Pause(s) ==
    /\ snapshots[s] # NoSnapshot
    /\ snapshots' = [snapshots EXCEPT ![s].status = "paused"]
    /\ UNCHANGED <<drafts, requests, waivers>>

Resume(s) ==
    /\ snapshots[s] # NoSnapshot
    /\ Admitted(snapshots[s].job)
    /\ snapshots' = [snapshots EXCEPT ![s].status = "published"]
    /\ UNCHANGED <<drafts, requests, waivers>>

-----------------------------------------------------------------------------
PublicationNext ==
    \/ \E d \in Drafts : SaveDraft(d)
    \/ \E r \in Requests : BeginPublish(r) \/ ScreenPlan(r) \/ Publish(r) \/ Refuse(r)
    \/ \E s \in Snapshots : Pause(s) \/ Resume(s)

PublicationSpec == PublicationInit /\ [][PublicationNext]_publicationVars

-----------------------------------------------------------------------------
PublicationTypeOK ==
    /\ drafts \in [Drafts -> DraftRow]
    /\ snapshots \in [Snapshots -> SnapshotRow]
    /\ waivers \in 0 .. WaiverLimit + Cardinality(Requests)
    /\ \A s, t \in Snapshots : snapshots[s].draft = snapshots[t].draft =>
                                  s = t \/ snapshots[s].draft = "none"

\* The plan's limit on published roles holds whatever the order of publications,
\* republications, pauses and resumptions, in however many tabs.
PublishedRolesWithinPlan == Cardinality(PublishedJobs) <= RoleLimit

\* What candidates are asked is what was screened: nothing nobody may waive is
\* ever published, and what may be waived was, whatever was saved over the draft
\* while the classifier was reading it.
OnlyScreenedIsPublished ==
    \A s \in Snapshots : snapshots[s] # NoSnapshot =>
       \/ snapshots[s].text = "clean"
       \/ snapshots[s].text = "sensitive" /\ snapshots[s].waived
\* What is published is within the plan and was screened, and rows are of their types.
PublicationInv == PublicationTypeOK /\ PublishedRolesWithinPlan /\ OnlyScreenedIsPublished
=============================================================================
