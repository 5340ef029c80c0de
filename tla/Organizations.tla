---------------------------- MODULE Organizations ----------------------------
(***************************************************************************)
(* One organization, its members and their roles.  Clerk is told what is   *)
(* decided (team-management.ts, clerk-organization-directory.ts) and       *)
(* reports it back by webhooks (clerk-webhook-sync.ts,                     *)
(* clerk-webhook-store.ts); the rows the console reads its permissions     *)
(* from are written by those webhooks and by the onboarding                *)
(* (organization-onboarding.ts).                                           *)
(*                                                                         *)
(* An onboarding is one transaction of the default isolation.  It begins   *)
(* by writing the row of its user, so those of one user follow each other; *)
(* those of two users meet at the organization's row.  What it has written *)
(* shows when it commits.                                                  *)
(***************************************************************************)
EXTENDS Naturals, FiniteSets

CONSTANTS
    Users,          \* Clerk identities, the creator of the organization among them
    Creator,        \* who created the organization in Clerk
    MaxEvents,      \* bound on the webhooks of memberships
    MaxRevision,    \* bound on the number a wizard gives a save
    MaxRequests,    \* bound on the requests made of the console
    TeamRoles       \* roles that are asked for members

ASSUME OrganizationsAssumption ==
    /\ IsFiniteSet(Users)
    /\ Creator \in Users
    /\ MaxEvents \in Nat \ {0} /\ MaxRevision \in Nat /\ MaxRequests \in Nat
    /\ TeamRoles \subseteq {"owner", "admin", "recruiter", "viewer"}

VARIABLES
    clerk,          \* memberships in Clerk: its own role and the metadata's
    invited,        \* pending invitations in Clerk, by role
    deliveries,     \* the webhooks of Clerk's changes so far
    emitted,        \* how many there have been
    org,            \* the Organization row
    member,         \* OrganizationMembership rows
    onboarding,     \* each user's onboarding transaction
    teamRequests,   \* requests made so far
    teamwork,       \* each member's request to change the team
    founders,       \* made owner by the onboarding
    blessed,        \* made owner by an owner
    released        \* acted on by an owner, or in Clerk's own pages

orgVars == <<clerk, invited, deliveries, emitted, org, member, onboarding, teamRequests,
             teamwork, founders, blessed, released>>

Roles == {"owner", "admin", "recruiter", "viewer"}

NoRole == "none"

ClerkRow == [in : BOOLEAN, coarse : {"org:admin", "org:member"}, meta : Roles \cup {NoRole}]

MemberRow == [role : Roles \cup {NoRole}, active : BOOLEAN]

OrgRow == [exists : BOOLEAN, completed : BOOLEAN, by : Users, revision : Nat]

NoTx == [at |-> "none", what |-> "save", revision |-> 0, role |-> NoRole, write |-> "skip",
         first |-> FALSE]

NoTeamwork == [at |-> "none", role |-> NoRole, on |-> Creator, to |-> NoRole, left |-> {}]

OrgInit ==
    /\ clerk = [u \in Users |-> [in |-> u = Creator, coarse |-> IF u = Creator THEN "org:admin"
                                                               ELSE "org:member", meta |-> NoRole]]
    /\ invited = [u \in Users |-> NoRole]
    /\ deliveries = {[n |-> 1, user |-> Creator, in |-> TRUE, coarse |-> "org:admin",
                      meta |-> NoRole]}
    /\ emitted = 1
    /\ org = [exists |-> FALSE, completed |-> FALSE, by |-> Creator, revision |-> 0]
    /\ member = [u \in Users |-> [role |-> NoRole, active |-> FALSE]]
    /\ onboarding = [u \in Users |-> NoTx]
    /\ teamRequests = 0
    /\ teamwork = [u \in Users |-> NoTeamwork]
    /\ founders = {}
    /\ blessed = {}
    /\ released = {}

-----------------------------------------------------------------------------
(* Roles                                                                   *)

\* toClerkMembershipRole
ClerkRole(role) == IF role \in {"owner", "admin"} THEN "org:admin" ELSE "org:member"

\* mapClerkOrganizationRole, for the roles Clerk has without the add-on
PreludeRole(coarse) == IF coarse = "org:admin" THEN "admin" ELSE "recruiter"

\* resolveOrganizationRoleFromClerk: the metadata's role, unless Clerk's own is
\* of the other tier.
Resolved(c) ==
    IF c.meta # NoRole /\ ClerkRole(c.meta) = c.coarse THEN c.meta ELSE PreludeRole(c.coarse)

ManagesTeam(role) == role \in {"owner", "admin"}

\* canManageMember
ManagesMember(role, target) == role = "owner" \/ (role = "admin" /\ target # "owner")

\* canAssignRole
Assigns(role, new) == ManagesTeam(role) /\ (new = "owner" => role = "owner")

\* canChangeMemberRole, canRemoveMember
MayDo(role, target, to) == ManagesMember(role, target) /\ (to # NoRole => Assigns(role, to))

Asks == teamRequests < MaxRequests /\ teamRequests' = teamRequests + 1

\* resolveCompletedOrganizationScope
InScope(u) == org.completed /\ member[u].active

-----------------------------------------------------------------------------
(* Clerk                                                                   *)

\* Clerk's state of u becomes c, and a webhook says so.
Reports(u, c) ==
    /\ emitted < MaxEvents
    /\ emitted' = emitted + 1
    /\ clerk' = [clerk EXCEPT ![u] = c]
    /\ deliveries' = deliveries \cup {[n |-> emitted + 1, user |-> u, in |-> c.in,
                                       coarse |-> c.coarse, meta |-> c.meta]}

\* The invitation is accepted; its metadata become the membership's.
AcceptInvitation(u) ==
    /\ invited[u] # NoRole
    /\ ~clerk[u].in
    /\ Reports(u, [in |-> TRUE, coarse |-> ClerkRole(invited[u]), meta |-> invited[u]])
    /\ invited' = [invited EXCEPT ![u] = NoRole]
    /\ UNCHANGED <<org, member, onboarding, teamRequests, teamwork, founders, blessed, released>>

\* Clerk's own pages invite, and change a role, without the metadata.
ChangeInClerk(u) ==
    /\ \E coarse \in {"org:admin", "org:member"} :
          Reports(u, [in |-> TRUE, coarse |-> coarse,
                      meta |-> IF clerk[u].in THEN clerk[u].meta ELSE NoRole])
    /\ released' = released \cup {u}
    /\ UNCHANGED <<invited, org, member, onboarding, teamRequests, teamwork, founders, blessed>>

-----------------------------------------------------------------------------
(* Webhooks                                                                *)

\* applyClerkSyncIntent: what the event says is written, whatever has been
\* written since.  Without the organization's row the answer is 409, and an
\* error 500: Svix sends the event again, later than others, and once more when
\* an answer is lost.  It may also have given up before.
ApplyMembership(e) ==
    /\ e \in deliveries
    /\ org.exists
    /\ IF e.in
       THEN member' = [member EXCEPT ![e.user] = [role |-> Resolved(e), active |-> TRUE]]
       ELSE member' = [member EXCEPT ![e.user].active = FALSE]
    /\ UNCHANGED <<clerk, invited, deliveries, emitted, org, onboarding, teamRequests, teamwork,
                   founders, blessed, released>>

-----------------------------------------------------------------------------
(* Onboarding                                                              *)

\* A request of one of the wizard's tabs, which number their saves each from 1.
\* The session says that the user is in the organization, and Clerk's role.
BeginOnboarding(u) ==
    /\ onboarding[u] = NoTx
    /\ Asks
    /\ clerk[u].in
    /\ \E what \in {"save", "complete"}, revision \in 0..MaxRevision :
          /\ what = "complete" <=> revision = 0
          /\ onboarding' = [onboarding EXCEPT ![u] =
             [NoTx EXCEPT !.at = "read", !.what = what, !.revision = revision,
                          !.role = PreludeRole(clerk[u].coarse)]]
    /\ UNCHANGED <<clerk, invited, deliveries, emitted, org, member, teamwork, founders, blessed,
                   released>>

\* Mistake for the checks to catch: a workspace that is complete is left alone,
\* an older save is not.
SkipsSave_CompletedOnly(tx) == org.completed

\* shouldSkipProgressUpdate
SkipsSave(tx) == org.completed \/ tx.revision < org.revision

\* What is to be done with the organization's row, as it is read.
ReadOrganization(u) ==
    LET tx == onboarding[u]
    IN  /\ tx.at = "read"
        /\ onboarding' = [onboarding EXCEPT ![u].at = "write",
              ![u].write = CASE tx.what = "complete" -> "upsert"
                             [] tx.what = "save" /\ ~org.exists -> "create"
                             [] tx.what = "save" /\ org.exists /\ ~SkipsSave(tx) -> "update"
                             [] OTHER -> "skip"]
        /\ UNCHANGED <<clerk, invited, deliveries, emitted, org, member, teamRequests, teamwork,
                       founders, blessed, released>>

\* Mistake for the checks to catch: two onboardings do not wait for each other.
RowIsFree_Always == TRUE

\* Nobody else's transaction holds the organization's row, or its Clerk id.
RowIsFree == \A v \in Users : onboarding[v].at # "commit" \/ onboarding[v].write = "skip"

\* The row is written, and the members that are there are counted; a row that
\* somebody else has made meanwhile cannot be created again.
WriteOrganization(u) ==
    LET tx == onboarding[u]
    IN  /\ tx.at = "write"
        /\ tx.write # "skip" => RowIsFree
        /\ onboarding' = [onboarding EXCEPT ![u] =
              IF tx.write = "create" /\ org.exists THEN NoTx
              ELSE [tx EXCEPT !.at = "commit",
                              !.first = \A v \in Users : member[v].role = NoRole]]
        /\ UNCHANGED <<clerk, invited, deliveries, emitted, org, member, teamRequests, teamwork,
                       founders, blessed, released>>

\* upsertOnboardingMembership: whoever has a role keeps it; the first member is
\* the owner if Clerk says admin.
Onboarded(u, tx) ==
    IF member[u].role # NoRole THEN [member[u] EXCEPT !.active = TRUE]
    ELSE [role |-> IF tx.first /\ tx.role = "admin" THEN "owner" ELSE tx.role, active |-> TRUE]

\* The membership is written and the transaction commits.
CommitOnboarding(u) ==
    LET tx == onboarding[u]
    IN  /\ tx.at = "commit"
        /\ onboarding' = [onboarding EXCEPT ![u] = NoTx]
        /\ org' = IF tx.write = "skip" THEN org
                  ELSE [exists |-> TRUE, completed |-> org.completed \/ tx.what = "complete",
                        by |-> u, revision |-> IF tx.what = "save" THEN tx.revision ELSE 0]
        /\ member' = [member EXCEPT ![u] = Onboarded(u, tx)]
        /\ founders' = IF Onboarded(u, tx).role = "owner" /\ member[u].role = NoRole
                       THEN founders \cup {u} ELSE founders
        /\ UNCHANGED <<clerk, invited, deliveries, emitted, teamRequests, teamwork, blessed, released>>

-----------------------------------------------------------------------------
(* The team                                                                *)

\* inviteTeamMember, with the role the actor's row has now.
Invite(a, u) ==
    /\ Asks
    /\ InScope(a)
    /\ ~clerk[u].in
    /\ \E role \in TeamRoles :
          /\ Assigns(member[a].role, role)
          /\ invited' = [invited EXCEPT ![u] = role]
          /\ blessed' = IF role = "owner" /\ member[a].role = "owner"
                        THEN blessed \cup {u} ELSE blessed
    /\ UNCHANGED <<clerk, deliveries, emitted, org, member, onboarding, teamwork, founders,
                   released>>

\* revokeTeamInvitation
RevokeInvitation(a, u) ==
    /\ InScope(a)
    /\ ManagesTeam(member[a].role)
    /\ invited[u] # NoRole
    /\ invited' = [invited EXCEPT ![u] = NoRole]
    /\ UNCHANGED <<clerk, deliveries, emitted, org, member, onboarding, teamRequests, teamwork, founders,
                   blessed, released>>

\* changeTeamMemberRole and removeTeamMember (`to` is no role): never oneself.
BeginTeamwork(a) ==
    /\ teamwork[a] = NoTeamwork
    /\ Asks
    /\ InScope(a)
    /\ \E u \in Users \ {a}, to \in TeamRoles \cup {NoRole} :
          teamwork' = [teamwork EXCEPT ![a] =
             [at |-> "check", role |-> member[a].role, on |-> u, to |-> to, left |-> {}]]
    /\ UNCHANGED <<clerk, invited, deliveries, emitted, org, member, onboarding, founders,
                   blessed, released>>

\* The target's role is asked of Clerk.
CheckTarget(a) ==
    LET work == teamwork[a]
        target == clerk[work.on]
        allowed == target.in /\ MayDo(work.role, Resolved(target), work.to)
    IN  /\ work.at = "check"
        /\ teamwork' = [teamwork EXCEPT ![a] =
              IF ~allowed THEN NoTeamwork
              ELSE [work EXCEPT !.at = "write",
                                !.left = IF work.to = NoRole THEN {"remove"}
                                         ELSE {"coarse", "meta"}]]
        /\ released' = IF allowed /\ work.role = "owner" THEN released \cup {work.on}
                       ELSE released
        /\ blessed' = IF allowed /\ work.role = "owner" /\ work.to = "owner"
                      THEN blessed \cup {work.on} ELSE blessed
        /\ UNCHANGED <<clerk, invited, deliveries, emitted, org, member, onboarding, teamRequests,
                       founders>>

\* Clerk is told: the two halves of a role are two requests, in either order.
\* A membership that is gone cannot be written.
WriteClerk(a) ==
    LET work == teamwork[a]
        target == clerk[work.on]
        rest(done) == IF work.left = {done} THEN NoTeamwork
                      ELSE [work EXCEPT !.left = @ \ {done}]
    IN  /\ work.at = "write"
        /\ \E write \in work.left :
              /\ teamwork' = [teamwork EXCEPT ![a] = rest(write)]
              /\ IF ~target.in THEN UNCHANGED <<clerk, deliveries, emitted>>
                 ELSE Reports(work.on, CASE write = "remove" -> [target EXCEPT !.in = FALSE]
                                         [] write = "coarse" ->
                                               [target EXCEPT !.coarse = ClerkRole(work.to)]
                                         [] write = "meta" -> [target EXCEPT !.meta = work.to])
        /\ UNCHANGED <<invited, org, member, onboarding, teamRequests, founders, blessed, released>>

-----------------------------------------------------------------------------
OrgNext ==
    \/ \E e \in deliveries : ApplyMembership(e)
    \/ \E u \in Users :
          \/ AcceptInvitation(u) \/ ChangeInClerk(u)
          \/ BeginOnboarding(u) \/ ReadOrganization(u) \/ WriteOrganization(u)
          \/ CommitOnboarding(u)
          \/ BeginTeamwork(u) \/ CheckTarget(u) \/ WriteClerk(u)
          \/ \E v \in Users : Invite(u, v) \/ RevokeInvitation(u, v)

OrgSpec == OrgInit /\ [][OrgNext]_orgVars

-----------------------------------------------------------------------------
(* Properties                                                              *)

OrgTypeOK ==
    /\ clerk \in [Users -> ClerkRow]
    /\ invited \in [Users -> Roles \cup {NoRole}]
    /\ deliveries \subseteq [n : 1..MaxEvents, user : Users, in : BOOLEAN,
                             coarse : {"org:admin", "org:member"}, meta : Roles \cup {NoRole}]
    /\ emitted \in 1..MaxEvents
    /\ org \in OrgRow
    /\ member \in [Users -> MemberRow]
    /\ onboarding \in [Users -> [at : {"none", "read", "write", "commit"},
                                 what : {"save", "complete"}, revision : 0..MaxRevision,
                                 role : Roles \cup {NoRole},
                                 write : {"skip", "create", "update", "upsert"},
                                 first : BOOLEAN]]
    /\ teamRequests \in 0..MaxRequests
    /\ teamwork \in [Users -> [at : {"none", "check", "write"}, role : Roles \cup {NoRole},
                               on : Users, to : Roles \cup {NoRole},
                               left : SUBSET {"coarse", "meta", "remove"}]]
    /\ founders \subseteq Users /\ blessed \subseteq Users /\ released \subseteq Users

\* However onboardings overlap, one member at most is made owner by them.
OneFounder == Cardinality(founders) <= 1

\* Nobody is an owner, in the rows or in Clerk, who was not made one by the
\* onboarding or by an owner, whatever invitations, requests and webhooks are
\* still under way.
OwnersAreMade ==
    \A u \in Users :
       /\ member[u].role = "owner" => u \in founders \cup blessed
       /\ "owner" \in {clerk[u].meta, invited[u]} => u \in blessed

OrganizationInv == OrgTypeOK /\ OneFounder /\ OwnersAreMade

\* A save never replaces one with a higher number, nor what completing the
\* onboarding left, when the same user made both.
ProgressIsKept ==
    [][\A u \in Users :
          onboarding[u].at = "commit" /\ onboarding[u].what = "save" /\ onboarding'[u] = NoTx
          /\ onboarding[u].write # "skip" /\ org.exists /\ org.by = u
          => ~org.completed /\ onboarding[u].revision >= org.revision]_orgVars

\* "The user completing onboarding for a brand-new organization becomes owner",
\* and "an admin can never act on an owner": an owner made by the onboarding
\* remains one until an owner, or somebody in Clerk's own pages, says otherwise.
OwnerIsKept == \A u \in founders \ released : member[u].role = "owner" /\ member[u].active
=============================================================================
