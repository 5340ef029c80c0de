\* The creator of an organization alone with the webhook of its own membership.
CONSTANTS
    Users = {a1, a2}
    Creator = a1
    MaxEvents = 3
    MaxRevision = 1
    MaxRequests = 1
    TeamRoles = {}

SPECIFICATION OrgSpec

INVARIANT OwnerIsKept

\* What is bounded runs out.
CHECK_DEADLOCK FALSE
