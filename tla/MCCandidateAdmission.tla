------------------------ MODULE MCCandidateAdmission ------------------------
(***************************************************************************)
(* A small instance of CandidateAdmission for TLC: one organization with   *)
(* its free credits only, no purchase.  Either requests overlap on one     *)
(* attempt, or one request at a time makes more of them.                   *)
(***************************************************************************)
EXTENDS CandidateAdmission, TLC

CONSTANTS s1, s2, r1, r2, eur

VARIABLE overlaps

MCNoPayment == [p \in {} |-> 0]

MCAdmissionVars == <<admissionVars, overlaps>>

\* Requests overlap on an invitation: a public link takes the same steps but the closing.
MCAdmissionInit ==
    /\ AdmissionInit
    /\ overlaps \in BOOLEAN
    /\ overlaps => invitation = "open"

AtMostOne(S) == \A x, y \in S : x = y

\* Requests that overlap come in the first hour, and find their room running. By the
\* last hour every hold, and the free credits of an organization that began at once, are due.
LastHour == 2

MCAdmissionNext ==
    /\ AdmissionNext
    /\ clock' <= LastHour
    /\ IF overlaps
       THEN /\ AtMostOne({s \in Sessions : attempts'[s].status # "none"})
            /\ clock = 0 \/ \A r \in Requests : At(r, "idle") => requests'[r] = Idle
            /\ \A r \in Requests : At(r, "provision") => requests'[r].kind # "completed"
       ELSE AtMostOne({r \in Requests : requests'[r] # Idle})
    /\ UNCHANGED overlaps

MCAdmissionSpec == MCAdmissionInit /\ [][MCAdmissionNext]_MCAdmissionVars

\* Attempts are interchangeable, and so are requests.
MCSymmetry == Permutations(Sessions) \cup Permutations(Requests)
=============================================================================
