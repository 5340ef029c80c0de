--------------------------- MODULE CandidateReviews ---------------------------
(***************************************************************************)
(* The recruiter's review of a candidate: a decision and a note            *)
(* (candidate-review-workflow.ts, candidate-review-policy.ts).             *)
(*                                                                         *)
(* The queue saves the decision, the autosave of the detail page the note, *)
(* its form both. Each update reads the row and writes it in a transaction *)
(* of the default isolation, so two of them may have read the same row.    *)
(***************************************************************************)
EXTENDS Naturals

CONSTANTS
    Reviews,            \* candidate sessions under review
    Updates,            \* updates under way
    ReviewNotes,        \* texts of a note, the empty one apart
    MaxReviewEvents     \* bound on the updates that change something

VARIABLES
    review,             \* reviewStatus and reviewNote of each session
    updates,            \* what each update was asked for, and will write
    reviewEvents        \* CandidateSessionReviewEvent rows written so far

reviewVars == <<review, updates, reviewEvents>>

NoNote == "none"
Decisions == {"to_review", "to_call", "rejected"}
Keep == "keep"          \* what an update leaves alone

ReviewRow == [status : Decisions, note : ReviewNotes \cup {NoNote}]

NoUpdate == [asked |-> {}, session |-> Keep, status |-> Keep, note |-> Keep]

ReviewsInit ==
    /\ review = [s \in Reviews |-> [status |-> "to_review", note |-> NoNote]]
    /\ updates = [u \in Updates |-> NoUpdate]
    /\ reviewEvents = 0

\* Mistake for the checks to catch: what was not asked for is written as it was read.
Changed_WriteBack(field, row, asked, value) == IF field \in asked THEN value ELSE row[field]

\* prepareCandidateReviewUpdate: what is asked for is written if it differs from
\* what was read; the rest is left alone.
Changed(field, row, asked, value) ==
    IF field \in asked /\ row[field] # value THEN value ELSE Keep

\* The row is read and the update prepared; a viewer may not.
ReadReview(u) ==
    /\ updates[u] = NoUpdate
    /\ reviewEvents < MaxReviewEvents
    /\ \E s \in Reviews, asked \in {{"status"}, {"note"}, {"status", "note"}},
          status \in Decisions, note \in ReviewNotes \cup {NoNote} :
          updates' = [updates EXCEPT ![u] =
             [asked |-> asked, session |-> s,
              status |-> Changed("status", review[s], asked, status),
              note |-> Changed("note", review[s], asked, note)]]
    /\ UNCHANGED <<review, reviewEvents>>

\* What changed is written, with an event for each field.
WriteReview(u) ==
    LET plan == updates[u]
        changes == {field \in {"status", "note"} : plan[field] # Keep}
    IN  /\ updates[u] # NoUpdate
        /\ review' = [review EXCEPT ![plan.session] =
              [field \in {"status", "note"} |-> IF field \in changes THEN plan[field] ELSE @[field]]]
        /\ reviewEvents' = IF changes = {} THEN reviewEvents ELSE reviewEvents + 1
        /\ updates' = [updates EXCEPT ![u] = NoUpdate]

ReviewsNext == \E u \in Updates : ReadReview(u) \/ WriteReview(u)

ReviewsSpec == ReviewsInit /\ [][ReviewsNext]_reviewVars

-----------------------------------------------------------------------------
ReviewsTypeOK ==
    /\ review \in [Reviews -> ReviewRow]
    /\ \A u \in Updates :
          /\ updates[u].asked \subseteq {"status", "note"}
          /\ updates[u].session \in Reviews \cup {Keep}
          /\ updates[u].status \in Decisions \cup {Keep}
          /\ updates[u].note \in ReviewNotes \cup {NoNote, Keep}
    /\ reviewEvents \in Nat

\* A decision leaves the note as it is, and a note the decision, also when both are
\* saved at once and each has read the row before the other wrote it: "the dashboard
\* queue only flips the review status and must not wipe a recruiter note".
ReviewsDoNotCollide ==
    [][\A u \in Updates : \A field \in {"status", "note"} :
          updates[u] # NoUpdate /\ updates'[u] = NoUpdate /\ field \notin updates[u].asked =>
              \A s \in Reviews : review'[s][field] = review[s][field]]_reviewVars
=============================================================================
