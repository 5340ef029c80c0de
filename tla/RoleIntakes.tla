----------------------------- MODULE RoleIntakes -----------------------------
(***************************************************************************)
(* Role intakes of the console (role-intake-service.ts): a job brief, as a *)
(* file put in a private bucket or as a public link, is read by a worker   *)
(* under a lease, reviewed by a recruiter and turned into one Job.         *)
(*                                                                         *)
(* Only the claim, the review and the consumption name the state they      *)
(* change in their WHERE clause; every other write names the row alone, so *)
(* a step here is one statement, and what a worker or a request has read   *)
(* may be long past when it writes.                                        *)
(***************************************************************************)
EXTENDS Naturals, FiniteSets

CONSTANTS
    Intakes,            \* rows of RoleIntake of one organization
    Workers,            \* processes running the worker loop
    Uploads,            \* requests finalizing an upload
    IntakeAttempts,     \* attempts before an intake has failed
    IntakeFaults        \* failed calls, crashes and lost requests

ASSUME IntakeAssumption ==
    /\ IntakeAttempts \in Nat \ {0}
    /\ IntakeFaults \in Nat

VARIABLES
    intakes,            \* the rows
    bucket,             \* raw files, by intake and by prefix
    jobs,               \* Jobs created from each intake
    readers,            \* what each worker has claimed and found
    uploads,            \* what each finalization has left to do
    expiring,           \* the list a reconciliation is working through
    mishaps

intakeVars == <<intakes, bucket, jobs, readers, uploads, expiring, mishaps>>

IntakeStatus == {"none", "uploading", "quarantined", "queued", "processing",
                 "ready_for_review", "consumed", "failed", "expired"}

Intake == [status : IntakeStatus, kind : {"none", "file", "url"}, job : BOOLEAN,
           lease : {"none", "held", "over"}, tries : 0 .. IntakeAttempts,
           quarantine : BOOLEAN, sealed : BOOLEAN, expired : BOOLEAN]

NoIntake == [status |-> "none", kind |-> "none", job |-> FALSE, lease |-> "none", tries |-> 0,
             quarantine |-> FALSE, sealed |-> FALSE, expired |-> FALSE]

Quarantined(i) == <<i, "quarantine">>

Sealed(i) == <<i, "sealed">>

\* The files a row names. A worker, a request or a reconciliation goes by the
\* files the row named when it was read.
FilesOf(i) == {f \in {Quarantined(i), Sealed(i)} :
                  IF f = Sealed(i) THEN intakes[i].sealed ELSE intakes[i].quarantine}

Resting == [pc |-> "idle", intake |-> "none", files |-> {}, last |-> FALSE, found |-> "none"]

IntakesInit ==
    /\ intakes = [i \in Intakes |-> NoIntake]
    /\ bucket = {}
    /\ jobs = [i \in Intakes |-> 0]
    /\ readers = [w \in Workers |-> Resting]
    /\ uploads = [u \in Uploads |-> Resting]
    /\ expiring = {}
    /\ mishaps = 0

Mishap == mishaps < IntakeFaults /\ mishaps' = mishaps + 1

SetIntake(i, changes) == intakes' = [intakes EXCEPT ![i] = changes]

-----------------------------------------------------------------------------
(* The recruiter.                                                          *)

\* createRoleIntakeUpload: without a signed link the intake has failed; with one
\* the browser puts the file, or never does.
CreateUpload(i) ==
    /\ intakes[i].status = "none"
    /\ \/ /\ bucket' \in {bucket, bucket \cup {Quarantined(i)}}
          /\ SetIntake(i, [NoIntake EXCEPT !.kind = "file", !.status = "uploading", !.quarantine = TRUE])
       \/ /\ UNCHANGED bucket
          /\ SetIntake(i, [NoIntake EXCEPT !.kind = "file", !.status = "failed", !.quarantine = TRUE])
    /\ UNCHANGED <<jobs, readers, uploads, expiring, mishaps>>

\* createRoleIntakeUrl: a link that failed or expired is started again in place.
SubmitUrl(i) ==
    /\ \/ intakes[i].status = "none"
       \/ intakes[i].kind = "url" /\ intakes[i].status \in {"failed", "expired"}
    /\ SetIntake(i, [intakes[i] EXCEPT !.kind = "url", !.status = "queued", !.lease = "none",
                                 !.tries = 0, !.expired = FALSE])
    /\ UNCHANGED <<bucket, jobs, readers, uploads, expiring, mishaps>>

\* finalizeRoleIntakeUpload reads the row and the object's metadata. An object
\* that is not the file that was declared counts as missing here.
BeginFinalize(u) ==
    /\ uploads[u] = Resting
    /\ \E i \in Intakes :
          /\ intakes[i].kind = "file"
          /\ intakes[i].status = "uploading"
          /\ \E pc \in {"copy", "clean"} :
                /\ uploads' = [uploads EXCEPT ![u] = [Resting EXCEPT !.pc = pc, !.intake = i,
                                                                    !.files = FilesOf(i)]]
                /\ IF pc = "clean" /\ Quarantined(i) \in bucket
                   THEN Mishap
                   ELSE UNCHANGED mishaps /\ (pc = "copy" <=> Quarantined(i) \in bucket)
    /\ UNCHANGED <<intakes, bucket, jobs, readers, expiring>>

\* Its steps in order: the copy, `quarantined`, the deletion, `queued`.
Finalize(u, pc, next) ==
    /\ uploads[u].pc = pc
    /\ uploads' = [uploads EXCEPT ![u] = next]
    /\ UNCHANGED <<jobs, readers, expiring>>

\* From the copy on, a failure cleans up the sealed file too.
InHand(u) == uploads[u].files \cup {Sealed(uploads[u].intake)}

CopyUpload(u) ==
    LET i == uploads[u].intake
    IN  \/ /\ Finalize(u, "copy", [uploads[u] EXCEPT !.pc = "seal", !.files = InHand(u)])
           /\ Quarantined(i) \in bucket
           /\ bucket' = bucket \cup {Sealed(i)}
           /\ UNCHANGED <<intakes, mishaps>>
        \/ /\ Finalize(u, "copy", [uploads[u] EXCEPT !.pc = "clean", !.files = InHand(u)])
           /\ Quarantined(i) \notin bucket
           /\ UNCHANGED <<intakes, bucket, mishaps>>

SealUpload(u) ==
    LET i == uploads[u].intake
    IN  /\ Finalize(u, "seal", [uploads[u] EXCEPT !.pc = "remove"])
        /\ SetIntake(i, [intakes[i] EXCEPT !.sealed = TRUE, !.status = "quarantined"])
        /\ UNCHANGED <<bucket, mishaps>>

RemoveUpload(u) ==
    LET i == uploads[u].intake
    IN  \/ /\ Finalize(u, "remove", [uploads[u] EXCEPT !.pc = "queue"])
           /\ bucket' = bucket \ {Quarantined(i)}
           /\ UNCHANGED <<intakes, mishaps>>
        \/ /\ Finalize(u, "remove", [uploads[u] EXCEPT !.pc = "clean"])
           /\ Mishap
           /\ UNCHANGED <<intakes, bucket>>

QueueUpload(u) ==
    LET i == uploads[u].intake
    IN  /\ Finalize(u, "queue", Resting)
        /\ SetIntake(i, [intakes[i] EXCEPT !.quarantine = FALSE, !.status = "queued"])
        /\ UNCHANGED <<bucket, mishaps>>

\* cleanupAndFailRoleIntake: the files, if the bucket lets it, and then the row,
\* which keeps naming what could not be deleted.
Cleaned(files, deleted) ==
    IF deleted THEN bucket' = bucket \ files /\ UNCHANGED mishaps
               ELSE UNCHANGED bucket /\ Mishap

\* Mistake for the checks to catch: a failed row starts over, its job forgotten.
Failed_Anew(i, kept) ==
    [NoIntake EXCEPT !.status = "failed", !.kind = intakes[i].kind,
                     !.quarantine = Quarantined(i) \in kept, !.sealed = Sealed(i) \in kept]

Failed(i, kept) ==
    [intakes[i] EXCEPT !.status = "failed", !.lease = "none",
                       !.quarantine = Quarantined(i) \in kept, !.sealed = Sealed(i) \in kept]

FailUpload(u) ==
    \/ /\ \E deleted \in BOOLEAN :
             /\ Cleaned(uploads[u].files, deleted)
             /\ Finalize(u, "clean", [uploads[u] EXCEPT !.pc = "fail",
                                                         !.files = IF deleted THEN {} ELSE @])
       /\ UNCHANGED intakes
    \/ /\ Finalize(u, "fail", Resting)
       /\ SetIntake(uploads[u].intake, Failed(uploads[u].intake, uploads[u].files))
       /\ UNCHANGED <<bucket, mishaps>>

\* Mistake for the checks to catch: only the status says whether a role was made.
Consumable_ByStatus(row) == row.status = "ready_for_review"

\* consumeRoleIntake, under the row's lock: an intake that has its job answers
\* with it.
Consumable(row) == ~row.job /\ row.status = "ready_for_review"

Consume(i) ==
    /\ Consumable(intakes[i])
    /\ jobs' = [jobs EXCEPT ![i] = @ + 1]
    /\ SetIntake(i, [intakes[i] EXCEPT !.job = TRUE, !.status = "consumed"])
    /\ UNCHANGED <<bucket, readers, uploads, expiring, mishaps>>

-----------------------------------------------------------------------------
(* The worker.                                                             *)

\* processNextRoleIntake claims by the status it saw.
ClaimIntake(w) ==
    /\ readers[w] = Resting
    /\ \E i \in Intakes :
          /\ intakes[i].status = "queued"
          /\ ~intakes[i].expired
          /\ LET row == [intakes[i] EXCEPT !.status = "processing", !.lease = "held",
                                           !.tries = IF @ < IntakeAttempts THEN @ + 1 ELSE @]
             IN  /\ SetIntake(i, row)
                 /\ readers' = [readers EXCEPT ![w] =
                       [pc |-> "read", intake |-> i, files |-> FilesOf(i),
                        last |-> row.tries = IntakeAttempts, found |-> "none"]]
    /\ UNCHANGED <<bucket, jobs, uploads, expiring, mishaps>>

\* fetchRoleIntakePublicPage: an outage of the site is tried again, and the last
\* one fails the intake.
PageFindings(w) == {"failed", "ready"} \cup IF readers[w].last THEN {} ELSE {"retry"}

\* scanRoleIntakeDocument and extractRoleIntakeDocument: without its scanner a file
\* waits, and stays even when the last attempt has failed (`unscanned`). Anything
\* else fails it at once, and so does another intake of the same file or page.
FileFindings(w) ==
    IF Sealed(readers[w].intake) \notin readers[w].files THEN {"unscanned"}
    ELSE IF Sealed(readers[w].intake) \notin bucket THEN {"failed"}
    ELSE {"failed", "ready", IF readers[w].last THEN "unscanned" ELSE "retry"}

Findings(w) ==
    IF intakes[readers[w].intake].kind = "file" THEN FileFindings(w) ELSE PageFindings(w)

Read(w) ==
    /\ readers[w].pc = "read"
    /\ \E found \in Findings(w) :
          readers' = [readers EXCEPT
             ![w].found = found,
             ![w].pc = IF intakes[readers[w].intake].kind = "url" \/ found \in {"retry", "unscanned"}
                       THEN "write" ELSE "delete"]
    /\ UNCHANGED <<intakes, bucket, jobs, uploads, expiring, mishaps>>

\* The sealed file is deleted before the row says what was read; a failure to
\* delete it fails the intake.
DeleteSealed(w) ==
    /\ readers[w].pc = "delete"
    /\ \E deleted \in BOOLEAN :
          /\ Cleaned(readers[w].files, deleted)
          /\ readers' = [readers EXCEPT ![w].pc = "write",
                                        ![w].files = IF deleted THEN {} ELSE @,
                                        ![w].found = IF deleted THEN @ ELSE "failed"]
    /\ UNCHANGED <<intakes, jobs, uploads, expiring>>

\* What the worker found, written to the row whatever became of it.
WriteFound(w) ==
    LET i == readers[w].intake
        found == readers[w].found
    IN  /\ readers[w].pc = "write"
        /\ SetIntake(i, CASE found = "retry" -> [intakes[i] EXCEPT !.status = "queued", !.lease = "none"]
                    [] found = "ready" -> [intakes[i] EXCEPT !.status = "ready_for_review",
                                                             !.lease = "none", !.sealed = FALSE]
                    [] found = "unscanned" \/ intakes[i].kind = "url" ->
                          [intakes[i] EXCEPT !.status = "failed", !.lease = "none"]
                    [] OTHER -> Failed(i, readers[w].files))
        /\ readers' = [readers EXCEPT ![w] = Resting]
        /\ UNCHANGED <<bucket, jobs, uploads, expiring, mishaps>>

\* A worker or a request dies where it is.
Dies ==
    /\ Mishap
    /\ \/ /\ \E w \in Workers : readers[w] # Resting /\ readers' = [readers EXCEPT ![w] = Resting]
          /\ UNCHANGED uploads
       \/ /\ \E u \in Uploads : uploads[u] # Resting /\ uploads' = [uploads EXCEPT ![u] = Resting]
          /\ UNCHANGED readers
    /\ UNCHANGED <<intakes, bucket, jobs, expiring>>

-----------------------------------------------------------------------------
(* Time and reconciliation.                                                *)

\* The five minutes of a lease, the day of an intake.
Passes(i) ==
    /\ \/ intakes[i].lease = "held" /\ SetIntake(i, [intakes[i] EXCEPT !.lease = "over"])
       \/ /\ intakes[i].status # "none" /\ ~intakes[i].expired
          /\ SetIntake(i, [intakes[i] EXCEPT !.expired = TRUE])
    /\ UNCHANGED <<bucket, jobs, readers, uploads, expiring, mishaps>>

\* Mistake for the checks to catch: only an intake that was never tried before
\* is taken back.
Reclaimed_Once(row) == row.status = "processing" /\ row.lease = "over" /\ row.tries = 1

Reclaimed(row) == row.status = "processing" /\ row.lease = "over"

\* reconcileRoleIntakes: abandoned work is queued again, and so is an upload
\* whose finalization stopped half way.
Reclaim ==
    LET back == {i \in Intakes : \/ Reclaimed(intakes[i])
                                 \/ intakes[i].status = "quarantined" /\ intakes[i].sealed}
    IN  /\ back # {}
        /\ intakes' = [i \in Intakes |-> IF i \in back
                                         THEN [intakes[i] EXCEPT !.status = "queued", !.lease = "none"]
                                         ELSE intakes[i]]
        /\ UNCHANGED <<bucket, jobs, readers, uploads, expiring, mishaps>>

Expirable == {i \in Intakes : intakes[i].expired /\ intakes[i].status # "consumed"}

\* A hundred rows of the query, in no order, with the files they name.
BeginExpiry ==
    /\ expiring = {}
    /\ \E list \in SUBSET Expirable :
          expiring' = {[intake |-> i, files |-> FilesOf(i)] : i \in list}
    /\ expiring' # {}
    /\ UNCHANGED <<intakes, bucket, jobs, readers, uploads, mishaps>>

Expire(e) ==
    /\ e \in expiring
    /\ expiring' = expiring \ {e}
    /\ \E deleted \in BOOLEAN :
          /\ Cleaned(e.files, deleted)
          /\ SetIntake(e.intake, [Failed(e.intake, IF deleted THEN {} ELSE e.files)
                               EXCEPT !.status = "expired", !.lease = intakes[e.intake].lease])
    /\ UNCHANGED <<jobs, readers, uploads>>

-----------------------------------------------------------------------------
IntakesNext ==
    \/ \E i \in Intakes : CreateUpload(i) \/ SubmitUrl(i) \/ Consume(i) \/ Passes(i)
    \/ \E u \in Uploads : BeginFinalize(u) \/ CopyUpload(u) \/ SealUpload(u) \/ RemoveUpload(u)
                             \/ QueueUpload(u) \/ FailUpload(u)
    \/ \E w \in Workers : ClaimIntake(w) \/ Read(w) \/ DeleteSealed(w) \/ WriteFound(w)
    \/ Dies
    \/ Reclaim
    \/ BeginExpiry
    \/ \E e \in expiring : Expire(e)

\* The worker loop and its reconciliation run on; leases end. (Of several
\* expired intakes the query may return the same ones for ever: see README.)
IntakesFairness ==
    /\ \A w \in Workers : /\ WF_intakeVars(ClaimIntake(w))
                          /\ WF_intakeVars(Read(w) \/ DeleteSealed(w) \/ WriteFound(w))
    /\ \A i \in Intakes : WF_intakeVars(intakes[i].lease = "held" /\ Passes(i))
    /\ WF_intakeVars(Reclaim)
    /\ WF_intakeVars(BeginExpiry \/ \E e \in expiring : Expire(e))

IntakesSpec == IntakesInit /\ [][IntakesNext]_intakeVars /\ IntakesFairness

-----------------------------------------------------------------------------
\* In particular, a row tells whether its job was made whatever is written over it.
IntakesTypeOK ==
    /\ intakes \in [Intakes -> Intake]
    /\ bucket \subseteq Intakes \X {"quarantine", "sealed"}
    /\ \A i \in Intakes : intakes[i].job <=> jobs[i] > 0
    /\ mishaps \in 0 .. IntakeFaults

\* "Converts a recruiter-approved intake into exactly one Job": whatever a late
\* worker, a late finalization or an expiry writes over a consumed intake, it
\* never makes a second Job.
OneJobPerIntake == \A i \in Intakes : jobs[i] <= 1

\* An intake does not wait for a worker for ever: whoever died over it, whatever
\* was out of order and however often, it comes to a review, a failure or its
\* expiry.
IntakesSettle ==
    \A i \in Intakes : intakes[i].status \in {"queued", "processing"}
                           ~> intakes[i].status \notin {"queued", "processing"}
\* One Job per intake, and rows of their types.
IntakesInv == IntakesTypeOK /\ OneJobPerIntake
=============================================================================
