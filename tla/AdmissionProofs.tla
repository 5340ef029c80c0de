--------------------------- MODULE AdmissionProofs ---------------------------
(***************************************************************************)
(* Proofs about CandidateAdmission, for any number of attempts, any number *)
(* of overlapping requests and any crash: no room without a credit, no     *)
(* credit kept by an attempt that has ended, terminal statuses final, and  *)
(* one charge per invitation where requests and attempts follow one        *)
(* another.                                                                *)
(*                                                                         *)
(* Every action but three is a step of one request, so the proof has two   *)
(* halves: what a step of a request may do to the rows (Move), with one    *)
(* lemma that such steps keep the invariant, and one lemma per handler     *)
(* statement that it is such a step.                                       *)
(***************************************************************************)
EXTENDS CandidateAdmission, CreditLedgerProofs

-----------------------------------------------------------------------------
(* The inductive invariant.                                                *)

Pcs == {"idle", "create", "admit", "delete", "readmit", "resume", "provision", "submit",
        "close", "settle", "record", "conclude", "supersede", "reply"}

\* The request works on an attempt; on one the interview of which is not over;
\* after a credit was held for it.
Working == Pcs \ {"idle", "create"}

Early == {"admit", "readmit", "resume", "provision", "submit"}

Paid == Working \ {"admit", "readmit", "delete"}

\* What a request knows where it is.
RequestOK(q) ==
    /\ q.pc = "idle" => q = Idle
    /\ q.pc \in Working => q.attempt \in Sessions
    /\ q.pc \in {"create", "admit", "delete", "readmit", "resume"} =>
          q.via \in {"provision", "submit"}
    /\ q.pc \in Early \cup {"create", "delete"} => q.kind = "none" /\ q.then = "idle"
    /\ q.pc \in {"close", "settle"} => q.kind \in Ended
    /\ q.pc = "close" => q.kind # "superseded"
    /\ q.pc = "record" => q.kind = "completed"
    /\ q.pc = "conclude" \/ q.then = "conclude" => q.kind # "superseded"
    /\ q.pc = "supersede" \/ q.then = "supersede" \/ q.kind = "superseded" => q.old \in Sessions

RequestsOK == \A r \in Requests : RequestOK(requests[r])

\* What a request names is a row.
NamedExist ==
    \A r \in Requests : \A s \in Sessions :
        attempts[s].status = "none" =>
            s # requests[r].attempt /\ s # requests[r].old /\ s \notin requests[r].found

\* Until its credit is held a new attempt belongs to the request that made it.
NewIsOwned ==
    \A r \in Requests : requests[r].pc \in {"admit", "delete"} =>
        /\ attempts[requests[r].attempt].status = "starting"
        /\ ~attempts[requests[r].attempt].told
        /\ requests[r].old # requests[r].attempt
        /\ \A o \in Requests \ {r} :
              /\ requests[o].attempt # requests[r].attempt
              /\ requests[o].old # requests[r].attempt

\* A request past its admission works on an attempt that had a credit.
PaidFirst ==
    \A r \in Requests : requests[r].pc \in Paid =>
        db.reservations[requests[r].attempt].status # "none"

\* The request that has yet to settle, or to revive, attempt s.
Keeps(q, s) == q.pc \in {"resume", "close", "settle"} /\ Target(q) = s

\* What makes EndedIsSettled inductive: a credit still held by an ended attempt
\* has a request on its way to it.
EndedHasAKeeper ==
    \A s \in Sessions :
        attempts[s].status \in Ended /\ s \notin lost /\ db.reservations[s].status = "held" =>
            \E r \in Requests : Keeps(requests[r], s)

\* A request writes a status only to attempts that had not ended for good when
\* it came.
CameBefore ==
    \A r \in Requests :
        /\ requests[r].pc \in Early => requests[r].attempt \notin requests[r].found
        /\ requests[r].old \in Sessions => requests[r].old \notin requests[r].found

\* As long as requests and attempts follow one another, a status is what the
\* request in flight takes it to be.
Calm ==
    /\ ~Crowded
    /\ \A r \in Requests :
          /\ requests[r].pc \in Early => attempts[requests[r].attempt].status = "starting"
          /\ requests[r].old \in Sessions =>
                attempts[requests[r].old].status \in {"failed", "abandoned", "superseded"}
          /\ requests[r].pc \in {"close", "settle", "record", "conclude"}
                /\ requests[r].kind = "completed" =>
                    attempts[requests[r].attempt].status = "completed"
    /\ \A s \in Sessions :
          db.reservations[s].status = "captured" => attempts[s].status = "completed"

\* The completed attempts whose requests told the invitation, or still will.
Done == {s \in Sessions : attempts[s].status = "completed" /\ s \notin lost}

WillConclude(q, s) ==
    /\ q.attempt = s /\ q.kind = "completed"
    /\ \/ q.pc \in {"close", "conclude"}
       \/ q.pc \in {"settle", "record"} /\ q.then = "conclude"

\* A request that neither begins an attempt nor reopens the invitation.
Finishing(q) ==
    /\ q.pc \notin Early \cup {"create", "delete"}
    /\ q.pc = "close" => q.kind = "completed"

\* And then one attempt completes, which closes the invitation.
Concluded ==
    /\ \A s \in Done :
          invitation \in InvitationClosed \/ \E r \in Requests : WillConclude(requests[r], s)
    /\ Done # {} => Active = {} /\ \A r \in Requests : Finishing(requests[r])
    /\ \A s1, s2 \in Done : s1 = s2

AdmissionIInv ==
    /\ Consistent(db)
    /\ AdmissionTypeOK
    /\ RequestsOK
    /\ NamedExist
    /\ NewIsOwned
    /\ PaidFirst
    /\ RoomsHadACredit
    /\ EndedHasAKeeper
    /\ CameBefore
    /\ ~crowded => Calm
    /\ ~crowded /\ invitation # "none" => Concluded

-----------------------------------------------------------------------------
(* What the ledger does to the reservations.                               *)

\* From d to e the reservation of s stays as it is, or its hold is released.
Fades(d, e, s) ==
    \/ e.reservations[s].status = d.reservations[s].status
    \/ d.reservations[s].status = "held" /\ e.reservations[s].status = "released"

\* Releasing holds changes their status to released, and no other.
LEMMA ReleaseFades ==
    ASSUME NEW d, Consistent(d), NEW S \in SUBSET Held(d)
    PROVE  LET e == releaseReservationRow(d, S)
           IN /\ \A s \in Sessions : Fades(d, e, s)
              /\ \A s \in S : e.reservations[s].status = "released"
              /\ \A s \in Sessions \ S : e.reservations[s] = d.reservations[s]
<1> DEFINE e == releaseReservationRow(d, S)
<1>1. d.reservations \in [Sessions -> ReservationRow] /\ S \subseteq Sessions
  BY ConsistentParts DEF Held
<1>2. e.reservations = [s \in Sessions |->
         IF s \in S THEN [d.reservations[s] EXCEPT !.status = "released"]
                    ELSE d.reservations[s]]
  BY DEF releaseReservationRow
<1>3. \A s \in S : [d.reservations[s] EXCEPT !.status = "released"].status = "released"
  BY <1>1 DEF ReservationRow
<1>4. \A s \in S : d.reservations[s].status = "held"
  BY DEF Held
<1> HIDE DEF e
<1>5. QED
  BY <1>1, <1>2, <1>3, <1>4 DEF Fades, e

\* The sweep of the ledger only lets holds go.
LEMMA SweepFades ==
    ASSUME NEW d, Consistent(d), NEW t
    PROVE  \A s \in Sessions : Fades(d, Sweep(d, t), s)
<1>1. DueHolds(d, t) \in SUBSET Held(d)
  BY DEF DueHolds, Held
<1>2. /\ Consistent(releaseReservationRow(d, DueHolds(d, t)))
      /\ \A s \in Sessions : Fades(d, releaseReservationRow(d, DueHolds(d, t)), s)
  BY <1>1, ReleaseFades, ReleaseKeepsConsistent
<1>3. Sweep(d, t).reservations = releaseReservationRow(d, DueHolds(d, t)).reservations
  BY <1>2, ExpireKeepsConsistent DEF Sweep, releaseExpiredReservationsInTx
<1>4. QED
  BY <1>2, <1>3 DEF Fades

\* A wallet opened for a first admission has the reservations it had.
LEMMA OpenedIsConsistent ==
    ASSUME NEW d, Consistent(d), NEW t \in Nat
    PROVE  Consistent(Opened(d, t)) /\ Opened(d, t).reservations = d.reservations
<1>1. FIRST_FIVE_EXPIRY_DAYS \in Nat
  BY LedgerAssumption
<1>2. CASE d.wallet.exists
  BY <1>2 DEF Opened
<1>3. CASE ~d.wallet.exists
  <2>1. Opened(d, t) = ensureWallet(d, t, FIRST_FIVE_EXPIRY_DAYS)
    BY <1>3 DEF Opened
  <2>2. Consistent(ensureWallet(d, t, FIRST_FIVE_EXPIRY_DAYS))
    BY <1>1, <1>3, EnsureWalletKeepsConsistent
  <2>3. ensureWallet(d, t, FIRST_FIVE_EXPIRY_DAYS).reservations = d.reservations
    BY DEF ensureWallet
  <2>4. QED
    BY <2>1, <2>2, <2>3
<1>4. QED
  BY <1>2, <1>3

\* One session's credit is held, renewed, captured or released.
LEMMA OneReservation ==
    ASSUME NEW d, Consistent(d), NEW s \in Sessions
    PROVE  /\ \A l \in Lots, t \in Nat :
                 /\ Hold(d, s, l, t).reservations[s].status = "held"
                 /\ \A x \in Sessions \ {s} :
                       Hold(d, s, l, t).reservations[x] = d.reservations[x]
           /\ \A t \in Nat : \A x \in Sessions :
                 Renew(d, s, t).reservations[x].status = d.reservations[x].status
           /\ captureReservationForSession(d, s).reservations[s].status = "captured"
           /\ \A x \in Sessions \ {s} :
                 captureReservationForSession(d, s).reservations[x] = d.reservations[x]
<1>1. /\ d.reservations \in [Sessions -> ReservationRow]
      /\ d = [wallet |-> d.wallet, lots |-> d.lots,
              reservations |-> d.reservations, ledger |-> d.ledger]
  BY ConsistentParts
<1>2. ASSUME NEW l \in Lots, NEW t \in Nat
      PROVE  Hold(d, s, l, t).reservations = [d.reservations EXCEPT
               ![s] = [status |-> "held", lot |-> l, expiresAt |-> t + RESERVATION_TTL_HOURS]]
  BY DEF Hold
<1>3. ASSUME NEW t \in Nat
      PROVE  Renew(d, s, t).reservations =
               [d.reservations EXCEPT ![s].expiresAt = t + RESERVATION_TTL_HOURS]
  BY <1>1 DEF Renew
<1>4. captureReservationForSession(d, s).reservations =
         [d.reservations EXCEPT ![s].status = "captured"]
  BY DEF captureReservationForSession
<1>5. ASSUME NEW f \in [Sessions -> ReservationRow], NEW v
      PROVE  /\ [f EXCEPT ![s] = v][s] = v /\ [f EXCEPT ![s].status = v][s].status = v
             /\ [f EXCEPT ![s].expiresAt = v][s].status = f[s].status
             /\ \A x \in Sessions \ {s} : /\ [f EXCEPT ![s] = v][x] = f[x]
                                         /\ [f EXCEPT ![s].status = v][x] = f[x]
                                         /\ [f EXCEPT ![s].expiresAt = v][x] = f[x]
  BY DEF ReservationRow
<1>6. ASSUME NEW l \in Lots, NEW t \in Nat
      PROVE  /\ Hold(d, s, l, t).reservations[s].status = "held"
             /\ \A x \in Sessions \ {s} : Hold(d, s, l, t).reservations[x] = d.reservations[x]
  <2> DEFINE hold == [status |-> "held", lot |-> l, expiresAt |-> t + RESERVATION_TTL_HOURS]
  <2>1. hold.status = "held" /\ Hold(d, s, l, t).reservations = [d.reservations EXCEPT ![s] = hold]
    BY <1>2
  <2> HIDE DEF hold
  <2>2. QED
    BY <1>1, <1>5, <2>1
<1>7. ASSUME NEW t \in Nat, NEW x \in Sessions
      PROVE  Renew(d, s, t).reservations[x].status = d.reservations[x].status
  <2>1. PICK v : Renew(d, s, t).reservations = [d.reservations EXCEPT ![s].expiresAt = v]
    BY <1>3
  <2>2. QED
    BY <1>1, <1>5, <2>1
<1>8. /\ captureReservationForSession(d, s).reservations[s].status = "captured"
      /\ \A x \in Sessions \ {s} :
            captureReservationForSession(d, s).reservations[x] = d.reservations[x]
  BY <1>1, <1>4, <1>5
<1>9. QED
  BY <1>6, <1>7, <1>8

-----------------------------------------------------------------------------
(* A step of one request.                                                  *)

\* What holds of a step that takes request r from p to q, whichever statement
\* it is: the rows it may write, and what it may name.
Writes(p, q) ==
    \A s \in Sessions :
        /\ attempts[s].status # "none" => attempts'[s].status # "none"
        /\ \/ s \in {p.attempt, p.old} \/ attempts[s].status = "none" \/ attempts[s].told
           \/ attempts'[s].status = attempts[s].status /\ attempts'[s].told = attempts[s].told

Names(p, q) ==
    /\ \A s \in Sessions : s \in {q.attempt, q.old} =>
          /\ attempts'[s].status # "none"
          /\ s \in {p.attempt, p.old} \/ attempts[s].status = "none" \/ attempts[s].told
    /\ q.found \in SUBSET Sessions
    /\ \A s \in q.found : attempts'[s].status # "none"
    /\ q.pc \in Early => q.attempt \notin q.found
    /\ q.old \in Sessions => q.old \notin q.found

\* An attempt is new when it is made, and only then.
Makes(p, q) ==
    q.pc \in {"admit", "delete"} =>
        /\ \/ attempts[q.attempt].status = "none"
           \/ p.pc = "admit" /\ p.attempt = q.attempt
        /\ attempts'[q.attempt].status = "starting" /\ ~attempts'[q.attempt].told
        /\ q.old # q.attempt

\* Credits are held before rooms open, and an ended attempt that still holds
\* one is settled by this request or was another's to settle.
Settles(p, q) ==
    /\ \A s \in Sessions :
          db.reservations[s].status # "none" => db'.reservations[s].status # "none"
    /\ q.pc \in Paid => db'.reservations[q.attempt].status # "none"
    /\ \A s \in Sessions :
          attempts'[s].room # "none" \/ attempts'[s].told =>
              \/ attempts[s].room # "none" \/ attempts[s].told
              \/ db'.reservations[s].status # "none"
    /\ lost \subseteq lost'
    /\ \A s \in Sessions :
          attempts'[s].status \in Ended /\ s \notin lost' /\ db'.reservations[s].status = "held" =>
              \/ Keeps(q, s)
              \/ /\ attempts[s].status \in Ended /\ db.reservations[s].status = "held"
                 /\ ~Keeps(p, s)

\* Only what had not ended for good when the request came changes its status.
Spares(p, q) ==
    \A s \in EndedForGood :
        attempts'[s].status = attempts[s].status \/ s \notin p.found

Move(r, q) ==
    /\ requests' = [requests EXCEPT ![r] = q]
    /\ q.pc # requests[r].pc
    /\ q \in Request /\ RequestOK(q)
    /\ Consistent(db') /\ AdmissionTypeOK'
    /\ Writes(requests[r], q) /\ Names(requests[r], q) /\ Makes(requests[r], q)
    /\ Settles(requests[r], q) /\ Spares(requests[r], q)

\* And as long as nothing overlaps.
CalmMove(q) ==
    /\ q.pc \in Early => attempts'[q.attempt].status = "starting"
    /\ q.old \in Sessions => attempts'[q.old].status \in {"failed", "abandoned", "superseded"}
    /\ q.pc \in {"close", "settle", "record", "conclude"} /\ q.kind = "completed" =>
          attempts'[q.attempt].status = "completed"
    /\ \A s \in Sessions :
          db'.reservations[s].status = "captured" => attempts'[s].status = "completed"

ConcludedMove(q) ==
    /\ \A s \in Done' : invitation' \in InvitationClosed \/ WillConclude(q, s)
    /\ Done' # {} => Active' = {} /\ Finishing(q)
    /\ \A s1, s2 \in Done' : s1 = s2

\* While one request is in flight, the others are idle.
Alone(r) == \A o \in Requests \ {r} : requests[o] = Idle

\* The fields of a request that does nothing.
LEMMA IdleFields ==
    /\ Idle \in Request /\ RequestOK(Idle)
    /\ Idle.pc = "idle" /\ Idle.attempt = NoAttempt /\ Idle.old = NoAttempt
    /\ Idle.via = "none" /\ Idle.kind = "none" /\ Idle.outcome = "none"
    /\ Idle.then = "idle" /\ Idle.now = 0 /\ Idle.found = {}
<1>1. /\ Idle.pc = "idle" /\ Idle.attempt = NoAttempt /\ Idle.old = NoAttempt
      /\ Idle.via = "none" /\ Idle.kind = "none" /\ Idle.outcome = "none"
      /\ Idle.then = "idle" /\ Idle.now = 0 /\ Idle.found = {}
  BY DEF Idle
<1>2. Idle \in Request
  BY DEF Idle, Request
<1>3. RequestOK(Idle)
  BY <1>1 DEF RequestOK, Working, Early
<1>4. QED
  BY <1>1, <1>2, <1>3

\* What a step of a request keeps, when nothing is said of overlaps.
LEMMA MoveKeeps ==
    ASSUME AdmissionIInv, NEW r \in Requests, NEW q, Move(r, q)
    PROVE  /\ Consistent(db') /\ AdmissionTypeOK' /\ RequestsOK' /\ NamedExist'
           /\ NewIsOwned' /\ PaidFirst' /\ RoomsHadACredit'
           /\ EndedHasAKeeper' /\ CameBefore'
<1> DEFINE p == requests[r]
<1>1. /\ requests \in [Requests -> Request]
      /\ requests'[r] = q /\ \A o \in Requests \ {r} : requests'[o] = requests[o]
  BY DEF AdmissionIInv, AdmissionTypeOK, Move
<1>2. RequestsOK'
  BY <1>1 DEF RequestsOK, Move, AdmissionIInv
<1>3. NamedExist'
  BY <1>1 DEF NamedExist, Move, AdmissionIInv, Writes, Names
<1>4. NewIsOwned'
  <2>1. SUFFICES ASSUME NEW o \in Requests, requests'[o].pc \in {"admit", "delete"}
                 PROVE  /\ attempts'[requests'[o].attempt].status = "starting"
                        /\ ~attempts'[requests'[o].attempt].told
                        /\ requests'[o].old # requests'[o].attempt
                        /\ \A x \in Requests \ {o} :
                              /\ requests'[x].attempt # requests'[o].attempt
                              /\ requests'[x].old # requests'[o].attempt
    BY DEF NewIsOwned
  <2>2. requests'[o].attempt \in Sessions
    BY <1>2, <2>1 DEF RequestsOK, RequestOK, Working, Pcs
  <2>3. CASE o = r
    <3>1. /\ attempts'[q.attempt].status = "starting" /\ ~attempts'[q.attempt].told
          /\ q.old # q.attempt
      BY <1>1, <2>1, <2>3 DEF Move, Makes
    <3>2. CASE attempts[q.attempt].status = "none"
      BY <1>1, <2>2, <2>3, <3>1, <3>2 DEF AdmissionIInv, NamedExist
    <3>3. CASE p.pc = "admit" /\ p.attempt = q.attempt
      BY <1>1, <2>3, <3>1, <3>3 DEF AdmissionIInv, NewIsOwned
    <3>4. QED
      BY <1>1, <2>1, <2>3, <3>2, <3>3 DEF Move, Makes
  <2>4. CASE o # r
    <3> DEFINE a == requests[o].attempt
    <3>1. /\ requests'[o] = requests[o] /\ a \in Sessions
          /\ attempts[a].status = "starting" /\ ~attempts[a].told
          /\ requests[o].old # a
          /\ \A x \in Requests \ {o} : requests[x].attempt # a /\ requests[x].old # a
      BY <1>1, <2>1, <2>2, <2>4 DEF AdmissionIInv, NewIsOwned
    <3>2. attempts'[a].status = attempts[a].status /\ attempts'[a].told = attempts[a].told
      BY <2>4, <3>1 DEF Move, Writes
    <3>3. q.attempt # a /\ q.old # a
      BY <2>4, <3>1 DEF Move, Names
    <3>4. QED
      BY <1>1, <2>4, <3>1, <3>2, <3>3
  <2>5. QED
    BY <2>3, <2>4
<1>5. PaidFirst'
  <2>1. \A o \in Requests : requests[o].pc \in Paid => requests[o].attempt \in Sessions
    BY DEF AdmissionIInv, RequestsOK, RequestOK, Paid
  <2>2. QED
    BY <1>1, <2>1 DEF PaidFirst, Move, AdmissionIInv, Settles
<1>6. RoomsHadACredit'
  BY DEF RoomsHadACredit, Move, AdmissionIInv, Settles
<1>7. EndedHasAKeeper'
  <2>1. SUFFICES ASSUME NEW s \in Sessions, attempts'[s].status \in Ended, s \notin lost',
                        db'.reservations[s].status = "held"
                 PROVE  \E o \in Requests : Keeps(requests'[o], s)
    BY DEF EndedHasAKeeper, Keeps, Target
  <2>2. CASE Keeps(q, s)
    BY <1>1, <2>2
  <2>3. CASE /\ attempts[s].status \in Ended /\ db.reservations[s].status = "held"
             /\ ~Keeps(p, s)
    BY <1>1, <2>1, <2>3 DEF AdmissionIInv, EndedHasAKeeper, Move, Settles
  <2>4. QED
    BY <2>1, <2>2, <2>3 DEF Move, Settles
<1>8. CameBefore'
  BY <1>1 DEF CameBefore, Move, AdmissionIInv, Names
<1>9. QED
  BY <1>2, <1>3, <1>4, <1>5, <1>6, <1>7, <1>8 DEF Move

\* In a calm the request that moves is the only one.
LEMMA MovesAlone ==
    ASSUME AdmissionIInv, NEW r \in Requests, NEW q, Move(r, q), ~crowded, ~Crowded'
    PROVE  Alone(r)
<1>1. /\ requests \in [Requests -> Request] /\ ~Crowded
      /\ requests'[r] = q /\ \A o \in Requests \ {r} : requests'[o] = requests[o]
  BY DEF AdmissionIInv, AdmissionTypeOK, Move, Calm
<1>2. ASSUME NEW o \in Requests \ {r} PROVE requests[o].pc = "idle"
  <2>1. CASE requests[r].pc # "idle"
    BY <1>1, <2>1 DEF Crowded, At
  <2>2. CASE q.pc # "idle"
    BY <1>1, <2>2 DEF Crowded, At
  <2>3. QED
    BY <2>1, <2>2 DEF Move
<1>3. QED
  BY <1>2 DEF Alone, AdmissionIInv, RequestsOK, RequestOK

\* Nothing overlaps, before and after.
InCalm(r) == ~crowded /\ ~Crowded' /\ Calm /\ Alone(r)

Step(r, q) ==
    /\ Move(r, q)
    /\ InCalm(r) => CalmMove(q)
    /\ InCalm(r) /\ invitation # "none" /\ Concluded => ConcludedMove(q)
    /\ invitation = "none" => invitation' = "none"

\* A step of a request keeps the invariant, what holds in a calm included.
LEMMA MoveKeepsAll ==
    ASSUME AdmissionIInv, NEW r \in Requests, NEW q, Step(r, q),
           crowded' = (crowded \/ Crowded')
    PROVE  AdmissionIInv'
<1>1. /\ Move(r, q) /\ requests'[r] = q
      /\ \A o \in Requests \ {r} : requests'[o] = requests[o]
  BY DEF Step, AdmissionIInv, AdmissionTypeOK, Move
<1>2. ASSUME ~crowded' PROVE ~crowded /\ Calm /\ InCalm(r)
  BY <1>1, <1>2, MovesAlone DEF AdmissionIInv, InCalm
<1>3. ASSUME InCalm(r) PROVE \A o \in Requests \ {r} : requests'[o] = Idle
  BY <1>1, <1>3 DEF InCalm, Alone
<1>4. ASSUME ~crowded' PROVE Calm'
  <2>1. CalmMove(q) /\ ~Crowded' /\ \A o \in Requests \ {r} : requests'[o] = Idle
    BY <1>2, <1>3, <1>4 DEF Step, InCalm
  <2>2. Idle.pc = "idle" /\ Idle.old \notin Sessions
    BY IdleFields, AdmissionAssumption
  <2>3. QED
    BY <1>1, <2>1, <2>2 DEF Calm, CalmMove, Early
<1>5. ASSUME ~crowded', invitation' # "none" PROVE Concluded'
  <2>1. invitation # "none" /\ Concluded /\ InCalm(r)
    BY <1>2, <1>5 DEF Step, AdmissionIInv
  <2>2. ConcludedMove(q) /\ \A o \in Requests \ {r} : requests'[o] = Idle
    BY <1>3, <2>1 DEF Step
  <2>3. Finishing(Idle)
    BY IdleFields DEF Finishing, Early
  <2>4. QED
    BY <1>1, <2>2, <2>3 DEF Concluded, ConcludedMove
<1>6. QED
  BY <1>1, <1>4, <1>5, MoveKeeps DEF AdmissionIInv

-----------------------------------------------------------------------------
(* The statements that leave the ledger alone.                             *)

Statuses == {"none", "deleted", "starting"} \cup Ended

\* The fields of a request, and of one whose next statement or settlement is set.
LEMMA RequestFields ==
    ASSUME NEW p \in Request
    PROVE  /\ p.pc \in Pcs
           /\ p.attempt \in Sessions \cup {NoAttempt} /\ p.old \in Sessions \cup {NoAttempt}
           /\ p.via \in {"none", "provision", "submit"} /\ p.kind \in {"none"} \cup Ended
           /\ p.then \in {"idle", "conclude", "supersede", "reply"}
           /\ p.found \in SUBSET Sessions
  BY DEF Request, Pcs

\* Request q is p with these three fields.
Sets(q, p, pc, kind, then) ==
    /\ q \in Request
    /\ q.pc = pc /\ q.kind = kind /\ q.then = then
    /\ q.attempt = p.attempt /\ q.old = p.old /\ q.via = p.via /\ q.found = p.found

\* The fields of a request whose next statement is set.
LEMMA GotoFields ==
    ASSUME NEW p \in Request, NEW x \in Pcs
    PROVE  Sets([p EXCEPT !.pc = x], p, x, p.kind, p.then)
  BY DEF Request, Pcs, Sets

\* The fields of a request that settles next.
LEMMA SettleFields ==
    ASSUME clock \in Nat, NEW p \in Request, NEW kind \in Ended,
           NEW then \in {"idle", "conclude", "supersede", "reply"}
    PROVE  Sets(Settle(p, kind, then), p, "settle", kind, then)
<1>1. PICK q : q = [p EXCEPT !.pc = "settle", !.kind = kind, !.then = then, !.now = clock]
  OBVIOUS
<1>2. /\ q.pc = "settle" /\ q.kind = kind /\ q.then = then
      /\ q.attempt = p.attempt /\ q.old = p.old /\ q.via = p.via /\ q.found = p.found
  BY <1>1 DEF Request
<1>3. q \in Request
  BY <1>1 DEF Request
<1>4. Settle(p, kind, then) = q
  BY <1>1 DEF Settle
<1> QED
  BY <1>2, <1>3, <1>4 DEF Sets

\* What the invariant says of one request.
LEMMA Where ==
    ASSUME AdmissionIInv, NEW r \in Requests
    PROVE  LET p == requests[r]
           IN /\ p \in Request /\ RequestOK(p) /\ clock \in Nat
              /\ attempts \in [Sessions -> AttemptRow] /\ invitation \in InvitationStatus
              /\ lost \subseteq Sessions
              /\ p.pc \in Working => p.attempt \in Sessions
              /\ \A s \in Sessions : attempts[s].status = "none" =>
                    s # p.attempt /\ s # p.old /\ s \notin p.found
              /\ p.pc \in Early => p.attempt \notin p.found
              /\ p.old \in Sessions => p.old \notin p.found
              /\ p.pc \in Paid => db.reservations[p.attempt].status # "none"
  BY DEF AdmissionIInv, AdmissionTypeOK, TypeOK, RequestsOK, RequestOK, NamedExist, CameBefore,
         PaidFirst

\* The status of one attempt is written.
LEMMA StatusWritten ==
    ASSUME attempts \in [Sessions -> AttemptRow], NEW s \in Sessions, NEW v \in Statuses,
           SetStatus(s, v)
    PROVE  /\ attempts' \in [Sessions -> AttemptRow]
           /\ attempts'[s].status = v /\ attempts'[s].told = attempts[s].told
           /\ attempts'[s].room = attempts[s].room
           /\ \A x \in Sessions \ {s} : attempts'[x] = attempts[x]
  BY DEF SetStatus, AttemptRow, Statuses

\* A statement that touches no credit and begins nothing.
GoesOn(r, q) ==
    LET p == requests[r]
    IN /\ requests' = [requests EXCEPT ![r] = q]
       /\ q.pc # p.pc /\ q \in Request /\ RequestOK(q)
       /\ UNCHANGED vars
       /\ attempts' \in [Sessions -> AttemptRow]
       /\ invitation' \in InvitationStatus
       /\ lost \subseteq lost' /\ lost' \subseteq Sessions
       /\ crowded' = (crowded \/ Crowded')
       /\ q.attempt \in {p.attempt, NoAttempt} /\ q.old \in {p.old, NoAttempt}
       /\ q.found \subseteq p.found
       /\ q.pc \in Early => p.pc \in Early
       /\ q.pc \notin {"admit", "delete"}
       /\ q.pc \in Paid => p.pc \in Paid
       /\ \A s \in Sessions :
             /\ s \in {p.attempt, p.old} \/ attempts'[s] = attempts[s]
             /\ attempts'[s].status = "none" => attempts[s].status = "none"
             /\ attempts'[s].room # "none" \/ attempts'[s].told =>
                   \/ attempts[s].room # "none" \/ attempts[s].told
                   \/ s = p.attempt /\ p.pc \in Paid
             /\ \/ attempts'[s].status = attempts[s].status
                \/ s \notin p.found \/ s \notin EndedForGood
             /\ /\ attempts'[s].status \in Ended /\ s \notin lost'
                /\ db.reservations[s].status = "held"
                => Keeps(q, s) \/ (attempts[s].status \in Ended /\ ~Keeps(p, s))

\* A statement that touches no credit is such a step.
LEMMA GoingOnIsAMove ==
    ASSUME AdmissionIInv, NEW r \in Requests, NEW q, GoesOn(r, q)
    PROVE  Move(r, q)
<1> DEFINE p == requests[r]
<1>1. /\ p \in Request /\ RequestOK(p)
      /\ \A s \in Sessions : attempts[s].status = "none" =>
            s # p.attempt /\ s # p.old /\ s \notin p.found
      /\ p.pc \in Early => p.attempt \notin p.found
      /\ p.old \in Sessions => p.old \notin p.found
      /\ p.pc \in Paid => db.reservations[p.attempt].status # "none"
  BY Where
<1>2. NoAttempt \notin Sessions /\ p.found \subseteq Sessions
  BY <1>1, RequestFields, AdmissionAssumption
<1>3. db' = db /\ clock' = clock
  BY DEF GoesOn, vars
<1>4. Writes(p, q)
  BY <1>1 DEF GoesOn, Writes
<1>5. Names(p, q)
  <2>1. q.pc \in Early => q.attempt \notin q.found
    <3>1. CASE q.attempt = p.attempt
      BY <1>1, <3>1 DEF GoesOn
    <3>2. CASE q.attempt = NoAttempt
      BY <1>2, <3>2 DEF GoesOn
    <3>3. QED
      BY <3>1, <3>2 DEF GoesOn
  <2>2. QED
    BY <1>1, <1>2, <2>1 DEF GoesOn, Names
<1>6. Makes(p, q)
  BY DEF GoesOn, Makes
<1>7. Settles(p, q)
  <2>1. q.pc \in Paid => q.attempt = p.attempt /\ p.pc \in Paid
    <3>1. q.pc \in Paid => q.attempt \in Sessions
      BY DEF GoesOn, RequestOK, Paid
    <3>2. QED
      BY <1>2, <3>1 DEF GoesOn
  <2>2. QED
    BY <1>1, <1>3, <2>1 DEF GoesOn, Settles
<1>8. Spares(p, q)
  BY DEF GoesOn, Spares, EndedForGood
<1>9. AdmissionTypeOK'
  <2>1. TypeOK' /\ requests' \in [Requests -> Request] /\ crowded' \in BOOLEAN
    BY <1>3 DEF AdmissionIInv, AdmissionTypeOK, TypeOK, GoesOn, Crowded
  <2>2. QED
    BY <2>1 DEF GoesOn, AdmissionTypeOK
<1>10. QED
  BY <1>3, <1>4, <1>5, <1>6, <1>7, <1>8, <1>9 DEF Move, GoesOn, AdmissionIInv

\* The step of a request that lets go of everything.
LEMMA GoneIsCalm ==
    ASSUME AdmissionIInv, NEW r \in Requests, Move(r, Idle),
           InCalm(r) => \A s \in Sessions :
               db'.reservations[s].status = "captured" => attempts'[s].status = "completed"
    PROVE  InCalm(r) => CalmMove(Idle)
<1>1. Idle.pc = "idle" /\ Idle.old \notin Sessions
  BY IdleFields, AdmissionAssumption
<1>2. QED
  BY <1>1 DEF CalmMove, Early

\* The row of a start that was refused is deleted, or stays.
LEMMA DeleteOrphanSteps ==
    ASSUME AdmissionIInv, crowded' = (crowded \/ Crowded'), NEW r \in Requests, DeleteOrphan(r)
    PROVE  \E q : Step(r, q)
<1> DEFINE p == requests[r]
           a == p.attempt
<1>1. /\ p \in Request /\ p.pc = "delete" /\ a \in Sessions
      /\ requests' = [requests EXCEPT ![r] = Idle]
      /\ UNCHANGED <<vars, invitation, lost>>
  BY Where DEF DeleteOrphan, At, Finish, Become, Working, Pcs
<1>2. /\ attempts \in [Sessions -> AttemptRow] /\ attempts[a].status = "starting"
      /\ invitation \in InvitationStatus /\ lost \subseteq Sessions
  BY <1>1 DEF AdmissionIInv, AdmissionTypeOK, NewIsOwned
<1>3. /\ attempts' \in [Sessions -> AttemptRow]
      /\ attempts'[a].status \in {"starting", "deleted"} /\ attempts'[a].told = attempts[a].told
      /\ attempts'[a].room = attempts[a].room
      /\ \A x \in Sessions \ {a} : attempts'[x] = attempts[x]
  <2>1. CASE SetStatus(a, "deleted")
    BY <1>1, <1>2, <2>1, StatusWritten DEF Statuses
  <2>2. CASE UNCHANGED attempts
    BY <1>2, <2>2
  <2>3. QED
    BY <2>1, <2>2 DEF DeleteOrphan
<1>4. GoesOn(r, Idle)
  <2>1. ASSUME NEW s \in Sessions, attempts'[s].status \in Ended
        PROVE  attempts[s].status \in Ended /\ ~Keeps(p, s)
    BY <1>1, <1>3, <2>1 DEF Ended, Keeps
  <2>2. a \notin EndedForGood
    BY <1>2 DEF EndedForGood
  <2>3. QED
    BY <1>1, <1>2, <1>3, <2>1, <2>2, IdleFields DEF GoesOn, Early, Paid, Working
<1>5. Move(r, Idle)
  BY <1>4, GoingOnIsAMove
<1>6. ASSUME Calm PROVE \A s \in Sessions :
           db'.reservations[s].status = "captured" => attempts'[s].status = "completed"
  BY <1>1, <1>2, <1>3, <1>6 DEF Calm, vars
<1>7. ASSUME Concluded PROVE ConcludedMove(Idle)
  <2>1. Done = {}
    BY <1>1, <1>7 DEF Concluded, Finishing
  <2>2. Done' = {}
    BY <1>1, <1>3, <2>1 DEF Done
  <2>3. QED
    BY <2>2 DEF ConcludedMove
<1>8. QED
  BY <1>1, <1>5, <1>6, <1>7, GoneIsCalm DEF Step, InCalm

\* A resumed attempt runs again.
LEMMA ResumeAttemptSteps ==
    ASSUME AdmissionIInv, crowded' = (crowded \/ Crowded'), NEW r \in Requests, ResumeAttempt(r)
    PROVE  \E q : Step(r, q)
<1> DEFINE p == requests[r]
           a == p.attempt
           q == [p EXCEPT !.pc = p.via]
<1>1. /\ p.pc = "resume" /\ requests' = [requests EXCEPT ![r] = q]
      /\ UNCHANGED <<vars, invitation, lost>> /\ SetStatus(a, "starting")
  BY DEF ResumeAttempt, At, Goto, Become
<1>2. p \in Request /\ RequestOK(p) /\ a \in Sessions /\ a \notin p.found
  <2>1. p.pc \in Working /\ p.pc \in Early
    BY <1>1 DEF Working, Pcs, Early
  <2>2. QED
    BY <2>1, Where
<1>3. /\ attempts \in [Sessions -> AttemptRow] /\ invitation \in InvitationStatus
      /\ lost \subseteq Sessions
  BY DEF AdmissionIInv, AdmissionTypeOK
<1>4. /\ attempts' \in [Sessions -> AttemptRow]
      /\ attempts'[a].status = "starting" /\ attempts'[a].told = attempts[a].told
      /\ attempts'[a].room = attempts[a].room
      /\ \A x \in Sessions \ {a} : attempts'[x] = attempts[x]
  BY <1>1, <1>2, <1>3, StatusWritten DEF Statuses
<1>5. /\ p.via \in {"provision", "submit"} /\ p.kind = "none" /\ p.then = "idle"
      /\ Target(p) = a
  BY <1>1, <1>2 DEF RequestOK, Early, Target
<1>6. Sets(q, p, p.via, "none", "idle")
  <2>1. p.via \in Pcs
    BY <1>5 DEF Pcs
  <2>2. QED
    BY <1>2, <1>5, <2>1, GotoFields
<1> HIDE DEF q
<1>7. RequestOK(q)
  BY <1>1, <1>2, <1>6 DEF Sets, RequestOK
<1>8. GoesOn(r, q)
  <2>1. ASSUME NEW s \in Sessions, attempts'[s].status \in Ended
        PROVE  attempts[s].status \in Ended /\ ~Keeps(p, s)
    BY <1>1, <1>2, <1>4, <1>5, <2>1 DEF Ended, Keeps
  <2>2. q.pc # p.pc /\ q.pc \notin {"admit", "delete"} /\ p.pc \in Early /\ p.pc \in Paid
    BY <1>1, <1>5, <1>6 DEF Sets, Early, Paid, Working, Pcs
  <2>3. QED
    BY <1>1, <1>2, <1>3, <1>4, <1>6, <1>7, <2>1, <2>2 DEF Sets, GoesOn
<1>9. Move(r, q)
  BY <1>8, GoingOnIsAMove
<1>10. ASSUME Calm PROVE CalmMove(q) /\ \A s \in Sessions : attempts'[s].status = attempts[s].status
  <2>1. attempts[a].status = "starting"
    BY <1>1, <1>2, <1>10 DEF Calm, Early
  <2>2. QED
    BY <1>1, <1>2, <1>4, <1>6, <1>10, <2>1 DEF Sets, Calm, CalmMove, vars
<1>11. ASSUME Concluded, Calm PROVE ConcludedMove(q)
  <2>1. Done = {}
    BY <1>1, <1>2, <1>11 DEF Concluded, Finishing, Early
  <2>2. Done' = {}
    BY <1>1, <1>2, <1>10, <1>11, <2>1 DEF Done
  <2>3. QED
    BY <2>2 DEF ConcludedMove
<1>12. QED
  BY <1>1, <1>2, <1>9, <1>10, <1>11 DEF Step, InCalm

\* The room's id and status are written over the attempt's.
LEMMA WriteProvisionedSteps ==
    ASSUME AdmissionIInv, crowded' = (crowded \/ Crowded'), NEW r \in Requests,
           NEW status \in RoomStatuses, NEW answered \in BOOLEAN,
           WriteProvisioned(r, status, answered)
    PROVE  \E q : Step(r, q)
<1> DEFINE p == requests[r]
           a == p.attempt
           q == AfterProvisioning(p, status)
<1>1. /\ p.pc = "provision" /\ requests' = [requests EXCEPT ![r] = q]
      /\ UNCHANGED <<vars, invitation, lost>>
      /\ attempts' = [attempts EXCEPT ![a].status = status, ![a].room = "live",
                                      ![a].answered = answered]
  BY DEF WriteProvisioned, At, Become
<1>2. p.pc \in Working /\ p.pc \in Early /\ p.pc \in Paid
  BY <1>1 DEF Working, Pcs, Early, Paid
<1>3. /\ p \in Request /\ RequestOK(p) /\ clock \in Nat /\ a \in Sessions /\ a \notin p.found
      /\ attempts \in [Sessions -> AttemptRow] /\ invitation \in InvitationStatus
      /\ lost \subseteq Sessions
  BY <1>2, Where
<1>4. status \in {"starting", "completed", "failed", "expired"}
  BY AdmissionAssumption
<1>5. /\ attempts' \in [Sessions -> AttemptRow] /\ attempts'[a].status = status
      /\ \A x \in Sessions \ {a} : attempts'[x] = attempts[x]
  BY <1>1, <1>3, <1>4 DEF AttemptRow, Ended
<1>6. p.kind = "none" /\ p.then = "idle"
  BY <1>2, <1>3 DEF RequestOK
<1>7. /\ status = "starting" => q = [p EXCEPT !.pc = "conclude"]
      /\ status # "starting" => q = Settle(p, status, "conclude") /\ status \in Ended
  BY <1>4 DEF AfterProvisioning, Ended
<1> HIDE DEF q
<1>8. IF status = "starting" THEN Sets(q, p, "conclude", "none", "idle")
                             ELSE Sets(q, p, "settle", status, "conclude")
  <2>1. CASE status = "starting"
    <3>1. "conclude" \in Pcs
      BY DEF Pcs
    <3>2. Sets([p EXCEPT !.pc = "conclude"], p, "conclude", "none", "idle")
      BY <1>3, <1>6, <3>1, GotoFields
    <3>3. QED
      BY <1>7, <2>1, <3>2
  <2>2. CASE status # "starting"
    BY <1>7, <1>3, <2>2, SettleFields
  <2>3. QED
    BY <2>1, <2>2
<1>9. RequestOK(q)
  BY <1>3, <1>4, <1>8 DEF Sets, RequestOK, Working, Pcs, Early, Ended
<1>10. GoesOn(r, q)
  <2>1. ASSUME NEW s \in Sessions, attempts'[s].status \in Ended
        PROVE  Keeps(q, s) \/ (attempts[s].status \in Ended /\ ~Keeps(p, s))
    BY <1>1, <1>4, <1>5, <1>8, <2>1 DEF Sets, Ended, Keeps, Target
  <2>2. q.pc \notin Early /\ q.pc \notin {"admit", "delete"} /\ q.pc # p.pc
    BY <1>1, <1>8 DEF Sets, Early
  <2>3. QED
    BY <1>1, <1>2, <1>3, <1>4, <1>5, <1>8, <1>9, <2>1, <2>2 DEF Sets, GoesOn
<1>11. Move(r, q)
  BY <1>10, GoingOnIsAMove
<1>12. ASSUME Calm
       PROVE  /\ CalmMove(q) /\ attempts[a].status = "starting"
  <2>1. attempts[a].status = "starting"
    BY <1>2, <1>12 DEF Calm
  <2>2. db.reservations[a].status # "captured"
    BY <1>3, <1>12, <2>1 DEF Calm
  <2>3. q.pc \notin Early /\ q.old = p.old /\ q.attempt = a
    BY <1>8 DEF Sets, Early
  <2>4. q.kind = "completed" => attempts'[a].status = "completed"
    BY <1>5, <1>8 DEF Sets
  <2>5. ASSUME q.old \in Sessions
        PROVE  attempts'[q.old].status \in {"failed", "abandoned", "superseded"}
    <3>1. attempts[p.old].status \in {"failed", "abandoned", "superseded"} /\ p.old # a
      BY <1>12, <2>1, <2>3, <2>5 DEF Calm
    <3>2. QED
      BY <1>5, <2>3, <2>5, <3>1
  <2>6. ASSUME NEW s \in Sessions, db'.reservations[s].status = "captured"
        PROVE  attempts'[s].status = "completed"
    <3>1. db' = db
      BY <1>1 DEF vars
    <3>2. s # a /\ attempts[s].status = "completed"
      BY <1>12, <2>2, <2>6, <3>1 DEF Calm
    <3>3. QED
      BY <1>5, <3>2
  <2>7. QED
    BY <2>1, <2>3, <2>4, <2>5, <2>6 DEF CalmMove
<1>13. ASSUME Concluded, Calm PROVE ConcludedMove(q)
  <2>1. Done = {} /\ attempts[a].status = "starting"
    BY <1>2, <1>12, <1>13 DEF Concluded, Finishing
  <2>2. Done' \subseteq {a} /\ (Done' # {} => attempts'[a].status = "completed")
    BY <1>1, <1>5, <2>1 DEF Done
  <2>3. Active' \subseteq (Active \ {a}) \cup {x \in {a} : status = "starting"}
    BY <1>5 DEF Active
  <2>4. Active \subseteq {a}
    BY <1>3, <1>13, <2>1 DEF Calm, Crowded, Active
  <2>5. Done' # {} => Active' = {}
    BY <1>5, <2>2, <2>3, <2>4
  <2>6. Done' # {} => WillConclude(q, a) /\ Finishing(q)
    BY <1>5, <1>8, <2>2 DEF Sets, WillConclude, Finishing, Early
  <2>7. QED
    BY <2>2, <2>5, <2>6 DEF ConcludedMove
<1>14. QED
  BY <1>1, <1>11, <1>12, <1>13 DEF Step, InCalm

\* A room that could not be opened.
LEMMA MarkProvisioningFailedSteps ==
    ASSUME AdmissionIInv, crowded' = (crowded \/ Crowded'), NEW r \in Requests,
           MarkProvisioningFailed(r)
    PROVE  \E q : Step(r, q)
<1> DEFINE p == requests[r]
           a == p.attempt
           q == Settle([p EXCEPT !.old = NoAttempt], "failed", "idle")
<1>1. /\ p.pc = "provision" /\ requests' = [requests EXCEPT ![r] = q]
      /\ UNCHANGED <<vars, invitation, lost>> /\ SetStatus(a, "failed")
  BY DEF MarkProvisioningFailed, At, Become
<1>2. p.pc \in Working /\ p.pc \in Early /\ p.pc \in Paid
  BY <1>1 DEF Working, Pcs, Early, Paid
<1>3. /\ p \in Request /\ RequestOK(p) /\ clock \in Nat /\ a \in Sessions /\ a \notin p.found
      /\ attempts \in [Sessions -> AttemptRow] /\ invitation \in InvitationStatus
      /\ lost \subseteq Sessions
  BY <1>2, Where
<1>4. /\ attempts' \in [Sessions -> AttemptRow]
      /\ attempts'[a].status = "failed" /\ attempts'[a].told = attempts[a].told
      /\ attempts'[a].room = attempts[a].room
      /\ \A x \in Sessions \ {a} : attempts'[x] = attempts[x]
  BY <1>1, <1>3, StatusWritten DEF Statuses, Ended
<1>5. /\ q \in Request /\ q.attempt = a /\ q.old = NoAttempt /\ q.found = p.found
      /\ q.pc = "settle" /\ q.kind = "failed" /\ q.then = "idle"
  <2>1. PICK o : o = [p EXCEPT !.old = NoAttempt]
    OBVIOUS
  <2>2. o \in Request /\ o.attempt = a /\ o.old = NoAttempt /\ o.found = p.found
    BY <1>3, <2>1 DEF Request
  <2>3. "failed" \in Ended /\ q = Settle(o, "failed", "idle")
    BY <2>1 DEF Ended
  <2> HIDE DEF q
  <2>4. Sets(q, o, "settle", "failed", "idle")
    BY <1>3, <2>2, <2>3, SettleFields
  <2>5. QED
    BY <2>2, <2>4 DEF Sets
<1> HIDE DEF q
<1>6. RequestOK(q)
  BY <1>3, <1>5 DEF RequestOK, Early, Ended
<1>7. GoesOn(r, q)
  <2>1. ASSUME NEW s \in Sessions, attempts'[s].status \in Ended
        PROVE  Keeps(q, s) \/ (attempts[s].status \in Ended /\ ~Keeps(p, s))
    BY <1>1, <1>4, <1>5, <2>1 DEF Ended, Keeps, Target
  <2>2. q.pc \notin Early /\ q.pc \notin {"admit", "delete"} /\ q.pc # p.pc
    BY <1>1, <1>5 DEF Early
  <2>3. QED
    BY <1>1, <1>2, <1>3, <1>4, <1>5, <1>6, <2>1, <2>2 DEF GoesOn
<1>8. Move(r, q)
  BY <1>7, GoingOnIsAMove
<1>9. ASSUME Calm PROVE CalmMove(q)
  <2>1. attempts[a].status = "starting" /\ db.reservations[a].status # "captured"
    BY <1>2, <1>3, <1>9 DEF Calm
  <2>2. NoAttempt \notin Sessions
    BY AdmissionAssumption
  <2>3. QED
    BY <1>1, <1>4, <1>5, <1>9, <2>1, <2>2 DEF Calm, CalmMove, vars, Early
<1>10. ASSUME Concluded, Calm PROVE ConcludedMove(q)
  <2>1. Done = {}
    BY <1>2, <1>10 DEF Concluded, Finishing
  <2>2. Done' = {}
    BY <1>1, <1>4, <2>1 DEF Done
  <2>3. QED
    BY <2>2 DEF ConcludedMove
<1>11. QED
  BY <1>1, <1>8, <1>9, <1>10 DEF Step, InCalm

\* What a request that has settled goes on with.
GoesTo(p) == IF p.then = "idle" THEN Idle ELSE [p EXCEPT !.pc = p.then]

\* The fields of a request that goes on after a settlement.
LEMMA GoesToFields ==
    ASSUME NEW p \in Request, RequestOK(p), p.pc \in {"settle", "record"}
    PROVE  /\ GoesTo(p) \in Request /\ RequestOK(GoesTo(p))
           /\ GoesTo(p).pc \in {"idle", "conclude", "supersede", "reply"}
           /\ GoesTo(p).attempt \in {p.attempt, NoAttempt}
           /\ GoesTo(p).old \in {p.old, NoAttempt} /\ GoesTo(p).found \subseteq p.found
           /\ GoesTo(p).pc = "conclude" => GoesTo(p).kind = p.kind /\ GoesTo(p).attempt = p.attempt
           /\ p.then = "conclude" => GoesTo(p).pc = "conclude"
<1> DEFINE q == GoesTo(p)
<1>1. p.then \in {"idle", "conclude", "supersede", "reply"} /\ p.attempt \in Sessions
  BY RequestFields DEF RequestOK, Working, Pcs
<1>2. CASE p.then = "idle"
  BY <1>2, IdleFields DEF GoesTo
<1>3. CASE p.then # "idle"
  <2>1. p.then \in Pcs /\ q = [p EXCEPT !.pc = p.then]
    BY <1>1, <1>3 DEF Pcs, GoesTo
  <2>2. Sets([p EXCEPT !.pc = p.then], p, p.then, p.kind, p.then)
    BY <2>1, GotoFields
  <2>3. Sets(q, p, p.then, p.kind, p.then)
    BY <2>1, <2>2
  <2> HIDE DEF q
  <2>4. q.pc \in {"conclude", "supersede", "reply"}
    BY <1>1, <1>3, <2>3 DEF Sets
  <2>5. RequestOK(q)
    BY <1>1, <2>3, <2>4 DEF RequestOK, Sets, Early
  <2>6. QED
    BY <2>3, <2>4, <2>5 DEF Sets, q
<1>4. QED
  BY <1>2, <1>3

\* The attempt a request settles exists.
LEMMA TargetExists ==
    ASSUME NEW p \in Request, RequestOK(p), p.pc \in Working
    PROVE  Target(p) \in Sessions /\ (p.kind # "superseded" => Target(p) = p.attempt)
  BY DEF RequestOK, Target

\* The invitation takes the room's status.
LEMMA ConcludeSteps ==
    ASSUME AdmissionIInv, crowded' = (crowded \/ Crowded'), NEW r \in Requests, Conclude(r)
    PROVE  \E q : Step(r, q)
<1> DEFINE p == requests[r]
           x == IF p.old = NoAttempt THEN "reply" ELSE "supersede"
           q == [p EXCEPT !.pc = x]
<1>1. /\ p.pc = "conclude" /\ requests' = [requests EXCEPT ![r] = q]
      /\ UNCHANGED <<vars, attempts, lost>>
      /\ invitation' = IF invitation = "open" /\ p.kind \in InvitationClosed
                       THEN p.kind ELSE invitation
  BY DEF Conclude, At, Goto, Become
<1>2. p.pc \in Working /\ p.pc \in Paid
  BY <1>1 DEF Working, Pcs, Paid
<1>3. /\ p \in Request /\ RequestOK(p) /\ p.attempt \in Sessions
      /\ attempts \in [Sessions -> AttemptRow] /\ invitation \in InvitationStatus
      /\ lost \subseteq Sessions
  BY <1>2, Where
<1>4. /\ p.old \in Sessions \cup {NoAttempt} /\ p.kind # "superseded"
      /\ p.then \in {"idle", "conclude", "supersede", "reply"}
  BY <1>1, <1>3, RequestFields DEF RequestOK
<1>5. Sets(q, p, x, p.kind, p.then)
  <2>1. x \in Pcs
    BY DEF Pcs
  <2> HIDE DEF x
  <2>2. QED
    BY <1>3, <2>1, GotoFields
<1> HIDE DEF q
<1>6. RequestOK(q)
  BY <1>3, <1>4, <1>5 DEF Sets, RequestOK, Working, Early
<1>7. invitation' \in InvitationStatus
  BY <1>1, <1>3 DEF InvitationStatus, InvitationClosed
<1>8. GoesOn(r, q)
  <2>1. \A s \in Sessions : ~Keeps(p, s)
    BY <1>1 DEF Keeps
  <2>2. q.pc # p.pc /\ q.pc \notin {"admit", "delete"} /\ q.pc \notin Early
    BY <1>1, <1>5 DEF Sets, Early
  <2>3. QED
    BY <1>1, <1>2, <1>3, <1>5, <1>6, <1>7, <2>1, <2>2 DEF Sets, GoesOn
<1>9. Move(r, q)
  BY <1>8, GoingOnIsAMove
<1>10. ASSUME Calm PROVE CalmMove(q)
  BY <1>1, <1>3, <1>5, <1>10 DEF Calm, CalmMove, vars, Sets, Early
<1>11. ASSUME Concluded, Alone(r), invitation # "none" PROVE ConcludedMove(q)
  <2>1. Done' = Done /\ Active' = Active
    BY <1>1 DEF Done, Active
  <2>2. Finishing(q)
    BY <1>5 DEF Finishing, Sets, Early
  <2>3. ASSUME NEW s \in Done PROVE invitation' \in InvitationClosed
    <3>1. CASE invitation \in InvitationClosed
      BY <1>1, <3>1 DEF InvitationClosed
    <3>2. CASE \E o \in Requests : WillConclude(requests[o], s)
      <4>1. WillConclude(p, s)
        BY <1>11, <3>2, IdleFields DEF Alone, WillConclude
      <4>2. QED
        BY <1>1, <1>3, <1>11, <4>1 DEF WillConclude, InvitationClosed, InvitationStatus
    <3>3. QED
      BY <1>11, <2>3, <3>1, <3>2 DEF Concluded
  <2>4. QED
    BY <1>11, <2>1, <2>2, <2>3 DEF ConcludedMove, Concluded
<1>12. QED
  BY <1>1, <1>9, <1>10, <1>11 DEF Step, InCalm

\* The invitation of a finished attempt is closed, or open again.
LEMMA CloseInvitationSteps ==
    ASSUME AdmissionIInv, crowded' = (crowded \/ Crowded'), NEW r \in Requests, CloseInvitation(r)
    PROVE  \E q : Step(r, q)
<1> DEFINE p == requests[r]
           q == Settle(p, p.kind, p.then)
<1>1. /\ p.pc = "close" /\ requests' = [requests EXCEPT ![r] = q]
      /\ UNCHANGED <<vars, attempts, lost>>
      /\ invitation' = IF invitation \in {"none", "expired"} THEN invitation
                       ELSE IF p.kind = "completed" THEN "completed" ELSE "open"
  BY DEF CloseInvitation, At, Become
<1>2. p.pc \in Working /\ p.pc \in Paid
  BY <1>1 DEF Working, Pcs, Paid
<1>3. /\ p \in Request /\ RequestOK(p) /\ clock \in Nat /\ p.attempt \in Sessions
      /\ attempts \in [Sessions -> AttemptRow] /\ invitation \in InvitationStatus
      /\ lost \subseteq Sessions
  BY <1>2, Where
<1>4. /\ p.kind \in Ended /\ p.kind # "superseded"
      /\ p.then \in {"idle", "conclude", "supersede", "reply"}
  BY <1>1, <1>3, RequestFields DEF RequestOK
<1>5. Sets(q, p, "settle", p.kind, p.then)
  BY <1>3, <1>4, SettleFields
<1> HIDE DEF q
<1>6. RequestOK(q)
  BY <1>3, <1>4, <1>5 DEF Sets, RequestOK, Early
<1>7. invitation' \in InvitationStatus
  BY <1>1, <1>3 DEF InvitationStatus
<1>8. GoesOn(r, q)
  <2>1. \A s \in Sessions : Keeps(p, s) => Keeps(q, s)
    BY <1>4, <1>5 DEF Keeps, Target, Sets
  <2>2. q.pc # p.pc /\ q.pc \notin {"admit", "delete"} /\ q.pc \notin Early
    BY <1>1, <1>5 DEF Sets, Early
  <2>3. /\ q.attempt = p.attempt /\ q.old = p.old /\ q.found = p.found /\ q \in Request
        /\ attempts' = attempts /\ lost' = lost /\ UNCHANGED vars
    BY <1>1, <1>5 DEF Sets
  <2>4. ASSUME NEW s \in Sessions, attempts'[s].status \in Ended
        PROVE  Keeps(q, s) \/ (attempts[s].status \in Ended /\ ~Keeps(p, s))
    BY <2>1, <2>3, <2>4
  <2>5. QED
    BY <1>1, <1>2, <1>3, <1>6, <1>7, <2>2, <2>3, <2>4 DEF GoesOn
<1>9. Move(r, q)
  BY <1>8, GoingOnIsAMove
<1>10. ASSUME Calm PROVE CalmMove(q)
  BY <1>1, <1>3, <1>5, <1>10 DEF Calm, CalmMove, vars, Sets, Early
<1>11. ASSUME Concluded, invitation # "none" PROVE ConcludedMove(q)
  <2>1. Done' = Done /\ Active' = Active
    BY <1>1 DEF Done, Active
  <2>2. Finishing(q)
    BY <1>5 DEF Finishing, Sets, Early
  <2>3. Done # {} => p.kind = "completed"
    BY <1>1, <1>11 DEF Concluded, Finishing
  <2>4. Done # {} => invitation' \in InvitationClosed
    BY <1>1, <1>11, <2>3 DEF InvitationClosed
  <2>5. QED
    BY <1>11, <2>1, <2>2, <2>4 DEF ConcludedMove, Concluded
<1>12. QED
  BY <1>1, <1>9, <1>10, <1>11 DEF Step, InCalm

\* The replaced attempt is superseded.
LEMMA SupersedeSteps ==
    ASSUME AdmissionIInv, crowded' = (crowded \/ Crowded'), NEW r \in Requests, Supersede(r)
    PROVE  \E q : Step(r, q)
<1> DEFINE p == requests[r]
           q == Settle(p, "superseded", "reply")
<1>1. /\ p.pc = "supersede" /\ requests' = [requests EXCEPT ![r] = q]
      /\ UNCHANGED <<vars, invitation, lost>> /\ SetStatus(p.old, "superseded")
  BY DEF Supersede, At, Become
<1>2. p.pc \in Working /\ p.pc \in Paid
  BY <1>1 DEF Working, Pcs, Paid
<1>3. /\ p \in Request /\ RequestOK(p) /\ clock \in Nat /\ p.attempt \in Sessions
      /\ attempts \in [Sessions -> AttemptRow] /\ invitation \in InvitationStatus
      /\ lost \subseteq Sessions
      /\ p.old \in Sessions => p.old \notin p.found
  BY <1>2, Where
<1>4. p.old \in Sessions
  BY <1>1, <1>3 DEF RequestOK
<1>5. /\ attempts' \in [Sessions -> AttemptRow]
      /\ attempts'[p.old].status = "superseded" /\ attempts'[p.old].told = attempts[p.old].told
      /\ attempts'[p.old].room = attempts[p.old].room
      /\ \A s \in Sessions \ {p.old} : attempts'[s] = attempts[s]
  BY <1>1, <1>3, <1>4, StatusWritten DEF Statuses, Ended
<1>6. Sets(q, p, "settle", "superseded", "reply")
  <2>1. "superseded" \in Ended
    BY DEF Ended
  <2>2. QED
    BY <1>3, <2>1, SettleFields
<1> HIDE DEF q
<1>7. RequestOK(q)
  BY <1>3, <1>4, <1>6 DEF Sets, RequestOK, Early, Ended
<1>8. GoesOn(r, q)
  <2>1. Keeps(q, p.old) /\ \A s \in Sessions : ~Keeps(p, s)
    BY <1>1, <1>6 DEF Keeps, Target, Sets
  <2>2. q.pc # p.pc /\ q.pc \notin {"admit", "delete"} /\ q.pc \notin Early
    BY <1>1, <1>6 DEF Sets, Early
  <2>3. q.attempt = p.attempt /\ q.old = p.old /\ q.found = p.found /\ q \in Request
    BY <1>6 DEF Sets
  <2>4. QED
    BY <1>1, <1>2, <1>3, <1>4, <1>5, <1>7, <2>1, <2>2, <2>3 DEF GoesOn
<1>9. Move(r, q)
  BY <1>8, GoingOnIsAMove
<1>10. ASSUME Calm
       PROVE  CalmMove(q) /\ attempts[p.old].status \in {"failed", "abandoned", "superseded"}
  BY <1>1, <1>3, <1>4, <1>5, <1>6, <1>10 DEF Calm, CalmMove, vars, Sets, Early
<1>11. ASSUME Concluded, Calm, Alone(r), invitation # "none" PROVE ConcludedMove(q)
  <2>1. Done' = Done /\ Active' = Active
    BY <1>1, <1>4, <1>5, <1>10, <1>11 DEF Done, Active
  <2>2. Finishing(q)
    BY <1>6 DEF Finishing, Sets, Early
  <2>3. \A o \in Requests, s \in Done : ~WillConclude(requests[o], s)
    BY <1>1, <1>11, IdleFields DEF Alone, WillConclude
  <2>4. QED
    BY <1>1, <1>11, <2>1, <2>2, <2>3 DEF ConcludedMove, Concluded
<1>12. QED
  BY <1>1, <1>9, <1>10, <1>11 DEF Step, InCalm

\* The answer reaches the candidate, or not.
LEMMA ReplySteps ==
    ASSUME AdmissionIInv, crowded' = (crowded \/ Crowded'), NEW r \in Requests, Reply(r)
    PROVE  \E q : Step(r, q)
<1> DEFINE p == requests[r]
           a == p.attempt
<1>1. /\ p.pc = "reply" /\ requests' = [requests EXCEPT ![r] = Idle]
      /\ UNCHANGED <<vars, invitation, lost>>
      /\ \/ attempts' = [attempts EXCEPT ![a].told = TRUE]
         \/ UNCHANGED attempts
  BY DEF Reply, At, Finish, Become
<1>2. p.pc \in Working /\ p.pc \in Paid
  BY <1>1 DEF Working, Pcs, Paid
<1>3. /\ p \in Request /\ RequestOK(p) /\ clock \in Nat /\ a \in Sessions
      /\ attempts \in [Sessions -> AttemptRow] /\ invitation \in InvitationStatus
      /\ lost \subseteq Sessions
  BY <1>2, Where
<1>4. /\ attempts' \in [Sessions -> AttemptRow]
      /\ \A s \in Sessions : /\ attempts'[s].status = attempts[s].status
                             /\ attempts'[s].room = attempts[s].room
      /\ \A s \in Sessions \ {a} : attempts'[s] = attempts[s]
  <2>1. CASE attempts' = [attempts EXCEPT ![a].told = TRUE]
    <3>1. attempts[a] \in AttemptRow
      BY <1>3
    <3>2. PICK row : row = [attempts[a] EXCEPT !.told = TRUE]
      OBVIOUS
    <3>3. row \in AttemptRow /\ row.status = attempts[a].status /\ row.room = attempts[a].room
      BY <3>1, <3>2 DEF AttemptRow
    <3>4. attempts' = [attempts EXCEPT ![a] = row]
      BY <2>1, <3>2
    <3>5. QED
      BY <1>3, <3>3, <3>4
  <2>2. CASE UNCHANGED attempts
    BY <1>3, <2>2
  <2>3. QED
    BY <1>1, <2>1, <2>2
<1>5. GoesOn(r, Idle)
  <2>1. \A s \in Sessions : ~Keeps(p, s)
    BY <1>1 DEF Keeps
  <2>2. Idle.pc # p.pc /\ Idle.pc \notin {"admit", "delete"} \cup Early \cup Paid
    BY <1>1, IdleFields DEF Early, Paid, Working
  <2>3. QED
    BY <1>1, <1>2, <1>3, <1>4, <2>1, <2>2, IdleFields DEF GoesOn
<1>6. Move(r, Idle)
  BY <1>5, GoingOnIsAMove
<1>7. ASSUME Calm PROVE \A s \in Sessions :
           db'.reservations[s].status = "captured" => attempts'[s].status = "completed"
  BY <1>1, <1>4, <1>7 DEF Calm, vars
<1>8. ASSUME Concluded, Alone(r), invitation # "none" PROVE ConcludedMove(Idle)
  <2>1. Done' = Done /\ Active' = Active
    BY <1>1, <1>4 DEF Done, Active
  <2>2. Finishing(Idle)
    BY IdleFields DEF Finishing, Early
  <2>3. \A o \in Requests, s \in Done : ~WillConclude(requests[o], s)
    BY <1>1, <1>8, IdleFields DEF Alone, WillConclude
  <2>4. QED
    BY <1>1, <1>8, <2>1, <2>2, <2>3 DEF ConcludedMove, Concluded
<1>9. QED
  BY <1>1, <1>6, <1>7, <1>8, GoneIsCalm DEF Step, InCalm

\* The billing trace of a completed attempt is written.
LEMMA RecordBilledCountsSteps ==
    ASSUME AdmissionIInv, crowded' = (crowded \/ Crowded'), NEW r \in Requests,
           RecordBilledCounts(r)
    PROVE  \E q : Step(r, q)
<1> DEFINE p == requests[r]
           a == p.attempt
           q == GoesTo(p)
<1>1. /\ p.pc = "record" /\ requests' = [requests EXCEPT ![r] = q]
      /\ UNCHANGED <<vars, invitation, lost>>
      /\ attempts' = [attempts EXCEPT ![a].billedOutcome = p.outcome]
  BY DEF RecordBilledCounts, At, Finish, Goto, Become, GoesTo
<1>2. p.pc \in Working /\ p.pc \in Paid
  BY <1>1 DEF Working, Pcs, Paid
<1>3. /\ p \in Request /\ RequestOK(p) /\ clock \in Nat /\ a \in Sessions
      /\ attempts \in [Sessions -> AttemptRow] /\ invitation \in InvitationStatus
      /\ lost \subseteq Sessions
  BY <1>2, Where
<1>4. /\ attempts' \in [Sessions -> AttemptRow]
      /\ \A s \in Sessions : /\ attempts'[s].status = attempts[s].status
                             /\ attempts'[s].told = attempts[s].told
                             /\ attempts'[s].room = attempts[s].room
      /\ \A s \in Sessions \ {a} : attempts'[s] = attempts[s]
  <2>1. p.outcome \in {"none", "captured", "released"}
    BY <1>3 DEF Request
  <2>2. QED
    BY <1>1, <1>3, <2>1 DEF AttemptRow
<1>5. /\ q \in Request /\ RequestOK(q) /\ q.pc \in {"idle", "conclude", "supersede", "reply"}
      /\ q.attempt \in {a, NoAttempt} /\ q.old \in {p.old, NoAttempt} /\ q.found \subseteq p.found
      /\ q.pc = "conclude" => q.kind = p.kind /\ q.attempt = a
      /\ p.then = "conclude" => q.pc = "conclude"
  BY <1>1, <1>3, GoesToFields
<1> HIDE DEF q
<1>6. GoesOn(r, q)
  <2>1. \A s \in Sessions : ~Keeps(p, s)
    BY <1>1 DEF Keeps
  <2>2. q.pc # p.pc /\ q.pc \notin {"admit", "delete"} /\ q.pc \notin Early
    BY <1>1, <1>5 DEF Early
  <2>3. QED
    BY <1>1, <1>2, <1>3, <1>4, <1>5, <2>1, <2>2 DEF GoesOn
<1>7. Move(r, q)
  BY <1>6, GoingOnIsAMove
<1>8. ASSUME Calm PROVE CalmMove(q)
  <2>1. NoAttempt \notin Sessions
    BY AdmissionAssumption
  <2>2. QED
    BY <1>1, <1>3, <1>4, <1>5, <1>8, <2>1 DEF Calm, CalmMove, vars, Early
<1>9. ASSUME Concluded, Alone(r), invitation # "none" PROVE ConcludedMove(q)
  <2>1. Done' = Done /\ Active' = Active
    BY <1>1, <1>4 DEF Done, Active
  <2>2. Finishing(q)
    BY <1>5 DEF Finishing, Early
  <2>3. \A o \in Requests, s \in Done : WillConclude(requests[o], s) => WillConclude(q, s)
    BY <1>1, <1>5, <1>9, IdleFields DEF Alone, WillConclude
  <2>4. QED
    BY <1>1, <1>9, <2>1, <2>2, <2>3 DEF ConcludedMove, Concluded
<1>10. QED
  BY <1>1, <1>7, <1>8, <1>9 DEF Step, InCalm

\* What follows the guarded update of an attempt.
LEMMA AfterLifecycleFields ==
    ASSUME clock \in Nat, NEW p \in Request, NEW kind \in {"completed", "abandoned", "failed"}
    PROVE  LET q == AfterLifecycle(p, kind)
               status == attempts[p.attempt].status
           IN /\ status = "starting" => Sets(q, p, "close", kind, p.then)
              /\ status = kind /\ kind = "completed" => Sets(q, p, "close", kind, p.then)
              /\ status = kind /\ kind # "completed" => Sets(q, p, "settle", kind, p.then)
              /\ status \notin {"starting", kind} => q = Idle
<1> DEFINE status == attempts[p.attempt].status
<1>1. kind \in Ended /\ p.then \in {"idle", "conclude", "supersede", "reply"}
  BY RequestFields DEF Ended
<1>2. Sets([p EXCEPT !.pc = "close", !.kind = kind, !.now = clock], p, "close", kind, p.then)
  BY <1>1 DEF Request, Sets
<1>3. Sets(Settle(p, kind, p.then), p, "settle", kind, p.then)
  BY <1>1, SettleFields
<1>4. CASE status = "starting"
  BY <1>2, <1>4 DEF AfterLifecycle
<1>5. CASE status # "starting"
  BY <1>2, <1>3, <1>5 DEF AfterLifecycle
<1>6. QED
  BY <1>4, <1>5

\* The written answers are stored, and the attempt completes if it still can.
LEMMA SubmitFormSteps ==
    ASSUME AdmissionIInv, crowded' = (crowded \/ Crowded'), NEW r \in Requests,
           NEW answered \in BOOLEAN, SubmitForm(r, answered)
    PROVE  \E q : Step(r, q)
<1> DEFINE p == requests[r]
           a == p.attempt
           status == attempts[a].status
           x == IF p.old = NoAttempt THEN "reply" ELSE "supersede"
           o == [p EXCEPT !.then = x]
           q == AfterLifecycle(o, "completed")
<1>1. /\ p.pc = "submit" /\ requests' = [requests EXCEPT ![r] = q]
      /\ UNCHANGED <<vars, invitation, lost>>
      /\ attempts' = [attempts EXCEPT ![a].room = "form", ![a].answered = answered,
                                      ![a].status = IF @ = "starting" THEN "completed" ELSE @]
  BY DEF SubmitForm, At, Become
<1>2. p.pc \in Working /\ p.pc \in Early /\ p.pc \in Paid
  BY <1>1 DEF Working, Pcs, Early, Paid
<1>3. /\ p \in Request /\ RequestOK(p) /\ clock \in Nat /\ a \in Sessions /\ a \notin p.found
      /\ attempts \in [Sessions -> AttemptRow] /\ invitation \in InvitationStatus
      /\ lost \subseteq Sessions
  BY <1>2, Where
<1>4. /\ attempts' \in [Sessions -> AttemptRow]
      /\ attempts'[a].status = IF status = "starting" THEN "completed" ELSE status
      /\ \A s \in Sessions \ {a} : attempts'[s] = attempts[s]
  <2>1. PICK row : row = [attempts[a] EXCEPT !.room = "form", !.answered = answered,
                                             !.status = IF @ = "starting" THEN "completed" ELSE @]
    OBVIOUS
  <2>2. attempts' = [attempts EXCEPT ![a] = row]
    BY <1>1, <2>1
  <2>3. attempts[a] \in AttemptRow
    BY <1>3
  <2>4. row.status = IF status = "starting" THEN "completed" ELSE status
    BY <2>1, <2>3 DEF AttemptRow
  <2>5. row \in AttemptRow
    BY <2>1, <2>3 DEF AttemptRow, Ended
  <2>6. QED
    BY <1>3, <2>2, <2>4, <2>5
<1>5. Sets(o, p, "submit", "none", x)
  <2>1. p.kind = "none"
    BY <1>2, <1>3 DEF RequestOK
  <2>2. QED
    BY <1>1, <1>3, <2>1 DEF Request, Sets
<1> HIDE DEF o
<1>6. /\ status \in {"starting", "completed"} => Sets(q, o, "close", "completed", x)
      /\ status \notin {"starting", "completed"} => q = Idle
  <2>1. o \in Request /\ o.attempt = a /\ o.then = x
    BY <1>5 DEF Sets
  <2> HIDE DEF x
  <2>2. QED
    BY <1>3, <2>1, AfterLifecycleFields
<1> HIDE DEF q
<1>7. \/ /\ status \in {"starting", "completed"} /\ q \in Request /\ q.pc = "close"
         /\ q.kind = "completed" /\ q.then = x
         /\ q.attempt = a /\ q.old = p.old /\ q.found = p.found
      \/ status \notin {"starting", "completed"} /\ q = Idle
  BY <1>5, <1>6 DEF Sets
<1>8. /\ RequestOK(q) /\ q \in Request /\ q.pc \in {"idle", "close"}
      /\ q.attempt \in {a, NoAttempt} /\ q.old \in {p.old, NoAttempt} /\ q.found \subseteq p.found
  <2>1. p.old \in Sessions \cup {NoAttempt}
    BY <1>3, RequestFields
  <2>2. QED
    BY <1>3, <1>7, <2>1, IdleFields DEF RequestOK, Early, Ended
<1>9. GoesOn(r, q)
  <2>1. ASSUME NEW s \in Sessions, attempts'[s].status \in Ended
        PROVE  Keeps(q, s) \/ (attempts[s].status \in Ended /\ ~Keeps(p, s))
    <3>1. ~Keeps(p, s)
      BY <1>1 DEF Keeps
    <3>2. CASE s = a /\ status \in {"starting", "completed"}
      BY <1>7, <3>2 DEF Keeps, Target
    <3>3. QED
      BY <1>4, <2>1, <3>1, <3>2
  <2>2. q.pc # p.pc /\ q.pc \notin {"admit", "delete"} /\ q.pc \notin Early
    BY <1>1, <1>8 DEF Early
  <2>3. \A s \in Sessions : s = a \/ attempts'[s] = attempts[s]
    BY <1>4
  <2>4. /\ attempts'[a].status # "none" \/ attempts[a].status = "none"
        /\ attempts'[a].status = attempts[a].status \/ a \notin p.found
    BY <1>3, <1>4
  <2>5. QED
    BY <1>1, <1>2, <1>3, <1>4, <1>8, <2>1, <2>2, <2>3, <2>4 DEF GoesOn
<1>10. Move(r, q)
  BY <1>9, GoingOnIsAMove
<1>11. ASSUME Calm PROVE status = "starting" /\ CalmMove(q)
  <2>1. status = "starting" /\ db.reservations[a].status # "captured"
    BY <1>2, <1>3, <1>11 DEF Calm
  <2>2. /\ q.pc \notin Early /\ q.old \in {p.old, NoAttempt}
        /\ q.pc # "idle" => q.attempt = a
    BY <1>7, <1>8, IdleFields DEF Early
  <2>3. attempts'[a].status = "completed"
    BY <1>4, <2>1
  <2>4. ASSUME q.old \in Sessions
        PROVE  attempts'[q.old].status \in {"failed", "abandoned", "superseded"}
    <3>1. q.old = p.old
      BY <2>2, <2>4, AdmissionAssumption
    <3>2. attempts[p.old].status \in {"failed", "abandoned", "superseded"} /\ p.old # a
      BY <1>11, <2>1, <2>4, <3>1 DEF Calm
    <3>3. QED
      BY <1>4, <2>4, <3>1, <3>2
  <2>5. ASSUME NEW s \in Sessions, db'.reservations[s].status = "captured"
        PROVE  attempts'[s].status = "completed"
    <3>1. db' = db
      BY <1>1 DEF vars
    <3>2. s # a /\ attempts[s].status = "completed"
      BY <1>11, <2>1, <2>5, <3>1 DEF Calm
    <3>3. QED
      BY <1>4, <3>2
  <2>6. QED
    BY <2>1, <2>2, <2>3, <2>4, <2>5 DEF CalmMove
<1>12. ASSUME Concluded, Calm PROVE ConcludedMove(q)
  <2>1. Done = {} /\ status = "starting"
    BY <1>2, <1>11, <1>12 DEF Concluded, Finishing
  <2>2. Done' \subseteq {a}
    BY <1>1, <1>4, <2>1 DEF Done
  <2>3. Active \subseteq {a}
    BY <1>3, <1>12, <2>1 DEF Calm, Crowded, Active
  <2>4. Active' = {}
    BY <1>4, <2>1, <2>3 DEF Active
  <2>5. WillConclude(q, a) /\ Finishing(q)
    BY <1>7, <2>1 DEF WillConclude, Finishing, Early
  <2>6. QED
    BY <2>2, <2>4, <2>5 DEF ConcludedMove
<1>13. QED
  BY <1>1, <1>10, <1>11, <1>12 DEF Step, InCalm

\* An attempt that is still running ends.
LEMMA MarkedEnded ==
    ASSUME attempts \in [Sessions -> AttemptRow], NEW s \in Sessions,
           NEW kind \in {"completed", "abandoned", "failed"}, MarkEnded(s, kind)
    PROVE  /\ attempts' \in [Sessions -> AttemptRow]
           /\ attempts'[s].status =
                 IF attempts[s].status = "starting" THEN kind ELSE attempts[s].status
           /\ attempts'[s].told = attempts[s].told /\ attempts'[s].room = attempts[s].room
           /\ \A x \in Sessions \ {s} : attempts'[x] = attempts[x]
<1>1. kind \in Statuses
  BY DEF Statuses, Ended
<1>2. CASE attempts[s].status = "starting"
  BY <1>1, <1>2, StatusWritten DEF MarkEnded
<1>3. CASE attempts[s].status # "starting"
  BY <1>3 DEF MarkEnded
<1>4. QED
  BY <1>2, <1>3

\* A form without an answer fails the attempt.
LEMMA SubmitEmptyFormSteps ==
    ASSUME AdmissionIInv, crowded' = (crowded \/ Crowded'), NEW r \in Requests,
           SubmitEmptyForm(r)
    PROVE  \E q : Step(r, q)
<1> DEFINE p == requests[r]
           a == p.attempt
           status == attempts[a].status
           q == AfterLifecycle(p, "failed")
<1>1. /\ p.pc = "submit" /\ requests' = [requests EXCEPT ![r] = q]
      /\ UNCHANGED <<vars, invitation, lost>> /\ MarkEnded(a, "failed")
  BY DEF SubmitEmptyForm, At, Become
<1>2. p.pc \in Working /\ p.pc \in Early /\ p.pc \in Paid
  BY <1>1 DEF Working, Pcs, Early, Paid
<1>3. /\ p \in Request /\ RequestOK(p) /\ clock \in Nat /\ a \in Sessions /\ a \notin p.found
      /\ attempts \in [Sessions -> AttemptRow] /\ invitation \in InvitationStatus
      /\ lost \subseteq Sessions
  BY <1>2, Where
<1>4. /\ attempts' \in [Sessions -> AttemptRow]
      /\ attempts'[a].status = IF status = "starting" THEN "failed" ELSE status
      /\ attempts'[a].told = attempts[a].told /\ attempts'[a].room = attempts[a].room
      /\ \A s \in Sessions \ {a} : attempts'[s] = attempts[s]
  BY <1>1, <1>3, MarkedEnded
<1>5. p.then = "idle"
  BY <1>2, <1>3 DEF RequestOK
<1>6. \/ status = "starting" /\ Sets(q, p, "close", "failed", "idle")
      \/ status = "failed" /\ Sets(q, p, "settle", "failed", "idle")
      \/ status \notin {"starting", "failed"} /\ q = Idle
  BY <1>3, <1>5, AfterLifecycleFields
<1> HIDE DEF q
<1>7. \/ /\ status \in {"starting", "failed"} /\ q \in Request /\ q.pc \in {"close", "settle"}
         /\ q.kind = "failed" /\ q.then = "idle"
         /\ q.attempt = a /\ q.old = p.old /\ q.found = p.found
      \/ status \notin {"starting", "failed"} /\ q = Idle
  BY <1>6 DEF Sets
<1>8. /\ RequestOK(q) /\ q \in Request /\ q.pc \in {"idle", "close", "settle"}
      /\ q.attempt \in {a, NoAttempt} /\ q.old \in {p.old, NoAttempt} /\ q.found \subseteq p.found
  BY <1>3, <1>7, IdleFields DEF RequestOK, Early, Ended
<1>9. GoesOn(r, q)
  <2>1. ASSUME NEW s \in Sessions, attempts'[s].status \in Ended
        PROVE  Keeps(q, s) \/ (attempts[s].status \in Ended /\ ~Keeps(p, s))
    <3>1. ~Keeps(p, s)
      BY <1>1 DEF Keeps
    <3>2. CASE s = a /\ status \in {"starting", "failed"}
      BY <1>7, <3>2 DEF Keeps, Target
    <3>3. QED
      BY <1>4, <2>1, <3>1, <3>2
  <2>2. q.pc # p.pc /\ q.pc \notin {"admit", "delete"} /\ q.pc \notin Early
    BY <1>1, <1>8 DEF Early
  <2>3. \A s \in Sessions : s = a \/ attempts'[s] = attempts[s]
    BY <1>4
  <2>4. /\ attempts'[a].status # "none" \/ attempts[a].status = "none"
        /\ attempts'[a].status = attempts[a].status \/ a \notin p.found
    BY <1>3, <1>4
  <2>5. QED
    BY <1>1, <1>2, <1>3, <1>4, <1>8, <2>1, <2>2, <2>3, <2>4 DEF GoesOn
<1>10. Move(r, q)
  BY <1>9, GoingOnIsAMove
<1>11. ASSUME Calm PROVE status = "starting" /\ CalmMove(q)
  <2>1. status = "starting" /\ db.reservations[a].status # "captured"
    BY <1>2, <1>3, <1>11 DEF Calm
  <2>2. /\ q.pc \notin Early /\ q.old \in {p.old, NoAttempt}
        /\ q.pc # "idle" => q.attempt = a
    BY <1>7, <1>8, IdleFields DEF Early
  <2>3. q.kind # "completed"
    BY <1>7, IdleFields
  <2>4. ASSUME q.old \in Sessions
        PROVE  attempts'[q.old].status \in {"failed", "abandoned", "superseded"}
    <3>1. q.old = p.old
      BY <2>2, <2>4, AdmissionAssumption
    <3>2. attempts[p.old].status \in {"failed", "abandoned", "superseded"} /\ p.old # a
      BY <1>11, <2>1, <2>4, <3>1 DEF Calm
    <3>3. QED
      BY <1>4, <2>4, <3>1, <3>2
  <2>5. ASSUME NEW s \in Sessions, db'.reservations[s].status = "captured"
        PROVE  attempts'[s].status = "completed"
    <3>1. db' = db
      BY <1>1 DEF vars
    <3>2. s # a /\ attempts[s].status = "completed"
      BY <1>11, <2>1, <2>5, <3>1 DEF Calm
    <3>3. QED
      BY <1>4, <3>2
  <2>6. QED
    BY <2>1, <2>2, <2>3, <2>4, <2>5 DEF CalmMove
<1>12. ASSUME Concluded, Calm PROVE ConcludedMove(q)
  <2>1. Done = {} /\ status = "starting"
    BY <1>2, <1>11, <1>12 DEF Concluded, Finishing
  <2>2. Done' = {}
    BY <1>1, <1>4, <2>1 DEF Done
  <2>3. QED
    BY <2>2 DEF ConcludedMove
<1>13. QED
  BY <1>1, <1>10, <1>11, <1>12 DEF Step, InCalm

\* A settlement that fails is given up.
LEMMA SettlementFailsSteps ==
    ASSUME AdmissionIInv, crowded' = (crowded \/ Crowded'), NEW r \in Requests,
           SettlementFails(r)
    PROVE  \E q : Step(r, q)
<1> DEFINE p == requests[r]
           q == GoesTo(p)
<1>1. /\ p.pc = "settle" /\ requests' = [requests EXCEPT ![r] = q]
      /\ UNCHANGED <<vars, attempts, invitation>> /\ lost' = lost \cup {Target(p)}
  BY DEF SettlementFails, At, Finish, Goto, Become, GoesTo
<1>2. p.pc \in Working /\ p.pc \in Paid
  BY <1>1 DEF Working, Pcs, Paid
<1>3. /\ p \in Request /\ RequestOK(p) /\ p.attempt \in Sessions
      /\ attempts \in [Sessions -> AttemptRow] /\ invitation \in InvitationStatus
      /\ lost \subseteq Sessions
  BY <1>2, Where
<1>4. Target(p) \in Sessions /\ (p.kind # "superseded" => Target(p) = p.attempt)
  BY <1>2, <1>3, TargetExists
<1>5. /\ q \in Request /\ RequestOK(q) /\ q.pc \in {"idle", "conclude", "supersede", "reply"}
      /\ q.attempt \in {p.attempt, NoAttempt} /\ q.old \in {p.old, NoAttempt}
      /\ q.found \subseteq p.found
      /\ q.pc = "conclude" => q.kind = p.kind /\ q.attempt = p.attempt
  BY <1>1, <1>3, GoesToFields
<1> HIDE DEF q
<1>6. GoesOn(r, q)
  <2>1. \A s \in Sessions : Keeps(p, s) => s \in lost'
    BY <1>1 DEF Keeps
  <2>2. q.pc # p.pc /\ q.pc \notin {"admit", "delete"} /\ q.pc \notin Early
    BY <1>1, <1>5 DEF Early
  <2>3. lost \subseteq lost' /\ lost' \subseteq Sessions
    BY <1>1, <1>3, <1>4
  <2>4. QED
    BY <1>1, <1>2, <1>3, <1>5, <2>1, <2>2, <2>3 DEF GoesOn
<1>7. Move(r, q)
  BY <1>6, GoingOnIsAMove
<1>8. ASSUME Calm PROVE CalmMove(q)
  <2>1. NoAttempt \notin Sessions
    BY AdmissionAssumption
  <2>2. QED
    BY <1>1, <1>3, <1>5, <1>8, <2>1 DEF Calm, CalmMove, vars, Early
<1>9. ASSUME Concluded, Alone(r), invitation # "none" PROVE ConcludedMove(q)
  <2>1. Done' \subseteq Done /\ Active' = Active
    BY <1>1 DEF Done, Active
  <2>2. Finishing(q)
    BY <1>5 DEF Finishing, Early
  <2>3. \A o \in Requests, s \in Done' : ~WillConclude(requests[o], s)
    BY <1>1, <1>4, <1>9, IdleFields DEF Alone, WillConclude, Done
  <2>4. QED
    BY <1>1, <1>9, <2>1, <2>2, <2>3 DEF ConcludedMove, Concluded
<1>10. QED
  BY <1>1, <1>7, <1>8, <1>9 DEF Step, InCalm

\* The server dies: what the request was on its way to is lost.
LEMMA CrashSteps ==
    ASSUME AdmissionIInv, crowded' = (crowded \/ Crowded'), NEW r \in Requests, Crash(r)
    PROVE  \E q : Step(r, q)
<1> DEFINE p == requests[r]
<1>1. /\ p.pc # "idle" /\ requests' = [requests EXCEPT ![r] = Idle]
      /\ UNCHANGED <<vars, attempts, invitation>>
      /\ lost' = lost \cup (IF p.pc \in {"resume", "close", "settle", "record", "conclude"}
                            THEN {Target(p)} ELSE {})
  BY DEF Crash, At, Finish, Become
<1>2. /\ p \in Request /\ RequestOK(p)
      /\ attempts \in [Sessions -> AttemptRow] /\ invitation \in InvitationStatus
      /\ lost \subseteq Sessions
  BY Where
<1>3. p.pc \in {"resume", "close", "settle", "record", "conclude"} =>
          Target(p) \in Sessions /\ (p.kind # "superseded" => Target(p) = p.attempt)
  BY <1>2, TargetExists DEF Working, Pcs
<1>4. lost \subseteq lost' /\ lost' \subseteq Sessions
  BY <1>1, <1>2, <1>3
<1>5. GoesOn(r, Idle)
  <2>1. \A s \in Sessions : Keeps(p, s) => s \in lost'
    BY <1>1 DEF Keeps
  <2>2. Idle.pc # p.pc /\ Idle.pc \notin {"admit", "delete"} \cup Early \cup Paid
    BY <1>1, IdleFields DEF Early, Paid, Working
  <2>3. QED
    BY <1>1, <1>2, <1>4, <2>1, <2>2, IdleFields DEF GoesOn
<1>6. Move(r, Idle)
  BY <1>5, GoingOnIsAMove
<1>7. ASSUME Calm PROVE \A s \in Sessions :
           db'.reservations[s].status = "captured" => attempts'[s].status = "completed"
  BY <1>1, <1>7 DEF Calm, vars
<1>8. ASSUME Concluded, Alone(r), invitation # "none" PROVE ConcludedMove(Idle)
  <2>1. Done' \subseteq Done /\ Active' = Active
    BY <1>4, <1>1 DEF Done, Active
  <2>2. Finishing(Idle)
    BY IdleFields DEF Finishing, Early
  <2>3. \A o \in Requests, s \in Done' : ~WillConclude(requests[o], s)
    BY <1>1, <1>3, <1>8, IdleFields DEF Alone, WillConclude, Done
  <2>4. QED
    BY <1>1, <1>8, <2>1, <2>2, <2>3 DEF ConcludedMove, Concluded
<1>9. QED
  BY <1>1, <1>6, <1>7, <1>8, GoneIsCalm DEF Step, InCalm
-----------------------------------------------------------------------------
(* The statements that begin an attempt or a request.                      *)

\* A new attempt gets its row.
LEMMA CreateAttemptSteps ==
    ASSUME AdmissionIInv, crowded' = (crowded \/ Crowded'), NEW r \in Requests, CreateAttempt(r)
    PROVE  \E q : Step(r, q)
<1> DEFINE p == requests[r]
<1>1. PICK s \in Unused :
         /\ attempts' = [attempts EXCEPT ![s] = [NoRow EXCEPT !.status = "starting"]]
         /\ requests' = [requests EXCEPT ![r] = [p EXCEPT !.pc = "admit", !.attempt = s]]
  BY DEF CreateAttempt, Become
<1>2. PICK q : q = [p EXCEPT !.pc = "admit", !.attempt = s]
  OBVIOUS
<1>3. p.pc = "create" /\ UNCHANGED <<vars, invitation, lost>>
  BY DEF CreateAttempt, At
<1>4. /\ p \in Request /\ RequestOK(p)
      /\ attempts \in [Sessions -> AttemptRow] /\ invitation \in InvitationStatus
      /\ lost \subseteq Sessions
      /\ \A x \in Sessions : attempts[x].status = "none" =>
            x # p.attempt /\ x # p.old /\ x \notin p.found
      /\ p.old \in Sessions => p.old \notin p.found
  BY Where
<1>5. s \in Sessions /\ attempts[s].status = "none"
  BY DEF Unused
<1>6. /\ attempts' \in [Sessions -> AttemptRow]
      /\ attempts'[s].status = "starting" /\ ~attempts'[s].told /\ attempts'[s].room = "none"
      /\ \A x \in Sessions \ {s} : attempts'[x] = attempts[x]
  <2>1. PICK row : row = [NoRow EXCEPT !.status = "starting"]
    OBVIOUS
  <2>2. row \in AttemptRow /\ row.status = "starting" /\ ~row.told /\ row.room = "none"
    BY <2>1 DEF NoRow, AttemptRow
  <2>3. QED
    BY <1>1, <1>4, <1>5, <2>1, <2>2
<1>7. /\ q \in Request /\ q.pc = "admit" /\ q.attempt = s /\ q.old = p.old /\ q.found = p.found
      /\ q.via = p.via /\ q.kind = p.kind /\ q.then = p.then
  BY <1>2, <1>4, <1>5 DEF Request
<1>8. p.kind = "none" /\ p.then = "idle" /\ p.via \in {"provision", "submit"}
  BY <1>3, <1>4 DEF RequestOK
<1>9. RequestOK(q)
  BY <1>3, <1>4, <1>5, <1>7, <1>8 DEF RequestOK
<1>10. /\ p.found \subseteq Sessions /\ p.old \in Sessions \cup {NoAttempt}
       /\ NoAttempt \notin Sessions
  BY <1>4, RequestFields, AdmissionAssumption
<1>11. Move(r, q)
  <2>1. db' = db /\ clock' = clock
    BY <1>3 DEF vars
  <2>2. AdmissionTypeOK'
    <3>1. TypeOK' /\ requests' \in [Requests -> Request] /\ crowded' \in BOOLEAN
      BY <1>1, <1>2, <1>7, <2>1 DEF AdmissionIInv, AdmissionTypeOK, TypeOK, Crowded
    <3>2. QED
      BY <1>3, <1>4, <1>6, <3>1 DEF AdmissionTypeOK
  <2>3. Writes(p, q)
    BY <1>5, <1>6 DEF Writes
  <2>4. Names(p, q)
    BY <1>4, <1>5, <1>6, <1>7, <1>10 DEF Names
  <2>5. Makes(p, q)
    BY <1>4, <1>5, <1>6, <1>7 DEF Makes
  <2>6. Settles(p, q)
    <3>1. q.pc \notin Paid /\ \A x \in Sessions : ~Keeps(p, x)
      BY <1>3, <1>7 DEF Paid, Working, Keeps
    <3>2. attempts'[s].status \notin Ended
      BY <1>6 DEF Ended
    <3>3. QED
      BY <1>3, <1>5, <1>6, <2>1, <3>1, <3>2 DEF Settles
  <2>7. Spares(p, q)
    BY <1>5, <1>6 DEF Spares, EndedForGood
  <2>8. QED
    BY <1>1, <1>2, <1>3, <1>7, <1>9, <2>1, <2>2, <2>3, <2>4, <2>5, <2>6, <2>7
       DEF Move, AdmissionIInv
<1>12. ASSUME Calm PROVE CalmMove(q)
  <2>1. db.reservations[s].status # "captured"
    BY <1>5, <1>12 DEF Calm
  <2>2. p.old \in Sessions => attempts[p.old].status \in {"failed", "abandoned", "superseded"}
    BY <1>12 DEF Calm
  <2>3. \A x \in Sessions :
           db.reservations[x].status = "captured" => attempts[x].status = "completed"
    BY <1>12 DEF Calm
  <2>4. db' = db
    BY <1>3 DEF vars
  <2>5. QED
    BY <1>4, <1>5, <1>6, <1>7, <2>1, <2>2, <2>3, <2>4 DEF CalmMove
<1>13. ASSUME Concluded PROVE ConcludedMove(q)
  <2>1. Done = {}
    BY <1>3, <1>13 DEF Concluded, Finishing
  <2>2. Done' = {}
    BY <1>3, <1>5, <1>6, <2>1 DEF Done
  <2>3. QED
    BY <2>2 DEF ConcludedMove
<1>14. QED
  BY <1>3, <1>11, <1>12, <1>13 DEF Step, InCalm

\* A request that comes in.
LEMMA NewFields ==
    /\ New \in Request /\ New.pc = "idle" /\ New.attempt = NoAttempt /\ New.old = NoAttempt
    /\ New.via = "none" /\ New.kind = "none" /\ New.then = "idle" /\ New.found = EndedForGood
  BY IdleFields DEF New, Idle, Request, EndedForGood

\* A request to start, with the token of an attempt or without.
LEMMA StartSteps ==
    ASSUME AdmissionIInv, crowded' = (crowded \/ Crowded'), NEW r \in Requests,
           NEW via \in {"provision", "submit"}, NEW token \in Sessions \cup {NoAttempt},
           Start(r, via, token)
    PROVE  \E q : Step(r, q)
<1> DEFINE p == requests[r]
<1>1. /\ p.pc = "idle" /\ invitation \notin InvitationClosed
      /\ UNCHANGED <<vars, attempts, invitation, lost>>
  BY DEF Start, At
<1>2. /\ p = Idle /\ clock \in Nat
      /\ attempts \in [Sessions -> AttemptRow] /\ invitation \in InvitationStatus
      /\ lost \subseteq Sessions
  BY <1>1, Where DEF RequestOK
<1>3. NoAttempt \notin Sessions
  BY AdmissionAssumption
<1>4. PICK q : /\ requests' = [requests EXCEPT ![r] = q]
               /\ q \in Request /\ q.via = via /\ q.kind = "none" /\ q.then = "idle"
               /\ q.found = EndedForGood
               /\ \/ /\ q.pc = "create" /\ q.attempt = NoAttempt
                     /\ \/ q.old = NoAttempt
                        \/ /\ q.old \in Tokens
                           /\ attempts[q.old].status \in {"failed", "abandoned"}
                  \/ /\ q.pc = "readmit" /\ q.old = NoAttempt /\ q.attempt \in Tokens
                     /\ attempts[q.attempt].status = "starting"
  <2>1. CASE /\ token = NoAttempt
             /\ Become(r, [New EXCEPT !.pc = "create", !.via = via, !.now = clock])
    <3>1. PICK q : q = [New EXCEPT !.pc = "create", !.via = via, !.now = clock]
      OBVIOUS
    <3>2. /\ q \in Request /\ q.via = via /\ q.kind = "none" /\ q.then = "idle"
          /\ q.found = EndedForGood /\ q.pc = "create" /\ q.attempt = NoAttempt
          /\ q.old = NoAttempt
      BY <1>2, <3>1, NewFields DEF Request
    <3>3. QED
      BY <2>1, <3>1, <3>2 DEF Become
  <2>2. CASE /\ token \in Tokens
             /\ StartPolicy(attempts[token].status) = "retry_new_attempt"
             /\ Become(r, [New EXCEPT !.pc = "create", !.via = via, !.now = clock, !.old = token])
    <3>1. PICK q : q = [New EXCEPT !.pc = "create", !.via = via, !.now = clock, !.old = token]
      OBVIOUS
    <3>2. /\ q \in Request /\ q.via = via /\ q.kind = "none" /\ q.then = "idle"
          /\ q.found = EndedForGood /\ q.pc = "create" /\ q.attempt = NoAttempt
          /\ q.old = token
      BY <1>2, <3>1, NewFields DEF Request
    <3>3. attempts[token].status \in {"failed", "abandoned"}
      BY <2>2 DEF StartPolicy
    <3>4. QED
      BY <2>2, <3>1, <3>2, <3>3 DEF Become
  <2>3. CASE /\ token \in Tokens
             /\ StartPolicy(attempts[token].status) = "resume_same_attempt"
             /\ Become(r, [New EXCEPT !.pc = "readmit", !.via = via, !.now = clock,
                                       !.attempt = token])
    <3>1. PICK q : q = [New EXCEPT !.pc = "readmit", !.via = via, !.now = clock,
                                   !.attempt = token]
      OBVIOUS
    <3>2. /\ q \in Request /\ q.via = via /\ q.kind = "none" /\ q.then = "idle"
          /\ q.found = EndedForGood /\ q.pc = "readmit" /\ q.attempt = token
          /\ q.old = NoAttempt
      BY <1>2, <3>1, NewFields DEF Request
    <3>3. attempts[token].status = "starting"
      BY <2>3 DEF StartPolicy
    <3>4. QED
      BY <2>3, <3>1, <3>2, <3>3 DEF Become
  <2>4. QED
    BY <2>1, <2>2, <2>3 DEF Start
<1>5. /\ Tokens \subseteq Sessions /\ \A s \in Tokens : attempts[s].told
      /\ EndedForGood \subseteq Sessions
      /\ \A s \in EndedForGood : attempts[s].status \in {"completed", "expired", "superseded"}
  BY DEF Tokens, EndedForGood
<1>6. RequestOK(q)
  <2>1. q.pc = "create" \/ (q.pc = "readmit" /\ q.attempt \in Sessions)
    BY <1>4, <1>5
  <2>2. q.via \in {"provision", "submit"}
    BY <1>4
  <2>3. QED
    BY <1>4, <2>1, <2>2 DEF RequestOK, Working, Early
<1>7. Move(r, q)
  <2>1. db' = db /\ clock' = clock
    BY <1>1 DEF vars
  <2>2. AdmissionTypeOK'
    <3>1. TypeOK' /\ requests' \in [Requests -> Request] /\ crowded' \in BOOLEAN
      BY <1>4, <2>1 DEF AdmissionIInv, AdmissionTypeOK, TypeOK, Crowded
    <3>2. QED
      BY <1>1, <1>2, <3>1 DEF AdmissionTypeOK
  <2>3. Writes(p, q)
    BY <1>1 DEF Writes
  <2>4. Names(p, q)
    <3>1. /\ q.pc \in Early => attempts[q.attempt].status = "starting"
          /\ q.old \in Sessions => attempts[q.old].status \in {"failed", "abandoned"}
      BY <1>3, <1>4 DEF Early
    <3>2. \A s \in Sessions : s \in {q.attempt, q.old} =>
             attempts[s].told /\ attempts[s].status # "none"
      BY <1>3, <1>4, <1>5
    <3>3. QED
      BY <1>1, <1>4, <1>5, <3>1, <3>2 DEF Names
  <2>5. Makes(p, q)
    BY <1>4 DEF Makes
  <2>6. Settles(p, q)
    <3>1. q.pc \notin Paid /\ \A x \in Sessions : ~Keeps(p, x)
      BY <1>1, <1>4 DEF Paid, Working, Keeps
    <3>2. QED
      BY <1>1, <2>1, <3>1 DEF Settles
  <2>7. Spares(p, q)
    BY <1>1 DEF Spares
  <2>8. q.pc # p.pc
    BY <1>1, <1>4
  <2>9. QED
    BY <1>4, <1>6, <2>1, <2>2, <2>3, <2>4, <2>5, <2>6, <2>7, <2>8 DEF Move, AdmissionIInv
<1>8. ASSUME Calm PROVE CalmMove(q)
  BY <1>1, <1>3, <1>4, <1>8 DEF Calm, CalmMove, vars, Early
<1>9. ASSUME Concluded, Alone(r) PROVE ConcludedMove(q)
  <2>1. \A o \in Requests : requests[o] = Idle
    BY <1>2, <1>9 DEF Alone
  <2>2. \A o \in Requests, s \in Sessions : ~WillConclude(requests[o], s)
    BY <2>1, IdleFields DEF WillConclude
  <2>3. Done = {}
    BY <1>1, <1>9, <2>2 DEF Concluded, Done
  <2>4. Done' = {}
    BY <1>1, <2>3 DEF Done
  <2>5. QED
    BY <2>4 DEF ConcludedMove
<1>10. QED
  BY <1>1, <1>7, <1>8, <1>9 DEF Step, InCalm

\* A request to complete, abandon or fail an attempt.
LEMMA LifecycleSteps ==
    ASSUME AdmissionIInv, crowded' = (crowded \/ Crowded'), NEW r \in Requests,
           NEW s \in Sessions, NEW kind \in {"completed", "abandoned", "failed"},
           Lifecycle(r, s, kind)
    PROVE  \E q : Step(r, q)
<1> DEFINE p == requests[r]
           status == attempts[s].status
<1>1. /\ p.pc = "idle" /\ s \in Tokens /\ status \in {"starting", kind} /\ MarkEnded(s, kind)
      /\ UNCHANGED <<vars, invitation, lost>>
  BY DEF Lifecycle, At
<1>2. PICK o : o = [New EXCEPT !.attempt = s]
  OBVIOUS
<1>3. PICK q : q = AfterLifecycle(o, kind)
  OBVIOUS
<1>4. requests' = [requests EXCEPT ![r] = q]
  BY <1>2, <1>3 DEF Lifecycle, Become
<1>5. /\ p = Idle /\ clock \in Nat
      /\ attempts \in [Sessions -> AttemptRow] /\ invitation \in InvitationStatus
      /\ lost \subseteq Sessions
  BY <1>1, Where DEF RequestOK
<1>6. /\ o \in Request /\ o.attempt = s /\ o.old = NoAttempt /\ o.then = "idle"
      /\ o.via = "none" /\ o.found = EndedForGood
  BY <1>2, NewFields DEF Request
<1>7. /\ attempts' \in [Sessions -> AttemptRow] /\ attempts'[s].status = kind
      /\ attempts'[s].told = attempts[s].told /\ attempts'[s].room = attempts[s].room
      /\ \A x \in Sessions \ {s} : attempts'[x] = attempts[x]
  BY <1>1, <1>5, MarkedEnded
<1>8. IF status = "starting" \/ kind = "completed" THEN Sets(q, o, "close", kind, "idle")
                                                    ELSE Sets(q, o, "settle", kind, "idle")
  BY <1>1, <1>3, <1>5, <1>6, AfterLifecycleFields
<1>9. /\ q \in Request /\ q.kind = kind /\ q.then = "idle" /\ q.attempt = s /\ q.old = NoAttempt
      /\ q.found = EndedForGood
      /\ q.pc = "close" \/ (q.pc = "settle" /\ kind # "completed" /\ status = kind)
  BY <1>1, <1>6, <1>8 DEF Sets
<1>10. kind \in Ended /\ kind # "superseded" /\ kind # "none" /\ NoAttempt \notin Sessions
  BY AdmissionAssumption DEF Ended
<1>11. RequestOK(q)
  BY <1>9, <1>10 DEF RequestOK, Early
<1>12. attempts[s].told /\ db.reservations[s].status # "none"
  BY <1>1 DEF Tokens, AdmissionIInv, RoomsHadACredit
<1>13. q.pc \notin Early /\ q.pc \notin {"admit", "delete", "idle"}
  BY <1>9 DEF Early
<1>14. Move(r, q)
  <2>1. db' = db /\ clock' = clock
    BY <1>1 DEF vars
  <2>2. AdmissionTypeOK'
    <3>1. TypeOK' /\ requests' \in [Requests -> Request] /\ crowded' \in BOOLEAN
      BY <1>4, <1>9, <2>1 DEF AdmissionIInv, AdmissionTypeOK, TypeOK, Crowded
    <3>2. QED
      BY <1>1, <1>5, <1>7, <3>1 DEF AdmissionTypeOK
  <2>3. kind # "none" /\ status # "none"
    BY <1>1, <1>10
  <2>4. Writes(p, q)
    BY <1>7, <1>12, <2>3 DEF Writes
  <2>5. Names(p, q)
    <3>1. \A x \in EndedForGood : x \in Sessions /\ attempts[x].status # "none"
      BY DEF EndedForGood
    <3>2. \A x \in Sessions : attempts[x].status # "none" => attempts'[x].status # "none"
      BY <1>7, <2>3
    <3>3. QED
      BY <1>7, <1>9, <1>10, <1>12, <1>13, <2>3, <3>1, <3>2 DEF Names
  <2>6. Makes(p, q)
    BY <1>13 DEF Makes
  <2>7. Settles(p, q)
    <3>1. Keeps(q, s) /\ \A x \in Sessions : ~Keeps(p, x)
      BY <1>1, <1>9, <1>10 DEF Target, Keeps
    <3>2. QED
      BY <1>1, <1>7, <1>9, <1>12, <2>1, <3>1 DEF Settles
  <2>8. Spares(p, q)
    BY <1>5, IdleFields DEF Spares
  <2>9. QED
    BY <1>1, <1>4, <1>9, <1>11, <1>13, <2>1, <2>2, <2>4, <2>5, <2>6, <2>7, <2>8
       DEF Move, AdmissionIInv
<1>15. ASSUME Calm PROVE CalmMove(q)
  <2>1. \A x \in Sessions :
           db.reservations[x].status = "captured" => attempts[x].status = "completed"
    BY <1>15 DEF Calm
  <2>2. status = "completed" => kind = "completed"
    BY <1>1
  <2>3. db' = db
    BY <1>1 DEF vars
  <2>4. QED
    BY <1>7, <1>9, <1>10, <1>13, <2>1, <2>2, <2>3 DEF CalmMove
<1>16. ASSUME Concluded, Calm, Alone(r) PROVE ConcludedMove(q)
  <2>1. \A o1 \in Requests : requests[o1] = Idle
    BY <1>5, <1>16 DEF Alone
  <2>2. \A o1 \in Requests, x \in Sessions : ~WillConclude(requests[o1], x)
    BY <2>1, IdleFields DEF WillConclude
  <2>3. \A x \in Done : invitation \in InvitationClosed
    BY <1>16, <2>2 DEF Concluded, Done
  <2>4. CASE status = "starting"
    <3>1. s \in Active /\ Done = {}
      BY <1>16, <2>4 DEF Concluded, Active
    <3>2. Active = {s}
      BY <1>16, <3>1 DEF Calm, Crowded
    <3>3. Done' \subseteq {s} /\ (Done' # {} => kind = "completed")
      BY <1>1, <1>7, <3>1 DEF Done
    <3>4. Active' = {}
      BY <1>7, <1>10, <3>2 DEF Active, Ended
    <3>5. Done' # {} => WillConclude(q, s) /\ Finishing(q)
      BY <1>9, <1>13, <3>3 DEF WillConclude, Finishing, Early
    <3>6. QED
      BY <3>3, <3>4, <3>5 DEF ConcludedMove
  <2>5. CASE status # "starting"
    <3>1. status = kind /\ \A x \in Sessions : attempts'[x].status = attempts[x].status
      BY <1>1, <1>7, <2>5
    <3>2. Done' = Done /\ Active' = Active
      BY <1>1, <3>1 DEF Done, Active
    <3>3. Finishing(q)
      <4>1. q.pc = "close" => kind = "completed"
        BY <1>1, <1>8, <1>9, <2>5 DEF Sets
      <4>2. q.pc \notin {"create", "delete"}
        BY <1>9
      <4>3. QED
        BY <1>9, <1>13, <4>1, <4>2 DEF Finishing
    <3>4. QED
      BY <1>1, <1>16, <2>3, <3>2, <3>3 DEF ConcludedMove, Concluded
  <2>6. QED
    BY <2>4, <2>5
<1>17. QED
  BY <1>1, <1>14, <1>15, <1>16 DEF Step, InCalm

-----------------------------------------------------------------------------
(* The statements that move a credit.                                      *)

\* Admitting one attempt leaves every other hold alone, or lets it go.
Admits(s, d, e) ==
    /\ Consistent(e)
    /\ \A x \in Sessions : Fades(d, e, x) \/ (x = s /\ e.reservations[x].status = "held")

\* A credit is held for an attempt, or the attempt is refused.
LEMMA ReserveCreditOutcome ==
    ASSUME AdmissionIInv, NEW r \in Requests, ReserveCredit(r)
    PROVE  LET s == requests[r].attempt
           IN /\ Admits(s, db, db') /\ clock' = clock
              /\ \/ Admitted(r) /\ db'.reservations[s].status # "none"
                 \/ Refused(r) /\ Fades(db, db', s)
<1> DEFINE s == requests[r].attempt
           t == requests[r].now
           opened == Opened(db, t)
           swept == Sweep(opened, t)
<1>1. requests[r] \in Request /\ Consistent(db) /\ s \in Sessions
  BY Where DEF AdmissionIInv, ReserveCredit, At, Working, Pcs
<1>2. t \in Nat
  BY <1>1 DEF Request
<1>3. Consistent(opened) /\ opened.reservations = db.reservations
  BY <1>1, <1>2, OpenedIsConsistent
<1>4. /\ Consistent(swept) /\ \A x \in Sessions : Fades(opened, swept, x)
      /\ \A x \in Sessions : opened.reservations[x].status # "held" =>
            swept.reservations[x] = opened.reservations[x]
  BY <1>3, SweepFades, SweepKeepsConsistent
<1>5. ASSUME NEW x \in Sessions PROVE Fades(db, swept, x)
  BY <1>3, <1>4 DEF Fades
<1> HIDE DEF opened, swept
<1>6. CASE HasCredit(s) /\ UNCHANGED vars /\ Admitted(r)
  <2>1. db' = db /\ clock' = clock /\ Admits(s, db, db)
    BY <1>1, <1>6 DEF vars, Admits, Fades
  <2>2. db.reservations[s].status = "captured"
    BY <1>6 DEF HasCredit
  <2>3. QED
    BY <1>6, <2>1, <2>2
<1>7. CASE db.reservations[s].status = "held" /\ Commit(Renew(db, s, t)) /\ Admitted(r)
  <2>1. db' = Renew(db, s, t) /\ clock' = clock
    BY <1>7 DEF Commit
  <2>2. \A x \in Sessions :
           Renew(db, s, t).reservations[x].status = db.reservations[x].status
    BY <1>1, <1>2, OneReservation
  <2>3. Consistent(Renew(db, s, t))
    BY <1>1, <1>2, RenewKeepsConsistent
  <2>4. QED
    BY <1>1, <1>7, <2>1, <2>2, <2>3 DEF Admits, Fades
<1>8. ASSUME ~HasCredit(s), db.reservations[s].status # "held",
             NEW l \in selectLotForReservation(swept, t), Commit(Hold(swept, s, l, t)), Admitted(r)
      PROVE  Admits(s, db, db') /\ clock' = clock /\ db'.reservations[s].status # "none"
  <2>1. db' = Hold(swept, s, l, t) /\ clock' = clock
    BY <1>8 DEF Commit
  <2>2. l \in Lots /\ isLotEligible(swept.lots[l], t)
    BY <1>8 DEF selectLotForReservation, EligibleLots
  <2>3. swept.reservations[s].status \notin {"held", "captured"}
    BY <1>1, <1>3, <1>4, <1>8 DEF HasCredit
  <2>4. Consistent(Hold(swept, s, l, t))
    BY <1>1, <1>2, <1>4, <2>2, <2>3, HoldKeepsConsistent
  <2>5. /\ Hold(swept, s, l, t).reservations[s].status = "held"
        /\ \A x \in Sessions \ {s} :
              Hold(swept, s, l, t).reservations[x] = swept.reservations[x]
    BY <1>1, <1>2, <1>4, <2>2, OneReservation
  <2>6. Admits(s, db, Hold(swept, s, l, t))
    BY <1>5, <2>4, <2>5 DEF Admits, Fades
  <2>7. QED
    BY <2>1, <2>5, <2>6
<1>9. CASE Commit(swept) /\ Refused(r)
  BY <1>1, <1>4, <1>5, <1>9 DEF Commit, Admits
<1>10. CASE UNCHANGED vars /\ Refused(r)
  BY <1>1, <1>10 DEF vars, Admits, Fades
<1>11. QED
  BY <1>6, <1>7, <1>8, <1>9, <1>10 DEF ReserveCredit, opened, swept

\* Where an attempt's request goes once a credit is held for it, or is not.
LEMMA AfterAdmission ==
    ASSUME NEW p \in Request, RequestOK(p), p.pc \in {"admit", "readmit"}, NEW q,
           \/ q = [p EXCEPT !.pc = IF p.pc = "readmit" THEN "resume" ELSE p.via]
           \/ q = IF p.pc = "readmit" THEN Idle ELSE [p EXCEPT !.pc = "delete"]
    PROVE  \/ q = Idle /\ p.pc = "readmit"
           \/ \E pc : /\ Sets(q, p, pc, "none", "idle")
                      /\ p.pc = "readmit" => pc = "resume"
                      /\ p.pc = "admit" => pc \in {"provision", "submit", "delete"}
<1>1. p.kind = "none" /\ p.then = "idle" /\ p.via \in {"provision", "submit"}
  BY DEF RequestOK, Early
<1>2. ASSUME NEW pc \in {"resume", "provision", "submit", "delete"}
      PROVE  Sets([p EXCEPT !.pc = pc], p, pc, "none", "idle")
  <2>1. pc \in Pcs
    BY DEF Pcs
  <2>2. QED
    BY <1>1, <2>1, GotoFields
<1>3. CASE p.pc = "readmit"
  BY <1>2, <1>3
<1>4. CASE p.pc = "admit"
  BY <1>1, <1>2, <1>4
<1>5. QED
  BY <1>3, <1>4

\* A start, or a resumption, gets its credit or is refused.
LEMMA ReserveCreditSteps ==
    ASSUME AdmissionIInv, crowded' = (crowded \/ Crowded'), NEW r \in Requests, ReserveCredit(r)
    PROVE  \E q : Step(r, q)
<1> DEFINE p == requests[r]
           a == p.attempt
<1>1. /\ p.pc \in {"admit", "readmit"} /\ UNCHANGED <<attempts, invitation, lost>>
      /\ p.pc \in Early /\ p.pc \in Working /\ p.pc \notin {"idle", "resume", "close", "settle"}
  BY DEF ReserveCredit, At, Early, Working, Pcs
<1>2. /\ p \in Request /\ RequestOK(p) /\ a \in Sessions /\ a \notin p.found
      /\ attempts \in [Sessions -> AttemptRow] /\ invitation \in InvitationStatus
      /\ lost \subseteq Sessions
      /\ \A s \in Sessions : attempts[s].status = "none" =>
            s # p.attempt /\ s # p.old /\ s \notin p.found
      /\ p.old \in Sessions => p.old \notin p.found
  BY <1>1, Where
<1>3. /\ Admits(a, db, db') /\ clock' = clock
      /\ \/ Admitted(r) /\ db'.reservations[a].status # "none"
         \/ Refused(r) /\ Fades(db, db', a)
  BY ReserveCreditOutcome
<1>4. PICK q : /\ requests' = [requests EXCEPT ![r] = q]
               /\ \/ /\ q = [p EXCEPT !.pc = IF p.pc = "readmit" THEN "resume" ELSE p.via]
                     /\ db'.reservations[a].status # "none"
                  \/ /\ q = IF p.pc = "readmit" THEN Idle ELSE [p EXCEPT !.pc = "delete"]
                     /\ Fades(db, db', a)
  <2>1. CASE Admitted(r) /\ db'.reservations[a].status # "none"
    BY <2>1 DEF Admitted, Goto, Become, At
  <2>2. CASE Refused(r) /\ Fades(db, db', a)
    BY <2>2 DEF Refused, Goto, Finish, Become, At
  <2>3. QED
    BY <1>3, <2>1, <2>2
<1>5. \/ q = Idle /\ p.pc = "readmit"
      \/ \E pc : /\ Sets(q, p, pc, "none", "idle")
                 /\ p.pc = "readmit" => pc = "resume"
                 /\ p.pc = "admit" => pc \in {"provision", "submit", "delete"}
  BY <1>1, <1>2, <1>4, AfterAdmission
<1>6. /\ q.pc \in {"resume", "provision", "submit"} => db'.reservations[a].status # "none"
      /\ q = Idle => Fades(db, db', a)
  <2>1. [p EXCEPT !.pc = "delete"].pc = "delete"
    BY <1>2 DEF Request
  <2>2. Idle.pc = "idle" /\ Idle # [p EXCEPT !.pc = "delete"]
    BY <2>1, IdleFields
  <2>3. p.pc = "admit" => p.via # "idle" /\ [p EXCEPT !.pc = p.via].pc = p.via
    BY <1>1, <1>2 DEF Request, RequestOK
  <2>4. [p EXCEPT !.pc = "resume"].pc = "resume"
    BY <1>2 DEF Request
  <2>5. QED
    BY <1>1, <1>4, <2>1, <2>2, <2>3, <2>4
<1>7. \/ q = Idle /\ p.pc = "readmit"
      \/ /\ q \in Request /\ q.attempt = a /\ q.old = p.old /\ q.found = p.found
         /\ q.kind = "none" /\ q.then = "idle" /\ q.via = p.via
         /\ p.pc = "readmit" => q.pc = "resume"
         /\ p.pc = "admit" => q.pc \in {"provision", "submit", "delete"}
  BY <1>5 DEF Sets
<1>8. p.via \in {"provision", "submit"} /\ p.old \in Sessions \cup {NoAttempt}
  BY <1>1, <1>2, RequestFields DEF RequestOK
<1>9. RequestOK(q) /\ q \in Request
  <2>1. CASE q = Idle
    BY <2>1, IdleFields
  <2>2. CASE /\ q \in Request /\ q.attempt = a /\ q.old = p.old /\ q.kind = "none"
             /\ q.then = "idle" /\ q.via = p.via
             /\ q.pc \in {"resume", "provision", "submit", "delete"}
    BY <1>2, <1>8, <2>2 DEF RequestOK
  <2>3. QED
    BY <1>1, <1>7, <2>1, <2>2
<1>10. /\ q.attempt \in {a, NoAttempt} /\ q.old \in {p.old, NoAttempt} /\ q.found \subseteq p.found
       /\ q.pc \in Early \cup Paid => q.attempt = a
       /\ q.pc \in Paid => db'.reservations[a].status # "none"
       /\ q.pc # p.pc
       /\ q.pc \notin {"create", "close", "settle", "record", "conclude"}
  <2>1. CASE q = Idle
    BY <1>1, <2>1, IdleFields DEF Early, Paid, Working
  <2>2. CASE /\ q.attempt = a /\ q.old = p.old /\ q.found = p.found
             /\ q.pc \in {"resume", "provision", "submit", "delete"}
    BY <1>1, <1>6, <2>2 DEF Paid
  <2>3. QED
    BY <1>1, <1>7, <2>1, <2>2
<1>11. NoAttempt \notin Sessions /\ p.found \subseteq Sessions
  BY <1>2, RequestFields, AdmissionAssumption
<1>12. \A x \in Sessions :
          \/ db'.reservations[x].status = db.reservations[x].status
          \/ db'.reservations[x].status = "released"
             /\ db.reservations[x].status = "held"
          \/ x = a /\ db'.reservations[x].status = "held"
  BY <1>3 DEF Admits, Fades
<1>13. Move(r, q)
  <2>1. Consistent(db') /\ AdmissionTypeOK'
    <3>1. Consistent(db') /\ db' \in Rows /\ clock \in Nat
      BY <1>3, Where DEF Admits, Consistent
    <3>2. TypeOK' /\ requests' \in [Requests -> Request] /\ crowded' \in BOOLEAN
      BY <1>3, <1>4, <1>9, <3>1 DEF AdmissionIInv, AdmissionTypeOK, TypeOK, Crowded
    <3>3. QED
      BY <1>1, <1>2, <3>1, <3>2 DEF AdmissionTypeOK
  <2>2. Writes(p, q)
    BY <1>1 DEF Writes
  <2>3. Names(p, q)
    <3>1. q.pc \in Early => q.attempt \notin q.found
      BY <1>2, <1>10
    <3>2. QED
      BY <1>1, <1>2, <1>10, <1>11, <3>1 DEF Names
  <2>4. Makes(p, q)
    <3>1. ASSUME q.pc \in {"admit", "delete"} PROVE p.pc = "admit" /\ q.attempt = a /\ q.old = p.old
      BY <1>1, <1>7, <3>1, IdleFields
    <3>2. QED
      BY <1>1, <3>1 DEF Makes, AdmissionIInv, NewIsOwned
  <2>5. Settles(p, q)
    <3>1. \A x \in Sessions : ~Keeps(p, x)
      BY <1>1 DEF Keeps
    <3>2. ASSUME attempts[a].status \in Ended, db'.reservations[a].status = "held",
                 db.reservations[a].status # "held"
          PROVE  Keeps(q, a)
      <4>1. p.pc = "readmit"
        BY <1>1, <3>2 DEF AdmissionIInv, NewIsOwned, Ended
      <4>2. q # Idle
        BY <1>6, <3>2 DEF Fades
      <4>3. q.pc = "resume" /\ q.attempt = a /\ q.kind = "none"
        BY <1>7, <4>1, <4>2
      <4>4. QED
        BY <4>3 DEF Keeps, Target
    <3>3. QED
      BY <1>1, <1>10, <1>12, <3>1, <3>2 DEF Settles
  <2>6. Spares(p, q)
    BY <1>1 DEF Spares
  <2>7. QED
    BY <1>4, <1>9, <1>10, <2>1, <2>2, <2>3, <2>4, <2>5, <2>6 DEF Move
<1>14. ASSUME Calm PROVE CalmMove(q)
  <2>1. attempts[a].status = "starting"
    BY <1>1, <1>14 DEF Calm
  <2>2. p.old \in Sessions => attempts[p.old].status \in {"failed", "abandoned", "superseded"}
    BY <1>14 DEF Calm
  <2>3. \A x \in Sessions :
           db.reservations[x].status = "captured" => attempts[x].status = "completed"
    BY <1>14 DEF Calm
  <2>4. \A x \in Sessions : db'.reservations[x].status = "captured" =>
           db.reservations[x].status = "captured"
    BY <1>12
  <2>5. q.old \in Sessions => q.old = p.old
    BY <1>10, <1>11
  <2>6. QED
    BY <1>1, <1>10, <2>1, <2>2, <2>3, <2>4, <2>5 DEF CalmMove
<1>15. ASSUME Concluded PROVE ConcludedMove(q)
  <2>1. Done = {}
    BY <1>1, <1>15 DEF Concluded, Finishing
  <2>2. Done' = {}
    BY <1>1, <2>1 DEF Done
  <2>3. QED
    BY <2>2 DEF ConcludedMove
<1>16. QED
  BY <1>1, <1>13, <1>14, <1>15 DEF Step, InCalm

\* What a settlement does to the credits.
LEMMA SettledOutcome ==
    ASSUME AdmissionIInv, NEW p \in Request, Target(p) \in Sessions
    PROVE  LET s == Target(p)
               e == Settled(p)
           IN /\ Consistent(e)
              /\ \A x \in Sessions \ {s} : e.reservations[x] = db.reservations[x]
              /\ e.reservations[s].status # "held"
              /\ db.reservations[s].status # "held" => e = db
              /\ db.reservations[s].status = "held" =>
                    \/ e.reservations[s].status = "captured" /\ Charges(p)
                    \/ e.reservations[s].status = "released"
<1> DEFINE s == Target(p)
           capture == captureReservationForSession(db, s)
           release == releaseReservationForSession(db, s, p.now)
<1>1. Consistent(db)
  BY DEF AdmissionIInv
<1>2. CASE db.reservations[s].status # "held"
  BY <1>1, <1>2 DEF Settled
<1>3. CASE db.reservations[s].status = "held" /\ Charges(p)
  <2>1. Settled(p) = capture
    BY <1>3 DEF Settled
  <2>2. /\ Consistent(capture) /\ capture.reservations[s].status = "captured"
        /\ \A x \in Sessions \ {s} : capture.reservations[x] = db.reservations[x]
    BY <1>1, <1>3, CaptureKeepsConsistent, OneReservation
  <2> HIDE DEF capture
  <2>3. QED
    BY <1>3, <2>1, <2>2
<1>4. CASE db.reservations[s].status = "held" /\ ~Charges(p)
  <2>1. Settled(p) = release
    BY <1>4 DEF Settled
  <2>2. PICK e : e = releaseReservationRow(db, {s})
    OBVIOUS
  <2>3. {s} \in SUBSET Held(db)
    BY <1>4 DEF Held
  <2>4. /\ Consistent(e) /\ e.reservations[s].status = "released"
        /\ \A x \in Sessions \ {s} : e.reservations[x] = db.reservations[x]
    BY <1>1, <2>2, <2>3, ReleaseFades, ReleaseKeepsConsistent
  <2>5. Consistent(release) /\ release.reservations = e.reservations
    BY <2>2, <2>4, ExpireKeepsConsistent DEF releaseReservationForSession
  <2> HIDE DEF release
  <2>6. QED
    BY <1>4, <2>1, <2>4, <2>5
<1>5. QED
  BY <1>2, <1>3, <1>4

\* The credit of an attempt that has ended is settled.
LEMMA SettleCreditSteps ==
    ASSUME AdmissionIInv, crowded' = (crowded \/ Crowded'), NEW r \in Requests, SettleCredit(r)
    PROVE  \E q : Step(r, q)
<1> DEFINE p == requests[r]
           a == p.attempt
           s == Target(p)
<1>1. /\ p.pc = "settle" /\ UNCHANGED <<attempts, invitation, lost>>
      /\ p.pc \in Working /\ p.pc \in Paid
      /\ db' = Settled(p) /\ clock' = clock
  BY DEF SettleCredit, At, Working, Pcs, Paid, Commit
<1>2. /\ p \in Request /\ RequestOK(p) /\ a \in Sessions /\ clock \in Nat
      /\ attempts \in [Sessions -> AttemptRow] /\ invitation \in InvitationStatus
      /\ lost \subseteq Sessions
      /\ \A x \in Sessions : attempts[x].status = "none" =>
            x # p.attempt /\ x # p.old /\ x \notin p.found
      /\ p.old \in Sessions => p.old \notin p.found
      /\ db.reservations[a].status # "none"
  BY <1>1, Where
<1>3. s \in Sessions /\ (p.kind # "superseded" => s = a)
  BY <1>1, <1>2, TargetExists
<1>4. /\ Consistent(db')
      /\ \A x \in Sessions \ {s} : db'.reservations[x] = db.reservations[x]
      /\ db'.reservations[s].status # "held"
      /\ db.reservations[s].status # "held" => db' = db
      /\ db.reservations[s].status = "held" =>
            \/ db'.reservations[s].status = "captured" /\ Charges(p)
            \/ db'.reservations[s].status = "released"
  BY <1>1, <1>2, <1>3, SettledOutcome
<1>5. PICK q : /\ requests' = [requests EXCEPT ![r] = q]
               /\ IF p.kind = "completed"
                  THEN q = [p EXCEPT !.pc = "record",
                                     !.outcome = IF Charges(p) THEN "captured" ELSE "released"]
                  ELSE q = GoesTo(p)
  BY DEF SettleCredit, Become, Finish, Goto, GoesTo
<1>6. /\ q \in Request /\ RequestOK(q)
      /\ q.attempt \in {a, NoAttempt} /\ q.old \in {p.old, NoAttempt} /\ q.found \subseteq p.found
      /\ p.kind = "completed" => q.pc = "record" /\ q.attempt = a /\ q.then = p.then
                                 /\ q.kind = "completed"
      /\ p.kind # "completed" => q.pc \in {"idle", "conclude", "supersede", "reply"}
                                 /\ (q.pc = "conclude" => q.kind # "completed")
  <2>1. CASE p.kind = "completed"
    <3>1. PICK outcome \in {"captured", "released"} :
             q = [p EXCEPT !.pc = "record", !.outcome = outcome]
      BY <1>5, <2>1
    <3>2. Sets(q, p, "record", "completed", p.then)
      BY <1>2, <2>1, <3>1 DEF Request, Sets
    <3>3. RequestOK(q)
      BY <1>2, <2>1, <3>2 DEF Sets, RequestOK, Early
    <3>4. QED
      BY <2>1, <3>2, <3>3 DEF Sets
  <2>2. CASE p.kind # "completed"
    <3>1. q = GoesTo(p)
      BY <1>5, <2>2
    <3>2. QED
      BY <1>1, <1>2, <2>2, <3>1, GoesToFields
  <2>3. QED
    BY <2>1, <2>2
<1>7. /\ q.pc \notin Early /\ q.pc \notin {"settle", "admit", "delete", "create", "close"}
      /\ q.pc \in Paid => q.attempt = a
  <2>1. q.pc \in {"idle", "conclude", "supersede", "reply", "record"}
    BY <1>6
  <2>2. q.pc \in Paid => q.attempt \in Sessions
    BY <1>6 DEF RequestOK, Paid
  <2>3. QED
    BY <1>6, <2>1, <2>2, AdmissionAssumption DEF Early
<1>8. NoAttempt \notin Sessions /\ p.found \subseteq Sessions
  BY <1>2, RequestFields, AdmissionAssumption
<1>9. \A x \in Sessions :
         /\ db.reservations[x].status # "none" => db'.reservations[x].status # "none"
         /\ db'.reservations[x].status = "captured" =>
               db.reservations[x].status = "captured" \/ (x = s /\ p.kind = "completed")
  BY <1>4 DEF Charges
<1>10. Move(r, q)
  <2>1. AdmissionTypeOK'
    <3>1. db' \in Rows
      BY <1>4 DEF Consistent
    <3>2. TypeOK' /\ requests' \in [Requests -> Request] /\ crowded' \in BOOLEAN
      BY <1>1, <1>2, <1>5, <1>6, <3>1 DEF AdmissionIInv, AdmissionTypeOK, TypeOK, Crowded
    <3>3. QED
      BY <1>1, <1>2, <3>2 DEF AdmissionTypeOK
  <2>2. Writes(p, q)
    BY <1>1 DEF Writes
  <2>3. Names(p, q)
    BY <1>1, <1>2, <1>6, <1>7, <1>8 DEF Names
  <2>4. Makes(p, q)
    BY <1>7 DEF Makes
  <2>5. Settles(p, q)
    <3>1. \A x \in Sessions \ {s} : ~Keeps(p, x)
      BY DEF Keeps
    <3>2. q.pc \in Paid => db'.reservations[q.attempt].status # "none"
      BY <1>2, <1>7, <1>9
    <3>3. \A x \in Sessions : db'.reservations[x].status = "held" =>
             x # s /\ db.reservations[x].status = "held"
      BY <1>4
    <3>4. QED
      BY <1>1, <1>9, <3>1, <3>2, <3>3 DEF Settles
  <2>6. Spares(p, q)
    BY <1>1 DEF Spares
  <2>7. QED
    BY <1>1, <1>4, <1>5, <1>6, <1>7, <2>1, <2>2, <2>3, <2>4, <2>5, <2>6 DEF Move
<1>11. ASSUME Calm PROVE CalmMove(q)
  <2>1. p.old \in Sessions => attempts[p.old].status \in {"failed", "abandoned", "superseded"}
    BY <1>11 DEF Calm
  <2>2. p.kind = "completed" => attempts[a].status = "completed" /\ s = a
    BY <1>1, <1>3, <1>11 DEF Calm
  <2>3. \A x \in Sessions :
           db.reservations[x].status = "captured" => attempts[x].status = "completed"
    BY <1>11 DEF Calm
  <2>4. q.old \in Sessions => q.old = p.old
    BY <1>6, <1>8
  <2>5. QED
    BY <1>1, <1>6, <1>7, <1>9, <2>1, <2>2, <2>3, <2>4 DEF CalmMove
<1>12. ASSUME Concluded, Alone(r), invitation # "none" PROVE ConcludedMove(q)
  <2>1. Done' = Done /\ Active' = Active
    BY <1>1 DEF Done, Active
  <2>2. Finishing(q)
    BY <1>7 DEF Finishing
  <2>3. \A o \in Requests, x \in Done : WillConclude(requests[o], x) => WillConclude(q, x)
    BY <1>1, <1>6, <1>12, IdleFields DEF Alone, WillConclude
  <2>4. QED
    BY <1>1, <1>12, <2>1, <2>2, <2>3 DEF ConcludedMove, Concluded
<1>13. QED
  BY <1>1, <1>10, <1>11, <1>12 DEF Step, InCalm

-----------------------------------------------------------------------------
(* Every step.                                                             *)

\* A step of nobody's request: the statuses stay, and holds may be let go.
Aside ==
    /\ UNCHANGED <<requests, lost>>
    /\ Consistent(db') /\ clock' \in Nat
    /\ attempts' \in [Sessions -> AttemptRow]
    /\ \A s \in Sessions :
          /\ attempts'[s].status = attempts[s].status
          /\ attempts'[s].told = attempts[s].told
          /\ attempts'[s].room = attempts[s].room
          /\ Fades(db, db', s)
    /\ invitation' \in {invitation, "expired"}
    /\ invitation = "none" => invitation' = "none"

\* Such a step keeps the invariant.
LEMMA AsideKeeps ==
    ASSUME AdmissionIInv, Aside, crowded' \in BOOLEAN, ~crowded' => ~crowded
    PROVE  AdmissionIInv'
<1>1. /\ requests' = requests /\ lost' = lost
      /\ \A s \in Sessions : /\ attempts'[s].status = attempts[s].status
                             /\ attempts'[s].told = attempts[s].told
                             /\ attempts'[s].room = attempts[s].room
  BY DEF Aside
<1>2. \A s \in Sessions :
         /\ db.reservations[s].status # "none" => db'.reservations[s].status # "none"
         /\ db'.reservations[s].status = "held" => db.reservations[s].status = "held"
         /\ db'.reservations[s].status = "captured" => db.reservations[s].status = "captured"
  BY DEF Aside, Fades
<1>3. \A r \in Requests : RequestOK(requests[r])
  BY DEF AdmissionIInv, RequestsOK
<1>4. AdmissionTypeOK'
  <2>1. TypeOK'
    BY DEF Aside, TypeOK, Consistent
  <2>2. invitation' \in InvitationStatus
    BY DEF Aside, AdmissionIInv, AdmissionTypeOK, InvitationStatus
  <2>3. QED
    BY <1>1, <2>1, <2>2 DEF Aside, AdmissionIInv, AdmissionTypeOK
<1>5. RequestsOK' /\ NamedExist' /\ CameBefore'
  BY <1>1 DEF AdmissionIInv, RequestsOK, NamedExist, CameBefore
<1>6. NewIsOwned'
  <2>1. \A r \in Requests : requests[r].pc \in {"admit", "delete"} =>
           requests[r].attempt \in Sessions
    BY <1>3 DEF RequestOK, Working, Pcs
  <2>2. QED
    BY <1>1, <2>1 DEF AdmissionIInv, NewIsOwned
<1>7. PaidFirst'
  <2>1. \A r \in Requests : requests[r].pc \in Paid => requests[r].attempt \in Sessions
    BY <1>3 DEF RequestOK, Paid
  <2>2. QED
    BY <1>1, <1>2, <2>1 DEF AdmissionIInv, PaidFirst
<1>8. RoomsHadACredit'
  BY <1>1, <1>2 DEF AdmissionIInv, RoomsHadACredit
<1>9. EndedHasAKeeper'
  BY <1>1, <1>2 DEF AdmissionIInv, EndedHasAKeeper, Keeps, Target
<1>10. Active' = Active /\ Done' = Done
  BY <1>1 DEF Active, Done
<1>11. ASSUME ~crowded' PROVE Calm'
  <2>1. Calm /\ ~crowded
    BY <1>11 DEF AdmissionIInv
  <2>2. ~Crowded'
    BY <1>1, <1>10, <2>1 DEF Calm, Crowded, At
  <2>3. \A r \in Requests :
           /\ requests[r].pc \in Early \cup {"close", "settle", "record", "conclude"} =>
                 requests[r].attempt \in Sessions
    BY <1>3 DEF RequestOK, Working, Pcs, Early
  <2>4. QED
    BY <1>1, <1>2, <2>1, <2>2, <2>3 DEF Calm
<1>12. ASSUME ~crowded', invitation' # "none" PROVE Concluded'
  <2>1. Concluded
    BY <1>12 DEF AdmissionIInv, Aside
  <2>2. invitation \in InvitationClosed => invitation' \in InvitationClosed
    BY DEF Aside, InvitationClosed
  <2>3. QED
    BY <1>1, <1>10, <2>1, <2>2 DEF Concluded, Finishing, WillConclude
<1>13. QED
  BY <1>4, <1>5, <1>6, <1>7, <1>8, <1>9, <1>11, <1>12 DEF AdmissionIInv, Aside

\* Whatever happens is a step of one request, or of none.
LEMMA EveryStep ==
    ASSUME AdmissionIInv, AdmissionNext
    PROVE  (\E r \in Requests : \E q : Step(r, q)) \/ Aside
<1>1. crowded' = (crowded \/ Crowded') /\ AdmissionStep
  BY DEF AdmissionNext
<1>2. /\ Consistent(db) /\ clock \in Nat /\ attempts \in [Sessions -> AttemptRow]
      /\ \A s \in Sessions : Fades(db, db, s)
  BY DEF AdmissionIInv, AdmissionTypeOK, TypeOK, Fades
<1>3. ASSUME NEW r \in Requests, HandleRequest(r) PROVE \E q : Step(r, q)
  <2>1. CASE CreateAttempt(r) BY <1>1, <2>1, CreateAttemptSteps
  <2>2. CASE ReserveCredit(r) BY <1>1, <2>2, ReserveCreditSteps
  <2>3. CASE DeleteOrphan(r) BY <1>1, <2>3, DeleteOrphanSteps
  <2>4. CASE ResumeAttempt(r) BY <1>1, <2>4, ResumeAttemptSteps
  <2>5. CASE \E status \in RoomStatuses, answered \in BOOLEAN :
               WriteProvisioned(r, status, answered)
    BY <1>1, <2>5, WriteProvisionedSteps
  <2>6. CASE MarkProvisioningFailed(r) BY <1>1, <2>6, MarkProvisioningFailedSteps
  <2>7. CASE Conclude(r) BY <1>1, <2>7, ConcludeSteps
  <2>8. CASE Supersede(r) BY <1>1, <2>8, SupersedeSteps
  <2>9. CASE Reply(r) BY <1>1, <2>9, ReplySteps
  <2>10. CASE \E answered \in BOOLEAN : SubmitForm(r, answered)
    BY <1>1, <2>10, SubmitFormSteps
  <2>11. CASE SubmitEmptyForm(r) BY <1>1, <2>11, SubmitEmptyFormSteps
  <2>12. CASE CloseInvitation(r) BY <1>1, <2>12, CloseInvitationSteps
  <2>13. CASE SettleCredit(r) BY <1>1, <2>13, SettleCreditSteps
  <2>14. CASE SettlementFails(r) BY <1>1, <2>14, SettlementFailsSteps
  <2>15. CASE RecordBilledCounts(r) BY <1>1, <2>15, RecordBilledCountsSteps
  <2>16. QED
    BY <1>3, <2>1, <2>2, <2>3, <2>4, <2>5, <2>6, <2>7, <2>8, <2>9, <2>10, <2>11, <2>12, <2>13,
       <2>14, <2>15 DEF HandleRequest
<1>4. ASSUME NEW r \in Requests, NEW via \in {"provision", "submit"},
             NEW token \in Sessions \cup {NoAttempt}, Start(r, via, token)
      PROVE  \E q : Step(r, q)
  BY <1>1, <1>4, StartSteps
<1>5. ASSUME NEW r \in Requests, NEW s \in Sessions,
             NEW kind \in {"completed", "abandoned", "failed"}, Lifecycle(r, s, kind)
      PROVE  \E q : Step(r, q)
  BY <1>1, <1>5, LifecycleSteps
<1>6. ASSUME NEW r \in Requests, Crash(r) PROVE \E q : Step(r, q)
  BY <1>1, <1>6, CrashSteps
<1>7. CASE StartExpired
  BY <1>2, <1>7 DEF StartExpired, Aside, vars
<1>8. ASSUME NEW s \in Sessions, Answer(s) PROVE Aside
  <2>1. /\ attempts' = [attempts EXCEPT ![s].answered = TRUE]
        /\ UNCHANGED <<db, clock, invitation, requests, lost>>
    BY <1>8 DEF Answer, vars
  <2>2. /\ attempts' \in [Sessions -> AttemptRow]
        /\ \A x \in Sessions : /\ attempts'[x].status = attempts[x].status
                               /\ attempts'[x].told = attempts[x].told
                               /\ attempts'[x].room = attempts[x].room
    BY <1>2, <2>1 DEF AttemptRow
  <2>3. QED
    BY <1>2, <2>1, <2>2 DEF Aside
<1>9. CASE Background
  <2>1. CASE Tick
    BY <1>2, <1>9, <2>1 DEF Background, Tick, Aside
  <2>2. CASE ReleaseExpiredReservations(clock)
    <3>1. db' = Sweep(db, clock) /\ clock' = clock
      BY <2>2 DEF ReleaseExpiredReservations, Commit
    <3>2. Consistent(Sweep(db, clock)) /\ \A s \in Sessions : Fades(db, Sweep(db, clock), s)
      BY <1>2, SweepFades, SweepKeepsConsistent
    <3>3. Consistent(db') /\ \A s \in Sessions : Fades(db, db', s)
      BY <3>1, <3>2
    <3>4. UNCHANGED <<attempts, invitation, requests, lost>>
      BY <1>9 DEF Background
    <3>5. QED
      BY <1>2, <3>1, <3>3, <3>4 DEF Aside
  <2>3. QED
    BY <1>9, <2>1, <2>2 DEF Background
<1>10. QED
  BY <1>1, <1>3, <1>4, <1>5, <1>6, <1>7, <1>8, <1>9 DEF AdmissionStep

\* The first state.
LEMMA AdmissionBegins == AdmissionInit => AdmissionIInv
<1> SUFFICES ASSUME AdmissionInit PROVE AdmissionIInv
  OBVIOUS
<1>1. /\ db = Fresh /\ clock = 0 /\ attempts = [s \in Sessions |-> NoRow]
      /\ invitation \in {"none", "open"} /\ requests = [r \in Requests |-> Idle]
      /\ lost = {} /\ crowded = FALSE
  BY DEF AdmissionInit
<1>2. Consistent(db) /\ db \in Rows
  BY <1>1, LegacyIsConsistent DEF Consistent
<1>3. /\ NoRow \in AttemptRow /\ NoRow.status = "none" /\ NoRow.room = "none" /\ ~NoRow.told
  BY DEF NoRow, AttemptRow
<1>4. \A s \in Sessions : /\ attempts[s].status = "none" /\ attempts[s].room = "none"
                          /\ ~attempts[s].told
  BY <1>1, <1>3
<1>5. \A r \in Requests : requests[r] = Idle
  BY <1>1
<1>6. AdmissionTypeOK
  <2>1. TypeOK /\ invitation \in InvitationStatus
    BY <1>1, <1>2 DEF TypeOK, InvitationStatus
  <2>2. QED
    BY <1>1, <1>3, <2>1, IdleFields DEF AdmissionTypeOK
<1>7. NoAttempt \notin Sessions
  BY AdmissionAssumption
<1>8. Active = {} /\ Done = {}
  BY <1>4 DEF Active, Done
<1>9. \A s \in Sessions : db.reservations[s].status = "none"
  <2>1. db.reservations = [s \in Sessions |-> NoReservation]
    BY <1>1 DEF Fresh
  <2>2. NoReservation.status = "none"
    BY DEF NoReservation
  <2>3. QED
    BY <2>1, <2>2
<1>10. RequestsOK /\ NewIsOwned /\ PaidFirst
  BY <1>5, IdleFields DEF RequestsOK, NewIsOwned, PaidFirst, Paid, Working
<1>11. NamedExist /\ CameBefore
  BY <1>5, <1>7, IdleFields DEF NamedExist, CameBefore, Early
<1>12. RoomsHadACredit /\ EndedHasAKeeper
  BY <1>4, <1>9 DEF RoomsHadACredit, EndedHasAKeeper
<1>13. Calm
  BY <1>5, <1>7, <1>8, <1>9, IdleFields DEF Calm, Crowded, At, Early
<1>14. Concluded
  BY <1>8 DEF Concluded
<1>15. QED
  BY <1>2, <1>6, <1>10, <1>11, <1>12, <1>13, <1>14 DEF AdmissionIInv

\* No step breaks the invariant.
LEMMA AdmissionGoesOn == AdmissionIInv /\ [AdmissionNext]_admissionVars => AdmissionIInv'
<1> SUFFICES ASSUME AdmissionIInv, [AdmissionNext]_admissionVars PROVE AdmissionIInv'
  OBVIOUS
<1>1. CASE AdmissionNext
  <2>1. crowded' = (crowded \/ Crowded')
    BY <1>1 DEF AdmissionNext
  <2>2. CASE \E r \in Requests : \E q : Step(r, q)
    <3>1. PICK r \in Requests : \E q : Step(r, q)
      BY <2>2
    <3>2. PICK q : Step(r, q)
      BY <3>1
    <3>3. QED
      BY <2>1, <3>2, MoveKeepsAll
  <2>3. CASE Aside
    <3>1. crowded' \in BOOLEAN
      BY <2>1 DEF AdmissionIInv, AdmissionTypeOK, Crowded
    <3>2. QED
      BY <2>1, <2>3, <3>1, AsideKeeps
  <2>4. QED
    BY <1>1, <2>2, <2>3, EveryStep
<1>2. CASE UNCHANGED admissionVars
  <2>1. Aside /\ crowded' = crowded
    BY <1>2 DEF admissionVars, vars, Aside, Fades, AdmissionIInv, AdmissionTypeOK, TypeOK
  <2>2. QED
    BY <2>1, AsideKeeps DEF AdmissionIInv, AdmissionTypeOK
<1>3. QED
  BY <1>1, <1>2

-----------------------------------------------------------------------------
(* The theorems.                                                           *)

\* The invariant of the handlers of public-interviews.ts, billing-admission.ts
\* and credit-settlement.ts holds in every state.
THEOREM AdmissionKeepsInvariant == AdmissionSpec => []AdmissionIInv
<1>1. AdmissionInit => AdmissionIInv
  BY AdmissionBegins
<1>2. AdmissionIInv /\ [AdmissionNext]_admissionVars => AdmissionIInv'
  BY AdmissionGoesOn
<1>3. QED
  BY <1>1, <1>2, PTL DEF AdmissionSpec

\* AdmissionInv: no room and no resume token without a credit, however requests
\* overlap and wherever they die; and an invited candidate is charged once where
\* requests and attempts follow one another.
THEOREM AdmissionIsSafe == AdmissionSpec => []AdmissionInv
<1>1. AdmissionIInv => AdmissionInv
  <2> SUFFICES ASSUME AdmissionIInv PROVE ChargedOncePerInvitation
    BY DEF AdmissionIInv, AdmissionInv
  <2>1. SUFFICES ASSUME invitation # "none", ~crowded, NEW s1 \in Sessions, NEW s2 \in Sessions,
                        db.reservations[s1].status = "captured",
                        db.reservations[s2].status = "captured",
                        s1 \notin lost, s2 \notin lost
                 PROVE  s1 = s2
    BY DEF ChargedOncePerInvitation
  <2>2. Calm /\ Concluded
    BY <2>1 DEF AdmissionIInv
  <2>3. s1 \in Done /\ s2 \in Done
    BY <2>1, <2>2 DEF Calm, Done
  <2>4. QED
    BY <2>2, <2>3 DEF Concluded
<1>2. QED
  BY <1>1, AdmissionKeepsInvariant, PTL

\* EndedIsSettled: an attempt that has ended holds no credit once no request
\* works on it, unless one died or gave up on its way to the ledger.
THEOREM EndedAreSettled == AdmissionSpec => []EndedIsSettled
<1>1. AdmissionIInv => EndedIsSettled
  <2> SUFFICES ASSUME AdmissionIInv, NEW s \in Sessions,
                      attempts[s].status \in Ended, ~Busy(s), s \notin lost,
                      db.reservations[s].status = "held"
               PROVE  FALSE
    BY DEF EndedIsSettled
  <2>1. PICK r \in Requests : Keeps(requests[r], s)
    BY DEF AdmissionIInv, EndedHasAKeeper
  <2>2. QED
    BY <2>1 DEF Keeps, Target, Busy
<1>2. QED
  BY <1>1, AdmissionKeepsInvariant, PTL

\* TerminalIsFinal: no request changes the status of an attempt that was
\* completed, expired or superseded when the request came in.
THEOREM TerminalStaysFinal == AdmissionSpec => TerminalIsFinal
<1> DEFINE Final ==
       \A s \in EndedForGood :
          attempts'[s].status = attempts[s].status
          \/ \E r \in Requests : requests'[r] # requests[r] /\ s \notin requests[r].found
<1>1. AdmissionIInv /\ [AdmissionNext]_admissionVars => [Final]_admissionVars
  <2> SUFFICES ASSUME AdmissionIInv, AdmissionNext PROVE Final
    OBVIOUS
  <2>1. CASE \E r \in Requests : \E q : Step(r, q)
    <3>1. PICK r \in Requests : \E q : Move(r, q)
      BY <2>1 DEF Step
    <3>2. PICK q : Move(r, q)
      BY <3>1
    <3>3. requests'[r] = q /\ q.pc # requests[r].pc
      BY <3>2 DEF Move, AdmissionIInv, AdmissionTypeOK
    <3>4. QED
      BY <3>2, <3>3 DEF Move, Spares
  <2>2. CASE Aside
    BY <2>2 DEF Aside, EndedForGood
  <2>3. QED
    BY <2>1, <2>2, EveryStep
<1>2. QED
  BY <1>1, AdmissionKeepsInvariant, PTL DEF AdmissionSpec, TerminalIsFinal
=============================================================================
