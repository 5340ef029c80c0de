--------------------------- MODULE BackgroundProofs ---------------------------
(***************************************************************************)
(* What the console does by the clock: that two billing sweeps never work  *)
(* at the same time, that a notice has one sender, that what reads as      *)
(* erased is gone and that an intake becomes one Job, for every number of  *)
(* wallets, sessions, intakes, workers and requests and every choice of    *)
(* the times and budgets that keeps the order the code demands of them.    *)
(***************************************************************************)
EXTENDS BillingSweep, RoleIntakes, CandidateData, NotificationDelivery, TLAPS,
        WellFoundedInduction

-----------------------------------------------------------------------------
(* Two sweeps never work at the same time.  The invariant bounds the       *)
(* running time of a call by where it is: the lock of a call that works is *)
(* then still held.                                                        *)

\* What a call may have spent where it is: the passes overrun their budget by one
\* operation, the first wallet takes another, and one more may be in flight when the
\* time of the sweep trips.
InBudget(call) ==
    /\ call.at = "archive" => call.spent = 0
    /\ call.at \in {"archive", "events", "list"} => ~call.tried
    /\ call.at \in {"archive", "events", "list", "loop"} =>
           call.spent <= (IF call.tried THEN SweepBudget + 2 * OperationTime
                                        ELSE EntryBudget + OperationTime)

SweepIInv ==
    /\ SweepTypeOK
    /\ \A c \in Callers : InBudget(calls[c])
    /\ SweepsDoNotOverlap

WorkSteps == {"archive", "events", "list", "loop"}

\* A step that only changes one call preserves the invariant, if the call it leaves is
\* a call in its budget, and works only if it did or if no call did.
LEMMA OneCallChanges ==
    ASSUME SweepIInv, NEW c \in Callers, NEW call \in CallRow, Set(c, call), InBudget(call),
           call.at \in WorkSteps => Working(c) \/ \A d \in Callers : ~Working(d)
    PROVE  /\ calls' \in [Callers -> CallRow]
           /\ \A d \in Callers : InBudget(calls'[d])
           /\ SweepsDoNotOverlap'
<1>1. /\ calls \in [Callers -> CallRow]
      /\ calls' = [calls EXCEPT ![c] = call]
  BY DEF SweepIInv, SweepTypeOK, Set
<1>2. /\ calls'[c] = call
      /\ \A d \in Callers : d # c => calls'[d] = calls[d]
  BY <1>1
<1>3. calls' \in [Callers -> CallRow]
  BY <1>1
<1>4. \A d \in Callers : InBudget(calls'[d])
  BY <1>2 DEF SweepIInv
<1>5. SweepsDoNotOverlap'
  <2> SUFFICES ASSUME NEW d \in Callers, NEW e \in Callers, Working(d)', Working(e)'
               PROVE  d = e
    BY DEF SweepsDoNotOverlap
  <2>1. \A x \in Callers : Working(x)' => Working(x) \/ x = c
    BY <1>2 DEF Working
  <2>2. Working(c)' => Working(c) \/ \A x \in Callers : ~Working(x)
    BY <1>2 DEF Working, WorkSteps
  <2> QED
    BY <2>1, <2>2 DEF SweepIInv, SweepsDoNotOverlap
<1> QED
  BY <1>3, <1>4, <1>5

\* A call that works has not outlived its lock.
LEMMA WorkingHoldsTheLock ==
    ASSUME SweepIInv, ~Locked
    PROVE  \A d \in Callers : ~Working(d)
<1> SUFFICES ASSUME NEW d \in Callers, Working(d)
             PROVE  calls[d].spent <= LockTimeout
  BY DEF Locked
<1>1. calls[d] \in CallRow
  BY DEF SweepIInv, SweepTypeOK
<1>2. calls[d].spent <= (IF calls[d].tried THEN SweepBudget + 2 * OperationTime
                                           ELSE EntryBudget + OperationTime)
  BY DEF SweepIInv, InBudget, Working
<1>3. calls[d].spent \in Nat
  BY <1>1 DEF CallRow
<1> QED
  BY <1>2, <1>3, SweepAssumption

\* An idle call, and one about to enter, are calls in their budget.
LEMMA FreshCall ==
    ASSUME NEW cursor \in 0 .. LastWallet, NEW page \in 0 .. MaxPages, NEW at \in {"idle", "call"}
    PROVE  [at |-> at, cursor |-> cursor, page |-> page, spent |-> 0, scanned |-> 0,
            rows |-> {}, more |-> FALSE, tried |-> FALSE] \in CallRow
<1>1. 0 \in 0 .. LastEvent /\ 0 \in Nat
  BY SweepAssumption
<1>2. {} \in SUBSET Wallets /\ FALSE \in BOOLEAN
  OBVIOUS
<1>3. at \in {"idle", "call", "archive", "events", "list", "loop"}
  OBVIOUS
<1> QED
  BY <1>1, <1>2, <1>3 DEF CallRow

\* A call that has not begun, or has only its place, is within its budget.
LEMMA IdleIsInBudget ==
    ASSUME NEW cursor \in 0 .. LastWallet, NEW page \in 0 .. MaxPages, NEW at \in {"idle", "call"},
           NEW call, call = [Idle EXCEPT !.at = at, !.cursor = cursor, !.page = page]
    PROVE  call \in CallRow /\ InBudget(call) /\ call.at \notin WorkSteps
<1>1. call = [at |-> at, cursor |-> cursor, page |-> page, spent |-> 0, scanned |-> 0,
              rows |-> {}, more |-> FALSE, tried |-> FALSE]
  BY DEF Idle
<1>2. call \in CallRow
  <2>1. [at |-> at, cursor |-> cursor, page |-> page, spent |-> 0, scanned |-> 0,
         rows |-> {}, more |-> FALSE, tried |-> FALSE] \in CallRow
    BY FreshCall
  <2> QED
    BY <1>1, <2>1, Zenon
<1>3. call.at \in {"idle", "call"}
  BY <1>1
<1> QED
  BY <1>2, <1>3 DEF InBudget, WorkSteps

\* A call at rest.
LEMMA IdleCall == Idle \in CallRow /\ InBudget(Idle) /\ Idle.at = "idle" /\ Idle.at \notin WorkSteps
BY SweepAssumption DEF Idle, CallRow, InBudget, WorkSteps

\* The first state.
LEMMA SweepInitInvariant == SweepInit => SweepIInv
<1> SUFFICES ASSUME SweepInit PROVE SweepIInv
  OBVIOUS
<1>1. Idle \in CallRow /\ InBudget(Idle) /\ Idle.at = "idle"
  BY IdleCall
<1>2. \A c \in Callers : calls[c] = Idle
  BY DEF SweepInit
<1>3. SweepTypeOK
  BY <1>1, SweepAssumption DEF SweepInit, SweepTypeOK
<1> QED
  BY <1>1, <1>2, <1>3 DEF SweepIInv, SweepsDoNotOverlap, Working

\* Each step of a call.
LEMMA BeginInvariant ==
    ASSUME SweepIInv, NEW c \in Callers, Begin(c)
    PROVE  SweepIInv'
<1> DEFINE Called(cursor) == [Idle EXCEPT !.at = "call", !.cursor = cursor, !.page = 1]
<1>1. PICK cursor \in {0, LastWallet} : Set(c, Called(cursor))
  <2>1. \E cursor \in IF c = "job" THEN {0} ELSE {0, LastWallet} : Set(c, Called(cursor))
    BY DEF Begin
  <2> HIDE DEF Called
  <2> QED
    BY <2>1
<1>2. cursor \in 0 .. LastWallet /\ 1 \in 0 .. MaxPages
  BY SweepAssumption
<1>3. Called(cursor) \in CallRow /\ InBudget(Called(cursor)) /\ Called(cursor).at \notin WorkSteps
  BY <1>2, IdleIsInBudget
<1> HIDE DEF Called
<1>4. /\ calls' \in [Callers -> CallRow]
      /\ \A d \in Callers : InBudget(calls'[d])
      /\ SweepsDoNotOverlap'
  BY <1>1, <1>3, OneCallChanges
<1>5. manual' \in 0 .. MaxManual
  BY SweepAssumption DEF Begin, SweepIInv, SweepTypeOK
<1>6. SweepTypeOK'
  BY <1>4, <1>5 DEF Begin, SweepIInv, SweepTypeOK
<1> QED
  BY <1>4, <1>6 DEF SweepIInv

\* The rest of the state, where a step leaves it alone.
LEMMA CallOnly ==
    ASSUME SweepIInv, UNCHANGED <<wallets, due, fulfilled, crashes, manual>>,
           calls' \in [Callers -> CallRow]
    PROVE  SweepTypeOK'
BY DEF SweepIInv, SweepTypeOK

\* A call enters, or finds the lock taken.
LEMMA EnterInvariant ==
    ASSUME SweepIInv, NEW c \in Callers, Enter(c)
    PROVE  SweepIInv'
<1> DEFINE at == IF calls[c].cursor = 0 THEN "archive" ELSE "list"
           entered == [calls[c] EXCEPT !.spent = 0, !.scanned = 0, !.tried = FALSE, !.at = at]
<1>1. calls[c] \in CallRow
  BY DEF SweepIInv, SweepTypeOK
<1>2. CASE Locked
  <2>1. Set(c, Idle)
    BY <1>2 DEF Enter
  <2>2. Idle \in CallRow /\ InBudget(Idle) /\ Idle.at \notin WorkSteps
    BY IdleCall
  <2> QED
    BY <2>1, <2>2, OneCallChanges, CallOnly DEF Enter, SweepIInv
<1>3. CASE ~Locked
  <2>1. Set(c, entered)
    BY <1>3 DEF Enter
  <2>2. entered \in CallRow /\ InBudget(entered)
    <3>1. at \in {"archive", "list"}
      OBVIOUS
    <3>2. 0 \in 0 .. LastEvent /\ 0 <= EntryBudget + OperationTime
      BY SweepAssumption
    <3> HIDE DEF at
    <3>3. entered \in CallRow
      BY <1>1, <3>1, <3>2 DEF CallRow
    <3>4. entered.spent = 0 /\ ~entered.tried
      BY <1>1 DEF CallRow
    <3> QED
      BY <3>2, <3>3, <3>4 DEF InBudget
  <2> HIDE DEF entered
  <2> QED
    BY <1>3, <2>1, <2>2, WorkingHoldsTheLock, OneCallChanges, CallOnly DEF Enter, SweepIInv
<1> QED
  BY <1>2, <1>3

\* The archived events are handled again.
LEMMA ReprocessInvariant ==
    ASSUME SweepIInv, NEW c \in Callers, ReprocessArchive(c)
    PROVE  SweepIInv'
<1>1. PICK time \in 1 .. OperationTime :
          Set(c, [calls[c] EXCEPT !.at = "events", !.spent = @ + time])
  BY DEF ReprocessArchive
<1> DEFINE spent == calls[c].spent + time
           call == [calls[c] EXCEPT !.at = "events", !.spent = spent]
<1>2. calls[c] \in CallRow /\ InBudget(calls[c]) /\ calls[c].at = "archive"
  BY DEF SweepIInv, SweepTypeOK, ReprocessArchive
<1>3. call \in CallRow /\ InBudget(call) /\ Working(c)
  <2>1. calls[c].spent = 0 /\ ~calls[c].tried
    BY <1>2 DEF InBudget
  <2>2. spent \in Nat /\ spent <= EntryBudget + OperationTime
    BY <2>1, SweepAssumption
  <2> HIDE DEF spent
  <2> QED
    BY <1>2, <2>1, <2>2 DEF CallRow, InBudget, Working
<1> HIDE DEF call
<1> QED
  BY <1>1, <1>3, OneCallChanges, CallOnly DEF ReprocessArchive, SweepIInv, call, spent

\* One event of the listing is recovered.
LEMMA RecoverInvariant ==
    ASSUME SweepIInv, NEW c \in Callers, RecoverEvent(c)
    PROVE  SweepIInv'
<1>1. PICK time \in 1 .. OperationTime :
          Set(c, [calls[c] EXCEPT !.scanned = @ + 1, !.spent = @ + time])
  BY DEF RecoverEvent
<1> DEFINE spent == calls[c].spent + time
           scanned == calls[c].scanned + 1
           call == [calls[c] EXCEPT !.scanned = scanned, !.spent = spent]
<1>2. /\ calls[c] \in CallRow /\ InBudget(calls[c]) /\ calls[c].at = "events"
      /\ calls[c].scanned < LastEvent /\ calls[c].spent < EntryBudget
  BY DEF SweepIInv, SweepTypeOK, RecoverEvent
<1>3. call \in CallRow /\ InBudget(call) /\ Working(c)
  <2>1. calls[c].spent \in Nat /\ calls[c].scanned \in Nat /\ ~calls[c].tried
    BY <1>2 DEF CallRow, InBudget
  <2>2. spent \in Nat /\ spent <= EntryBudget + OperationTime
    BY <1>2, <2>1, SweepAssumption
  <2>3. scanned \in 0 .. LastEvent
    BY <1>2, <2>1, SweepAssumption
  <2> HIDE DEF spent, scanned
  <2> QED
    BY <1>2, <2>1, <2>2, <2>3 DEF CallRow, InBudget, Working
<1>4. fulfilled' \subseteq 1 .. LastEvent
  BY <1>2, SweepAssumption DEF RecoverEvent, SweepIInv, SweepTypeOK, CallRow
<1> HIDE DEF call
<1>5. /\ calls' \in [Callers -> CallRow]
      /\ \A d \in Callers : InBudget(calls'[d])
      /\ SweepsDoNotOverlap'
  BY <1>1, <1>3, OneCallChanges DEF call, spent, scanned
<1>6. SweepTypeOK'
  BY <1>4, <1>5 DEF RecoverEvent, SweepIInv, SweepTypeOK
<1> QED
  BY <1>5, <1>6 DEF SweepIInv

\* The events are done, and the wallets come next.
LEMMA EventsDoneInvariant ==
    ASSUME SweepIInv, NEW c \in Callers, EventsDone(c)
    PROVE  SweepIInv'
<1> DEFINE call == [calls[c] EXCEPT !.at = "list"]
<1>1. calls[c] \in CallRow /\ InBudget(calls[c]) /\ calls[c].at = "events"
  BY DEF SweepIInv, SweepTypeOK, EventsDone
<1>2. call \in CallRow /\ InBudget(call) /\ Working(c)
  BY <1>1 DEF CallRow, InBudget, Working
<1>3. Set(c, call)
  BY DEF EventsDone
<1> HIDE DEF call
<1> QED
  BY <1>2, <1>3, OneCallChanges, CallOnly DEF EventsDone, SweepIInv

\* The next page of wallets is read.
LEMMA ReadPageInvariant ==
    ASSUME SweepIInv, NEW c \in Callers, ReadPage(c)
    PROVE  SweepIInv'
<1> DEFINE rows == After(calls[c].cursor)
           call == [calls[c] EXCEPT !.at = "loop", !.rows = PageOf(rows),
                                    !.more = PageOf(rows) # rows]
<1>1. calls[c] \in CallRow /\ InBudget(calls[c]) /\ calls[c].at = "list"
  BY DEF SweepIInv, SweepTypeOK, ReadPage
<1>2. PageOf(rows) \subseteq Wallets
  BY DEF After, PageOf, SweepIInv, SweepTypeOK
<1>3. (PageOf(rows) # rows) \in BOOLEAN
  OBVIOUS
<1>4. Set(c, call)
  BY DEF ReadPage
<1> HIDE DEF rows
<1>5. call \in CallRow /\ InBudget(call) /\ Working(c)
  BY <1>1, <1>2, <1>3 DEF CallRow, InBudget, Working
<1> HIDE DEF call
<1> QED
  BY <1>4, <1>5, OneCallChanges, CallOnly DEF ReadPage, SweepIInv

\* One wallet is swept.
LEMMA SweepWalletInvariant ==
    ASSUME SweepIInv, NEW c \in Callers, SweepWallet(c)
    PROVE  SweepIInv'
<1>1. calls[c] \in CallRow /\ InBudget(calls[c]) /\ calls[c].at = "loop" /\ InTime(calls[c])
  BY DEF SweepIInv, SweepTypeOK, SweepWallet
<1>2. PICK w \in calls[c].rows, time \in 1 .. OperationTime :
          /\ due' = IF w \in FailingWallets THEN due ELSE due \ {w}
          /\ Set(c, [calls[c] EXCEPT !.rows = @ \ {w}, !.cursor = w, !.tried = TRUE,
                                      !.spent = @ + time])
  BY DEF SweepWallet
<1> DEFINE spent == calls[c].spent + time
           rows == calls[c].rows \ {w}
           call == [calls[c] EXCEPT !.rows = rows, !.cursor = w, !.tried = TRUE, !.spent = spent]
<1>3. w \in 0 .. LastWallet
  BY <1>1, SweepAssumption DEF CallRow, Wallets
<1>4. spent \in Nat /\ spent <= SweepBudget + 2 * OperationTime
  <2>1. calls[c].spent \in Nat
    BY <1>1 DEF CallRow
  <2>2. calls[c].spent <= SweepBudget \/ calls[c].spent <= EntryBudget + OperationTime
    BY <1>1 DEF InBudget, InTime
  <2> QED
    BY <2>1, <2>2, SweepAssumption
<1>5. rows \subseteq Wallets
  BY <1>1 DEF CallRow
<1> HIDE DEF spent, rows
<1>6. call \in CallRow /\ InBudget(call) /\ Working(c)
  BY <1>1, <1>3, <1>4, <1>5 DEF CallRow, InBudget, Working
<1> HIDE DEF call
<1>7. /\ calls' \in [Callers -> CallRow]
      /\ \A d \in Callers : InBudget(calls'[d])
      /\ SweepsDoNotOverlap'
  BY <1>2, <1>6, OneCallChanges DEF call, spent, rows
<1>8. SweepTypeOK'
  BY <1>2, <1>7 DEF SweepWallet, SweepIInv, SweepTypeOK
<1> QED
  BY <1>7, <1>8 DEF SweepIInv

\* The call answers; the job goes on with the next page, or rests.
LEMMA AnswerInvariant ==
    ASSUME SweepIInv, NEW c \in Callers, Answer(c)
    PROVE  SweepIInv'
<1> DEFINE next == [Idle EXCEPT !.at = "call", !.cursor = calls[c].cursor,
                                !.page = calls[c].page + 1]
<1>1. calls[c] \in CallRow
  BY DEF SweepIInv, SweepTypeOK
<1>2. \/ Set(c, Idle)
      \/ Set(c, next) /\ calls[c].page < MaxPages
  BY DEF Answer
<1>3. calls[c].page < MaxPages => calls[c].page + 1 \in 0 .. MaxPages
  BY <1>1, SweepAssumption DEF CallRow
<1>4. calls[c].cursor \in 0 .. LastWallet
  BY <1>1 DEF CallRow
<1>5. Idle \in CallRow /\ InBudget(Idle) /\ Idle.at \notin WorkSteps
  BY IdleCall
<1>6. calls[c].page < MaxPages => next \in CallRow /\ InBudget(next) /\ next.at \notin WorkSteps
  BY <1>3, <1>4, IdleIsInBudget
<1> HIDE DEF next
<1>7. /\ calls' \in [Callers -> CallRow]
      /\ \A d \in Callers : InBudget(calls'[d])
      /\ SweepsDoNotOverlap'
  BY <1>2, <1>5, <1>6, OneCallChanges
<1> QED
  BY <1>7, CallOnly DEF Answer, SweepIInv

\* The call dies, and rests.
LEMMA CrashInvariant ==
    ASSUME SweepIInv, NEW c \in Callers, Crash(c)
    PROVE  SweepIInv'
<1>1. Idle \in CallRow /\ InBudget(Idle) /\ Idle.at \notin WorkSteps
  BY IdleCall
<1>2. /\ calls' \in [Callers -> CallRow]
      /\ \A d \in Callers : InBudget(calls'[d])
      /\ SweepsDoNotOverlap'
  BY <1>1, OneCallChanges DEF Crash
<1>3. SweepTypeOK'
  BY <1>2, SweepAssumption DEF Crash, SweepIInv, SweepTypeOK
<1> QED
  BY <1>2, <1>3 DEF SweepIInv

\* Every step keeps the invariant.
LEMMA SweepNextInvariant == SweepIInv /\ [SweepNext]_sweepVars => SweepIInv'
<1> SUFFICES ASSUME SweepIInv, [SweepNext]_sweepVars PROVE SweepIInv'
  OBVIOUS
<1>1. ASSUME NEW c \in Callers, Serves(c) PROVE SweepIInv'
  BY <1>1, EnterInvariant, ReprocessInvariant, RecoverInvariant, EventsDoneInvariant,
     ReadPageInvariant, SweepWalletInvariant, AnswerInvariant DEF Serves
<1>2. ASSUME calls' = calls, UNCHANGED <<fulfilled, crashes, manual>>,
             wallets' \subseteq Wallets, due' \subseteq Wallets
      PROVE  SweepIInv'
  BY <1>2 DEF SweepIInv, SweepTypeOK, SweepsDoNotOverlap, Working
<1>3. CASE GetsDue
  BY <1>2, <1>3 DEF GetsDue, SweepIInv, SweepTypeOK
<1>4. CASE Deletes
  BY <1>2, <1>4 DEF Deletes, SweepIInv, SweepTypeOK
<1>5. CASE UNCHANGED sweepVars
  BY <1>2, <1>5 DEF sweepVars, SweepIInv, SweepTypeOK
<1> QED
  BY <1>1, <1>3, <1>4, <1>5, BeginInvariant, CrashInvariant DEF SweepNext

\* The types of the sweep's state, and the bound on what a call has spent.
THEOREM SweepInvariant == SweepSpec => []SweepIInv
<1>1. SweepInit => SweepIInv
  BY SweepInitInvariant
<1>2. SweepIInv /\ [SweepNext]_sweepVars => SweepIInv'
  BY SweepNextInvariant
<1> QED
  BY <1>1, <1>2, PTL DEF SweepSpec

\* No two sweeps work at the same time (withSweepLock, and the ordering of the
\* timeouts runSweep keeps).
THEOREM NoOverlap == SweepSpec => []SweepsDoNotOverlap
<1>1. SweepIInv => SweepsDoNotOverlap
  BY DEF SweepIInv
<1> QED
  BY <1>1, SweepInvariant, PTL

\* The types of the sweep's state.
THEOREM SweepTypes == SweepSpec => []SweepTypeOK
<1>1. SweepIInv => SweepTypeOK
  BY DEF SweepIInv
<1> QED
  BY <1>1, SweepInvariant, PTL

-----------------------------------------------------------------------------
(* One sender of a notice.                                                 *)

\* A dispatch that is under way is no older than the platform lets it get.
InItsTime(d) ==
    /\ d.at = "idle" => d = AtRest
    /\ d.at # "idle" => d.started <= noticeClock /\ noticeClock <= d.started + DispatchLife

\* Who has claimed the row has it in hand still: the row has the time of the claim, and the
\* number of its attempt is not used up.
HasTheRow(d) ==
    /\ delivery.status = "sending"
    /\ delivery.attemptedAt = d.started
    /\ delivery.attemptCount \notin attempts
    /\ d.at # "number" => d.number = delivery.attemptCount

NoticeIInv ==
    /\ NoticeTypeOK
    /\ \A n \in attempts : n <= delivery.attemptCount
    /\ \A p \in Dispatchers : InItsTime(dispatchers[p])
    /\ \A p \in Claimants : HasTheRow(dispatchers[p])
    /\ \A p, q \in Claimants : p = q

\* A place where the row is not in hand.
NotYet == {"idle", "claim"}

\* A step of one dispatcher, to a record of its type and within its time, with nobody else's
\* claim taken from them.
LEMMA OneDispatcherMoves ==
    ASSUME NoticeIInv, NEW p \in Dispatchers, NEW d \in Dispatcher,
           dispatchers' = [dispatchers EXCEPT ![p] = d], InItsTime(d), noticeClock' = noticeClock
    PROVE  /\ dispatchers' \in [Dispatchers -> Dispatcher]
           /\ \A q \in Dispatchers : InItsTime(dispatchers[q])'
           /\ dispatchers'[p] = d
           /\ \A q \in Dispatchers : q # p => dispatchers'[q] = dispatchers[q]
<1>1. /\ dispatchers' \in [Dispatchers -> Dispatcher]
      /\ dispatchers'[p] = d
      /\ \A q \in Dispatchers : q # p => dispatchers'[q] = dispatchers[q]
  BY DEF NoticeIInv, NoticeTypeOK
<1>2. \A q \in Dispatchers : InItsTime(dispatchers[q])'
  BY <1>1 DEF NoticeIInv, InItsTime
<1> QED
  BY <1>1, <1>2

\* A claim is never taken over from one who is still at work: it goes stale later than any
\* dispatch ends.
LEMMA ClaimIsFree ==
    ASSUME NoticeIInv, NEW p \in Dispatchers, dispatchers[p].at = "claim",
           Claimable(delivery, dispatchers[p].started)
    PROVE  Claimants = {}
<1> SUFFICES ASSUME NEW q \in Claimants PROVE FALSE
  OBVIOUS
<1>1. /\ dispatchers[p] \in Dispatcher /\ dispatchers[q] \in Dispatcher /\ delivery \in Delivery
      /\ noticeClock \in Nat
  BY NoticeAssumption DEF NoticeIInv, NoticeTypeOK, Claimants
<1>2. /\ delivery.status = "sending" /\ delivery.attemptedAt = dispatchers[q].started
      /\ noticeClock <= dispatchers[q].started + DispatchLife
      /\ dispatchers[p].started <= noticeClock
  BY DEF NoticeIInv, HasTheRow, InItsTime, Claimants
<1>3. dispatchers[p].started > dispatchers[q].started + StaleClaim
  BY <1>2 DEF Claimable
<1> QED
  BY <1>1, <1>2, <1>3, NoticeAssumption DEF Dispatcher, Delivery

\* A dispatcher at rest.
LEMMA RestIsTyped == AtRest \in Dispatcher /\ InItsTime(AtRest) /\ AtRest.at = "idle"
BY DEF AtRest, Dispatcher, InItsTime

\* The notice is looked up, or made.
LEMMA DispatchKeeps ==
    ASSUME NoticeIInv, NEW p \in Dispatchers, Dispatch(p)
    PROVE  NoticeIInv'
<1> DEFINE row == IF delivery.status = "none" THEN [delivery EXCEPT !.status = "pending"]
                  ELSE delivery
           d == [at |-> "claim", started |-> noticeClock, number |-> 0]
<1>1. /\ delivery \in Delivery /\ noticeClock \in Nat
      /\ dispatchers \in [Dispatchers -> Dispatcher]
  BY NoticeAssumption DEF NoticeIInv, NoticeTypeOK
<1>2. /\ delivery' = row /\ dispatchers[p] = AtRest
      /\ attempts' = attempts /\ noticeClock' = noticeClock
  BY DEF Dispatch
<1>3. row \in Delivery /\ row.attemptCount = delivery.attemptCount
      /\ (delivery.status = "sending" => row = delivery)
  BY <1>1 DEF Delivery
<1> HIDE DEF row
<1>4. \A q \in Dispatchers : HasTheRow(dispatchers[q]) => delivery' = delivery
  BY <1>2, <1>3 DEF HasTheRow
<1>5. CASE dispatchers' = dispatchers
  <2>1. \A q \in Dispatchers : InItsTime(dispatchers[q])'
    BY <1>2, <1>5 DEF NoticeIInv, InItsTime
  <2>2. Claimants' = Claimants
    BY <1>5 DEF Claimants
  <2>3. \A q \in Claimants' : HasTheRow(dispatchers[q])'
    BY <1>2, <1>4, <1>5, <2>2 DEF NoticeIInv, HasTheRow, Claimants
  <2> QED
    BY <1>1, <1>2, <1>3, <1>5, <2>1, <2>2, <2>3 DEF NoticeIInv, NoticeTypeOK
<1>6. CASE dispatchers' = [dispatchers EXCEPT ![p] = d]
  <2>1. d \in Dispatcher /\ d.at = "claim" /\ InItsTime(d)
    BY <1>1, NoticeAssumption DEF Dispatcher, InItsTime
  <2> HIDE DEF d
  <2>2. /\ dispatchers' \in [Dispatchers -> Dispatcher]
        /\ \A q \in Dispatchers : InItsTime(dispatchers[q])'
        /\ dispatchers'[p] = d
        /\ \A q \in Dispatchers : q # p => dispatchers'[q] = dispatchers[q]
    BY <1>2, <1>6, <2>1, OneDispatcherMoves
  <2>3. Claimants' = Claimants
    BY <1>2, <2>1, <2>2, RestIsTyped DEF Claimants
  <2>4. \A q \in Claimants' : HasTheRow(dispatchers[q])'
    BY <1>2, <1>4, <2>1, <2>2, <2>3 DEF NoticeIInv, HasTheRow, Claimants
  <2> QED
    BY <1>1, <1>2, <1>3, <2>2, <2>3, <2>4 DEF NoticeIInv, NoticeTypeOK
<1> QED
  BY <1>5, <1>6 DEF Dispatch

\* The row is claimed, or left to who has it.
LEMMA ClaimKeeps ==
    ASSUME NoticeIInv, NEW p \in Dispatchers, Claim(p)
    PROVE  NoticeIInv'
<1> DEFINE claimed == [status |-> "sending", attemptedAt |-> dispatchers[p].started,
                       attemptCount |-> delivery.attemptCount + 1]
           d == [dispatchers[p] EXCEPT !.at = "number"]
<1>1. /\ delivery \in Delivery /\ noticeClock \in Nat
      /\ dispatchers[p] \in Dispatcher /\ dispatchers[p].at = "claim"
      /\ attempts' = attempts /\ noticeClock' = noticeClock
      /\ attempts \subseteq Nat
  BY NoticeAssumption DEF NoticeIInv, NoticeTypeOK, Claim
<1>2. CASE ~Claimable(delivery, dispatchers[p].started)
  <2>1. dispatchers' = [dispatchers EXCEPT ![p] = AtRest] /\ delivery' = delivery
    BY <1>2 DEF Claim, Rest
  <2>2. /\ dispatchers' \in [Dispatchers -> Dispatcher]
        /\ \A q \in Dispatchers : InItsTime(dispatchers[q])'
        /\ dispatchers'[p] = AtRest
        /\ \A q \in Dispatchers : q # p => dispatchers'[q] = dispatchers[q]
    BY <1>1, <2>1, RestIsTyped, OneDispatcherMoves
  <2>3. Claimants' = Claimants
    BY <1>1, <2>2, RestIsTyped DEF Claimants
  <2>4. \A q \in Claimants' : HasTheRow(dispatchers[q])'
    BY <1>1, <2>1, <2>2, <2>3 DEF NoticeIInv, HasTheRow, Claimants
  <2> QED
    BY <1>1, <2>1, <2>2, <2>3, <2>4 DEF NoticeIInv, NoticeTypeOK
<1>3. CASE Claimable(delivery, dispatchers[p].started)
  <2>1. Claimants = {}
    BY <1>1, <1>3, ClaimIsFree
  <2>2. dispatchers' = [dispatchers EXCEPT ![p] = d] /\ delivery' = claimed
    <3>1. dispatchers' = [dispatchers EXCEPT ![p].at = "number"] /\ delivery' = claimed
      BY <1>3 DEF Claim, Advance
    <3> QED
      BY <3>1
  <2>3. /\ d \in Dispatcher /\ d.at = "number" /\ d.started = dispatchers[p].started
        /\ claimed \in Delivery /\ claimed.status = "sending"
        /\ claimed.attemptedAt = dispatchers[p].started
        /\ claimed.attemptCount = delivery.attemptCount + 1
    BY <1>1 DEF Dispatcher, Delivery
  <2>4. InItsTime(d)
    BY <1>1, <2>3 DEF NoticeIInv, InItsTime
  <2> HIDE DEF d, claimed
  <2>5. /\ dispatchers' \in [Dispatchers -> Dispatcher]
        /\ \A q \in Dispatchers : InItsTime(dispatchers[q])'
        /\ dispatchers'[p] = d
        /\ \A q \in Dispatchers : q # p => dispatchers'[q] = dispatchers[q]
    BY <1>1, <2>2, <2>3, <2>4, OneDispatcherMoves
  <2>6. Claimants' = {p}
    BY <2>1, <2>3, <2>5 DEF Claimants
  <2>7. delivery.attemptCount \in Nat /\ \A n \in attempts : n <= delivery.attemptCount
    BY <1>1 DEF NoticeIInv, Delivery
  <2>8. \A n \in attempts' : n <= delivery'.attemptCount /\ n # delivery'.attemptCount
    BY <1>1, <2>2, <2>3, <2>7
  <2>9. HasTheRow(dispatchers[p])'
    BY <2>2, <2>3, <2>5, <2>8 DEF HasTheRow
  <2> QED
    BY <1>1, <2>2, <2>3, <2>5, <2>6, <2>8, <2>9 DEF NoticeIInv, NoticeTypeOK
<1> QED
  BY <1>2, <1>3

\* A dispatcher who has the row goes on with it, and leaves the row alone.
LEMMA HandKeeps ==
    ASSUME NoticeIInv, NEW p \in Claimants, NEW d \in Dispatcher,
           dispatchers' = [dispatchers EXCEPT ![p] = d],
           d.started = dispatchers[p].started, d.number = delivery.attemptCount,
           d.at \in {"send", "sent", "skipped", "failed"},
           UNCHANGED <<delivery, attempts, noticeClock>>
    PROVE  NoticeIInv'
<1>1. p \in Dispatchers /\ dispatchers[p].at # "idle"
  BY DEF Claimants
<1>2. InItsTime(d)
  BY <1>1 DEF NoticeIInv, InItsTime
<1>3. /\ dispatchers' \in [Dispatchers -> Dispatcher]
      /\ \A q \in Dispatchers : InItsTime(dispatchers[q])'
      /\ dispatchers'[p] = d
      /\ \A q \in Dispatchers : q # p => dispatchers'[q] = dispatchers[q]
  BY <1>1, <1>2, OneDispatcherMoves
<1>4. Claimants' = Claimants
  BY <1>1, <1>3 DEF Claimants
<1>5. \A q \in Claimants' : HasTheRow(dispatchers[q])'
  BY <1>3, <1>4 DEF NoticeIInv, HasTheRow, Claimants
<1> QED
  BY <1>3, <1>4, <1>5 DEF NoticeIInv, NoticeTypeOK

\* The number of the attempt is read, and the notice is sent.
LEMMA ReadAndSendKeep ==
    ASSUME NoticeIInv, NEW p \in Dispatchers, ReadNumber(p) \/ Send(p)
    PROVE  NoticeIInv'
<1>1. dispatchers \in [Dispatchers -> Dispatcher] /\ delivery \in Delivery
  BY DEF NoticeIInv, NoticeTypeOK
<1>2. p \in Claimants /\ UNCHANGED <<delivery, attempts, noticeClock>>
  BY DEF ReadNumber, Send, Claimants
<1>3. CASE ReadNumber(p)
  <2>1. PICK place \in {"send", "skipped"} :
            dispatchers' = [dispatchers EXCEPT ![p].number = delivery.attemptCount, ![p].at = place]
    BY <1>3 DEF ReadNumber
  <2> DEFINE d == [dispatchers[p] EXCEPT !.number = delivery.attemptCount, !.at = place]
  <2>2. dispatchers' = [dispatchers EXCEPT ![p] = d]
    BY <1>1, <2>1
  <2>3. /\ d \in Dispatcher /\ d.number = delivery.attemptCount /\ d.at = place
        /\ d.started = dispatchers[p].started
    BY <1>1 DEF Dispatcher, Delivery
  <2> HIDE DEF d
  <2> QED
    BY <1>2, <2>2, <2>3, HandKeeps
<1>4. CASE Send(p)
  <2>1. PICK place \in {"sent", "skipped", "failed"} :
            dispatchers' = [dispatchers EXCEPT ![p].at = place]
    BY <1>4 DEF Send, Advance
  <2> DEFINE d == [dispatchers[p] EXCEPT !.at = place]
  <2>2. dispatchers' = [dispatchers EXCEPT ![p] = d]
    BY <1>1, <2>1
  <2>3. /\ d \in Dispatcher /\ d.number = dispatchers[p].number /\ d.at = place
        /\ d.started = dispatchers[p].started
    BY <1>1 DEF Dispatcher
  <2>4. dispatchers[p].number = delivery.attemptCount
    BY <1>2, <1>4 DEF NoticeIInv, HasTheRow, Send
  <2> HIDE DEF d
  <2> QED
    BY <1>2, <2>1, <2>2, <2>3, <2>4, HandKeeps
<1> QED
  BY <1>3, <1>4

\* A dispatcher comes to rest, its claim settled or not.
LEMMA RestKeeps ==
    ASSUME NoticeIInv, NEW p \in Dispatchers, Rest(p), noticeClock' = noticeClock,
           delivery' \in Delivery, delivery'.attemptCount = delivery.attemptCount,
           attempts' \subseteq Nat, \A n \in attempts' : n <= delivery.attemptCount,
           \/ UNCHANGED <<delivery, attempts>>
           \/ p \in Claimants
    PROVE  NoticeIInv'
<1>1. /\ dispatchers' \in [Dispatchers -> Dispatcher]
      /\ \A q \in Dispatchers : InItsTime(dispatchers[q])'
      /\ dispatchers'[p] = AtRest
      /\ \A q \in Dispatchers : q # p => dispatchers'[q] = dispatchers[q]
  BY RestIsTyped, OneDispatcherMoves DEF Rest
<1>2. Claimants' = Claimants \ {p}
  BY <1>1, RestIsTyped DEF Claimants
<1>3. p \in Claimants => Claimants' = {}
  BY <1>2 DEF NoticeIInv
<1>4. \A q \in Claimants' : HasTheRow(dispatchers[q])'
  BY <1>1, <1>2, <1>3 DEF NoticeIInv, HasTheRow, Claimants
<1> QED
  BY <1>1, <1>2, <1>4 DEF NoticeIInv, NoticeTypeOK

\* The row is settled, and the attempt written with its number.
LEMMA SettleKeeps ==
    ASSUME NoticeIInv, NEW p \in Dispatchers, Settle(p)
    PROVE  NoticeIInv'
<1>1. /\ delivery \in Delivery /\ attempts \subseteq Nat
      /\ \A n \in attempts : n <= delivery.attemptCount
      /\ noticeClock' = noticeClock /\ Rest(p)
      /\ dispatchers[p].at \in {"sent", "skipped", "failed"}
  BY DEF NoticeIInv, NoticeTypeOK, Settle
<1>2. p \in Claimants
  BY <1>1 DEF Claimants
<1>3. dispatchers[p].number = delivery.attemptCount /\ dispatchers[p].number \notin attempts
  BY <1>1, <1>2 DEF NoticeIInv, HasTheRow
<1>4. /\ delivery' = [delivery EXCEPT !.status = dispatchers[p].at]
      /\ attempts' = attempts \cup {delivery.attemptCount}
  BY <1>3 DEF Settle
<1>5. /\ delivery' \in Delivery /\ delivery'.attemptCount = delivery.attemptCount
      /\ delivery.attemptCount \in Nat
  BY <1>1, <1>4 DEF Delivery
<1> QED
  BY <1>1, <1>2, <1>4, <1>5, RestKeeps

\* Time passes for everyone.
LEMMA PassTimeKeeps ==
    ASSUME NoticeIInv, PassTime
    PROVE  NoticeIInv'
<1>1. /\ dispatchers \in [Dispatchers -> Dispatcher] /\ noticeClock \in 0 .. NoticeHorizon
      /\ noticeClock < NoticeHorizon /\ noticeClock' = noticeClock + 1
      /\ UNCHANGED <<delivery, attempts, dispatchers>>
  BY DEF NoticeIInv, NoticeTypeOK, PassTime
<1>2. \A p \in Dispatchers : InItsTime(dispatchers[p])'
  <2> SUFFICES ASSUME NEW p \in Dispatchers, dispatchers[p].at # "idle"
               PROVE  /\ dispatchers[p].started <= noticeClock + 1
                      /\ noticeClock + 1 <= dispatchers[p].started + DispatchLife
    BY <1>1 DEF NoticeIInv, InItsTime
  <2>1. dispatchers[p] # AtRest
    BY RestIsTyped
  <2>2. noticeClock < dispatchers[p].started + DispatchLife
    BY <2>1 DEF PassTime
  <2>3. dispatchers[p].started <= noticeClock /\ dispatchers[p].started \in Nat
    BY <1>1 DEF NoticeIInv, InItsTime, Dispatcher
  <2> QED
    BY <1>1, <2>2, <2>3, NoticeAssumption
<1>3. Claimants' = Claimants
  BY <1>1 DEF Claimants
<1>4. \A p \in Claimants' : HasTheRow(dispatchers[p])'
  BY <1>1, <1>3 DEF NoticeIInv, HasTheRow, Claimants
<1>5. noticeClock' \in 0 .. NoticeHorizon
  BY <1>1, NoticeAssumption
<1> QED
  BY <1>1, <1>2, <1>3, <1>4, <1>5 DEF NoticeIInv, NoticeTypeOK

\* Every dispatch of a notice, whatever triggers it and wherever it dies, keeps the
\* invariant (dispatchDelivery).
THEOREM NoticeKeepsInvariant == NoticeSpec => []NoticeIInv
<1>1. NoticeInit => NoticeIInv
  <2> SUFFICES ASSUME NoticeInit PROVE NoticeIInv
    OBVIOUS
  <2>1. /\ delivery = [status |-> "none", attemptedAt |-> 0, attemptCount |-> 0]
        /\ attempts = {} /\ noticeClock = 0
        /\ dispatchers = [p \in Dispatchers |-> AtRest]
    BY DEF NoticeInit
  <2>2. NoticeTypeOK
    BY <2>1, RestIsTyped, NoticeAssumption DEF NoticeTypeOK, Delivery
  <2>3. Claimants = {} /\ \A p \in Dispatchers : InItsTime(dispatchers[p])
    BY <2>1, RestIsTyped DEF Claimants
  <2> QED
    BY <2>1, <2>2, <2>3 DEF NoticeIInv
<1>2. NoticeIInv /\ [NoticeNext]_noticeVars => NoticeIInv'
  <2> SUFFICES ASSUME NoticeIInv, [NoticeNext]_noticeVars PROVE NoticeIInv'
    OBVIOUS
  <2>1. ASSUME NEW p \in Dispatchers, Vanish(p) PROVE NoticeIInv'
    BY <2>1, RestKeeps DEF Vanish, NoticeIInv, NoticeTypeOK
  <2>2. CASE UNCHANGED noticeVars
    BY <2>2 DEF noticeVars, NoticeIInv, NoticeTypeOK, InItsTime, HasTheRow, Claimants
  <2> QED
    BY <2>1, <2>2, DispatchKeeps, ClaimKeeps, ReadAndSendKeep, SettleKeeps, PassTimeKeeps
       DEF NoticeNext
<1> QED
  BY <1>1, <1>2, PTL DEF NoticeSpec

\* However many triggers a notice has, one sender at most has it in hand, on a row that says
\* so, and no two attempts have the same number.
THEOREM OneSenderOfANotice == NoticeSpec => []NoticeInv
<1>1. NoticeIInv => NoticeInv
  BY DEF NoticeIInv, NoticeInv, OneSenderAtATime, HasTheRow
<1> QED
  BY <1>1, NoticeKeepsInvariant, PTL

-----------------------------------------------------------------------------
(* What reads as erased is gone.                                           *)

\* Sessions whose interview had ended before anything of this begins.
Ended == Sessions \ Running

\* What the realtime service has let go of.
Gone(row) == ~row.transcript /\ row.audio = "none"

DataIInv ==
    /\ DataInv
    /\ \A s \in Ended : sessions[s].end # "none" /\ sessions[s].audio # "recording"
    /\ \A c \in Requesters :
          /\ requests[c].kind \in {"brief", "erase"} => requests[c].session \in Sessions
          /\ requests[c].kind = "reissue" => requests[c].session \in Sessions \cup Reissues
          /\ At(c, "erase", "tombstone") /\ requests[c].session \in Ended
                 => Gone(sessions[requests[c].session])

\* What a request may be: its row is typed, what it names exists, and where it is about to
\* write the tombstone the content is gone.
Sound(r) ==
    /\ r \in RequestRow
    /\ r.kind \in {"brief", "erase"} => r.session \in Sessions
    /\ r.kind = "reissue" => r.session \in Sessions \cup Reissues
    /\ r.kind = "erase" /\ r.at = "tombstone" /\ r.session \in Ended
           => Gone(sessions'[r.session])

\* A session only ever loses content, unless its interview is still going on.
OnlyLoses ==
    /\ sessions' \in [Sessions -> SessionRow]
    /\ \A s \in Ended :
          /\ sessions'[s].end # "none" /\ sessions'[s].audio # "recording"
          /\ Gone(sessions[s]) => Gone(sessions'[s])

\* A step of one request, beside sessions that only lose content.
LEMMA OneRequestMoves ==
    ASSUME DataIInv, NEW c \in Requesters, NEW r, Sound(r),
           requests' = [requests EXCEPT ![c] = r], OnlyLoses
    PROVE  /\ requests' \in [Requesters -> RequestRow]
           /\ \A d \in Requesters :
                 /\ requests'[d].kind \in {"brief", "erase"} => requests'[d].session \in Sessions
                 /\ requests'[d].kind = "reissue" => requests'[d].session \in Sessions \cup Reissues
                 /\ At(d, "erase", "tombstone")' /\ requests'[d].session \in Ended
                        => Gone(sessions'[requests'[d].session])
<1>1. requests \in [Requesters -> RequestRow]
  BY DEF DataIInv, DataInv, DataTypeOK
<1>2. /\ requests'[c] = r
      /\ \A d \in Requesters : d # c => requests'[d] = requests[d]
      /\ requests' \in [Requesters -> RequestRow]
  BY <1>1 DEF Sound
<1>3. ASSUME NEW d \in Requesters
      PROVE  /\ requests'[d].kind \in {"brief", "erase"} => requests'[d].session \in Sessions
             /\ requests'[d].kind = "reissue" => requests'[d].session \in Sessions \cup Reissues
             /\ At(d, "erase", "tombstone")' /\ requests'[d].session \in Ended
                    => Gone(sessions'[requests'[d].session])
  <2>1. CASE d = c
    BY <1>2, <2>1 DEF Sound, At
  <2>2. CASE d # c
    BY <1>2, <2>2 DEF DataIInv, At, OnlyLoses
  <2> QED
    BY <2>1, <2>2
<1> QED
  BY <1>2, <1>3

\* Nothing under way.
LEMMA NoRequestIsSound == Sound(NoRequest)
BY DEF Sound, NoRequest, RequestRow

\* Sessions left alone lose nothing more.
LEMMA SameSessions ==
    ASSUME DataIInv, sessions' = sessions
    PROVE  OnlyLoses
BY DEF DataIInv, DataInv, DataTypeOK, OnlyLoses

\* A step of one request that leaves sessions and invitations alone.
LEMMA RequestAlone ==
    ASSUME DataIInv, NEW c \in Requesters, NEW r, Sound(r),
           requests' = [requests EXCEPT ![c] = r], UNCHANGED <<sessions, invitations, aged>>,
           briefs' \in [Sessions -> BriefStatus], sweep' \subseteq Sessions
    PROVE  DataIInv'
<1>1. OnlyLoses
  BY SameSessions
<1>2. /\ requests' \in [Requesters -> RequestRow]
      /\ \A d \in Requesters :
            /\ requests'[d].kind \in {"brief", "erase"} => requests'[d].session \in Sessions
            /\ requests'[d].kind = "reissue" => requests'[d].session \in Sessions \cup Reissues
            /\ At(d, "erase", "tombstone")' /\ requests'[d].session \in Ended
                   => Gone(sessions'[requests'[d].session])
  BY <1>1, OneRequestMoves
<1>3. DataInv'
  BY <1>2 DEF DataIInv, DataInv, DataTypeOK, ErasedIsGone
<1> QED
  BY <1>1, <1>2, <1>3 DEF DataIInv, OnlyLoses

\* A step that changes sessions and invitations only.
LEMMA NoRequestMoves ==
    ASSUME DataIInv, UNCHANGED <<briefs, requests, sweep>>, aged' \in 0 .. LastSession, OnlyLoses,
           invitations' \in [Sessions \cup Reissues -> InvitationRow], ErasedIsGone'
    PROVE  DataIInv'
<1>1. DataInv'
  BY DEF DataIInv, DataInv, DataTypeOK, OnlyLoses
<1>2. \A d \in Requesters :
         /\ requests'[d].kind \in {"brief", "erase"} => requests'[d].session \in Sessions
         /\ requests'[d].kind = "reissue" => requests'[d].session \in Sessions \cup Reissues
         /\ At(d, "erase", "tombstone")' /\ requests'[d].session \in Ended
                => Gone(sessions'[requests'[d].session])
  BY DEF DataIInv, At, OnlyLoses
<1> QED
  BY <1>1, <1>2 DEF DataIInv, OnlyLoses

\* A session that is not of the ended ones may change as it likes.
LEMMA RunningChanges ==
    ASSUME DataIInv, NEW s \in Running, NEW row \in SessionRow,
           sessions' = [sessions EXCEPT ![s] = row]
    PROVE  OnlyLoses /\ \A x \in Ended : sessions'[x] = sessions[x]
<1>1. sessions \in [Sessions -> SessionRow]
  BY DEF DataIInv, DataInv, DataTypeOK
<1> QED
  BY <1>1 DEF OnlyLoses, DataIInv, Ended

\* Events, the end of an interview and the landing of its file are a running session's.
LEMMA RealtimeKeeps ==
    ASSUME DataIInv, NEW s \in Sessions, Speak(s) \/ EndInterview(s) \/ LandAudio(s)
    PROVE  DataIInv'
<1>1. /\ sessions \in [Sessions -> SessionRow] /\ sessions[s] \in SessionRow
      /\ invitations \in [Sessions \cup Reissues -> InvitationRow]
      /\ aged \in 0 .. LastSession /\ ErasedIsGone
  BY DEF DataIInv, DataInv, DataTypeOK
<1>2. s \in Running
  BY DEF DataIInv, Ended, Speak, EndInterview, LandAudio
<1>3. UNCHANGED <<briefs, requests, sweep, aged>>
  BY DEF Speak, EndInterview, LandAudio
<1>4. PICK row \in SessionRow : sessions' = [sessions EXCEPT ![s] = row]
  <2>1. CASE Speak(s)
    <3>1. [sessions[s] EXCEPT !.transcript = TRUE] \in SessionRow
      BY <1>1 DEF SessionRow
    <3> QED
      BY <2>1, <3>1 DEF Speak
  <2>2. CASE EndInterview(s)
    <3>1. PICK outcome \in {"completed", "failed"} :
              sessions' = [sessions EXCEPT ![s].end = outcome]
      BY <2>2 DEF EndInterview
    <3>2. [sessions[s] EXCEPT !.end = outcome] \in SessionRow
      BY <1>1 DEF SessionRow
    <3> QED
      BY <3>1, <3>2
  <2>3. CASE LandAudio(s)
    <3>1. [sessions[s] EXCEPT !.audio = "available"] \in SessionRow
      BY <1>1 DEF SessionRow
    <3> QED
      BY <2>3, <3>1 DEF LandAudio
  <2> QED
    BY <2>1, <2>2, <2>3
<1>5. OnlyLoses /\ \A x \in Ended : sessions'[x] = sessions[x]
  BY <1>2, <1>4, RunningChanges
<1>6. /\ invitations' \in [Sessions \cup Reissues -> InvitationRow]
      /\ \A x \in Ended : invitations'[x] = invitations[x]
  <2>1. CASE UNCHANGED invitations
    BY <1>1, <2>1
  <2>2. CASE EndInterview(s)
    <3>1. PICK outcome \in {"completed", "failed"} :
              invitations' = [invitations EXCEPT ![s].status =
                  IF @ \in {"completed", "expired", "superseded"} THEN @ ELSE outcome]
      BY <2>2 DEF EndInterview
    <3> DEFINE status == IF invitations[s].status \in {"completed", "expired", "superseded"}
                         THEN invitations[s].status ELSE outcome
               closed == [invitations[s] EXCEPT !.status = status]
    <3>2. invitations' = [invitations EXCEPT ![s] = closed]
      BY <1>1, <3>1
    <3>3. closed \in InvitationRow
      BY <1>1 DEF InvitationRow
    <3> HIDE DEF closed
    <3> QED
      BY <1>1, <1>2, <3>2, <3>3 DEF Ended
  <2> QED
    BY <2>1, <2>2 DEF Speak, LandAudio
<1>7. ErasedIsGone'
  BY <1>1, <1>5, <1>6 DEF ErasedIsGone, Ended
<1> QED
  BY <1>1, <1>3, <1>5, <1>6, <1>7, NoRequestMoves

\* A request is begun: a brief, or an erasure.
LEMMA BeginKeeps ==
    ASSUME DataIInv, NEW c \in Requesters, NEW kind \in {"brief", "erase"}, NEW s \in Sessions,
           BeginRequest(c, kind, s, "none"), UNCHANGED <<sessions, invitations, briefs, aged>>,
           sweep' \subseteq Sessions
    PROVE  DataIInv'
<1> DEFINE r == [kind |-> kind, at |-> "read", session |-> s, read |-> "none"]
<1>1. Sound(r)
  BY DEF Sound, RequestRow
<1>2. requests' = [requests EXCEPT ![c] = r]
  BY DEF BeginRequest
<1>3. briefs \in [Sessions -> BriefStatus]
  BY DEF DataIInv, DataInv, DataTypeOK
<1> HIDE DEF r
<1> QED
  BY <1>1, <1>2, <1>3, RequestAlone

\* The steps of a brief.
LEMMA BriefKeeps ==
    ASSUME DataIInv, NEW c \in Requesters, MarkProcessing(c) \/ WriteBrief(c)
    PROVE  DataIInv'
<1>1. /\ requests \in [Requesters -> RequestRow] /\ briefs \in [Sessions -> BriefStatus]
      /\ requests[c].kind = "brief" /\ requests[c].session \in Sessions
      /\ sweep \subseteq Sessions
  BY DEF DataIInv, DataInv, DataTypeOK, MarkProcessing, WriteBrief, At
<1>2. CASE MarkProcessing(c)
  <2> DEFINE r == [requests[c] EXCEPT !.at = "synthesis"]
  <2>1. requests' = [requests EXCEPT ![c] = r]
    BY <1>1, <1>2 DEF MarkProcessing, Move
  <2>2. Sound(r)
    BY <1>1 DEF Sound, RequestRow
  <2>3. briefs' \in [Sessions -> BriefStatus]
    BY <1>1, <1>2 DEF MarkProcessing, BriefStatus
  <2> HIDE DEF r
  <2> QED
    BY <1>1, <1>2, <2>1, <2>2, <2>3, RequestAlone DEF MarkProcessing
<1>3. CASE WriteBrief(c)
  <2>1. briefs' \in [Sessions -> BriefStatus]
    BY <1>1, <1>3 DEF WriteBrief, BriefStatus
  <2> QED
    BY <1>1, <1>3, <2>1, NoRequestIsSound, RequestAlone DEF WriteBrief, Return
<1> QED
  BY <1>2, <1>3

\* The realtime service forgets the session, or fails to.
LEMMA EraseRemotelyKeeps ==
    ASSUME DataIInv, NEW c \in Requesters, EraseRemotely(c)
    PROVE  DataIInv'
<1> DEFINE s == requests[c].session
<1>1. /\ requests \in [Requesters -> RequestRow] /\ sessions \in [Sessions -> SessionRow]
      /\ requests[c].kind = "erase" /\ s \in Sessions
      /\ sessions[s] \in SessionRow /\ ErasedIsGone
      /\ UNCHANGED <<invitations, sweep, briefs, aged>>
  BY DEF DataIInv, DataInv, DataTypeOK, EraseRemotely, At
<1>2. s \in Ended => sessions[s].end # "none" /\ sessions[s].audio # "recording"
  BY DEF DataIInv
<1> HIDE DEF s
<1>3. ASSUME NEW row \in SessionRow, sessions' = [sessions EXCEPT ![s] = row],
             row.end = sessions[s].end, row.erased = sessions[s].erased,
             row.transcript => sessions[s].transcript,
             row.audio \in {sessions[s].audio, "none"},
             NEW r, Sound(r), requests' = [requests EXCEPT ![c] = r]
      PROVE  DataIInv'
  <2>1. sessions'[s] = row /\ \A x \in Sessions : x # s => sessions'[x] = sessions[x]
    BY <1>1, <1>3
  <2>2. OnlyLoses
    <3>1. sessions' \in [Sessions -> SessionRow]
      BY <1>1, <1>3
    <3>2. ASSUME NEW x \in Ended
          PROVE  /\ sessions'[x].end # "none" /\ sessions'[x].audio # "recording"
                 /\ Gone(sessions[x]) => Gone(sessions'[x])
      BY <1>2, <1>3, <2>1 DEF DataIInv, Ended, Gone
    <3> QED
      BY <3>1, <3>2 DEF OnlyLoses
  <2>3. /\ requests' \in [Requesters -> RequestRow]
        /\ \A d \in Requesters :
              /\ requests'[d].kind \in {"brief", "erase"} => requests'[d].session \in Sessions
              /\ requests'[d].kind = "reissue" => requests'[d].session \in Sessions \cup Reissues
              /\ At(d, "erase", "tombstone")' /\ requests'[d].session \in Ended
                     => Gone(sessions'[requests'[d].session])
    BY <1>3, <2>2, OneRequestMoves
  <2>4. ErasedIsGone'
    BY <1>1, <1>3, <2>1 DEF ErasedIsGone
  <2> QED
    BY <1>1, <2>2, <2>3, <2>4 DEF DataIInv, DataInv, DataTypeOK, OnlyLoses
<1>4. CASE sessions' = [sessions EXCEPT ![s] = Forgotten(@)] /\ Move(c, "tombstone")
  <2> DEFINE row == Forgotten(sessions[s])
             r == [requests[c] EXCEPT !.at = "tombstone"]
  <2>1. sessions' = [sessions EXCEPT ![s] = row] /\ requests' = [requests EXCEPT ![c] = r]
    BY <1>1, <1>4 DEF Move
  <2>2. /\ row \in SessionRow
        /\ row.end = sessions[s].end /\ row.erased = sessions[s].erased /\ ~row.transcript
        /\ row.audio \in {sessions[s].audio, "none"}
        /\ sessions[s].audio # "recording" => row.audio = "none"
    BY <1>1 DEF SessionRow, Forgotten
  <2> HIDE DEF row
  <2>3. r \in RequestRow /\ r.kind = "erase" /\ r.session = s
    BY <1>1 DEF RequestRow, s
  <2> HIDE DEF r
  <2>4. Sound(r)
    <3>1. sessions'[s] = row
      BY <1>1, <2>1
    <3> QED
      BY <1>1, <1>2, <2>2, <2>3, <3>1 DEF Sound, Gone
  <2> QED
    BY <1>3, <2>1, <2>2, <2>4
<1>5. CASE sessions' \in {sessions, [sessions EXCEPT ![s].transcript = FALSE]} /\ Return(c)
  <2>1. PICK row \in {sessions[s], [sessions[s] EXCEPT !.transcript = FALSE]} :
            sessions' = [sessions EXCEPT ![s] = row]
    BY <1>1, <1>5
  <2>2. /\ row \in SessionRow
        /\ row.end = sessions[s].end /\ row.erased = sessions[s].erased
        /\ row.transcript => sessions[s].transcript
        /\ row.audio = sessions[s].audio
    BY <1>1, <2>1 DEF SessionRow
  <2> QED
    BY <1>3, <1>5, <2>1, <2>2, NoRequestIsSound DEF Return
<1> QED
  BY <1>4, <1>5 DEF EraseRemotely, s

\* The transaction.
LEMMA TombstoneKeeps ==
    ASSUME DataIInv, NEW c \in Requesters, Tombstone(c)
    PROVE  DataIInv'
<1> DEFINE s == requests[c].session
           row == [sessions[s] EXCEPT !.erased = TRUE]
           closed == [status |-> "expired", named |-> FALSE]
<1>1. /\ sessions \in [Sessions -> SessionRow] /\ briefs \in [Sessions -> BriefStatus]
      /\ invitations \in [Sessions \cup Reissues -> InvitationRow]
      /\ s \in Sessions /\ sessions[s] \in SessionRow /\ ErasedIsGone
      /\ s \in Ended => Gone(sessions[s])
  BY DEF DataIInv, DataInv, DataTypeOK, Tombstone, At
<1>2. /\ sessions' = [sessions EXCEPT ![s] = row]
      /\ invitations' = [invitations EXCEPT ![s] = closed]
      /\ briefs' = [briefs EXCEPT ![s] = NoBrief]
      /\ requests' = [requests EXCEPT ![c] = NoRequest]
      /\ UNCHANGED <<sweep, aged>>
  BY <1>1 DEF Tombstone, Return
<1>3. /\ row \in SessionRow /\ row.end = sessions[s].end /\ row.audio = sessions[s].audio
      /\ row.transcript = sessions[s].transcript
  BY <1>1 DEF SessionRow
<1>4. closed \in InvitationRow /\ ~closed.named /\ closed.status = "expired"
  BY DEF InvitationRow
<1> HIDE DEF s, row, closed
<1>5. /\ sessions'[s] = row /\ \A x \in Sessions : x # s => sessions'[x] = sessions[x]
      /\ invitations'[s] = closed /\ \A x \in Sessions : x # s => invitations'[x] = invitations[x]
  BY <1>1, <1>2
<1>6. OnlyLoses
  <2>1. sessions' \in [Sessions -> SessionRow]
    BY <1>1, <1>2, <1>3
  <2>2. ASSUME NEW x \in Ended
        PROVE  /\ sessions'[x].end # "none" /\ sessions'[x].audio # "recording"
               /\ Gone(sessions[x]) => Gone(sessions'[x])
    BY <1>3, <1>5 DEF DataIInv, Ended, Gone
  <2> QED
    BY <2>1, <2>2 DEF OnlyLoses
<1>7. /\ requests' \in [Requesters -> RequestRow]
      /\ \A d \in Requesters :
            /\ requests'[d].kind \in {"brief", "erase"} => requests'[d].session \in Sessions
            /\ requests'[d].kind = "reissue" => requests'[d].session \in Sessions \cup Reissues
            /\ At(d, "erase", "tombstone")' /\ requests'[d].session \in Ended
                   => Gone(sessions'[requests'[d].session])
  BY <1>2, <1>6, NoRequestIsSound, OneRequestMoves
<1>8. ErasedIsGone'
  BY <1>1, <1>3, <1>4, <1>5 DEF ErasedIsGone, Ended, Gone
<1>9. /\ invitations' \in [Sessions \cup Reissues -> InvitationRow]
      /\ briefs' \in [Sessions -> BriefStatus]
  BY <1>1, <1>2, <1>4 DEF BriefStatus
<1> QED
  BY <1>2, <1>6, <1>7, <1>8, <1>9 DEF DataIInv, DataInv, DataTypeOK, OnlyLoses

\* Of sessions there are there is an oldest one: the sweep's next.
LEMMA HasOldest ==
    ASSUME NEW S \in SUBSET Nat, S # {}
    PROVE  \E x \in S : \A y \in S : x <= y
<1> DEFINE Below == {ss \in Nat \X Nat : ss[1] < ss[2]}
<1>1. IsWellFoundedOn(Below, Nat)
  BY NatLessThanWellFounded DEF OpToRel
<1> HIDE DEF Below
<1>2. PICK x \in S : \A y \in S : ~ (<<y, x>> \in Below)
  BY <1>1, WFMin
<1>3. ASSUME NEW y \in S PROVE x <= y
  <2>1. ~ (y < x)
    BY <1>2 DEF Below
  <2> QED
    BY <2>1
<1> QED
  BY <1>3

\* The retention sweep takes its page, and one session after the other.
LEMMA RetentionKeeps ==
    ASSUME DataIInv, StartSweep \/ EraseNextDue
    PROVE  DataIInv'
<1>1. sweep \subseteq Sessions /\ aged \in 0 .. LastSession /\ Sessions \subseteq Nat
  BY DEF DataIInv, DataInv, DataTypeOK, Sessions
<1>2. CASE StartSweep
  <2>1. sweep' \subseteq Sessions
    BY <1>1, <1>2, DataAssumption DEF StartSweep, Page, Due, Sessions
  <2>2. UNCHANGED <<sessions, invitations, briefs, requests, aged>>
    BY <1>2 DEF StartSweep
  <2> QED
    BY <2>1, <2>2 DEF DataIInv, DataInv, DataTypeOK, ErasedIsGone, At
<1>3. CASE EraseNextDue
  <2> DEFINE s == CHOOSE x \in sweep : \A y \in sweep : x <= y
  <2>1. s \in sweep
    <3>1. \E x \in sweep : \A y \in sweep : x <= y
      BY <1>1, <1>3, HasOldest DEF EraseNextDue
    <3> QED
      BY <3>1
  <2>2. BeginRequest(Sweeper, "erase", s, "none") /\ sweep' = sweep \ {s}
    BY <1>3 DEF EraseNextDue
  <2> HIDE DEF s
  <2> QED
    BY <1>1, <1>3, <2>1, <2>2, BeginKeeps DEF EraseNextDue, Requesters
<1> QED
  BY <1>2, <1>3

\* An invitation's date passes.
LEMMA PassDateKeeps ==
    ASSUME DataIInv, NEW i \in Sessions \cup Reissues, PassDate(i)
    PROVE  DataIInv'
<1>1. /\ invitations \in [Sessions \cup Reissues -> InvitationRow]
      /\ invitations[i] \in InvitationRow
      /\ aged \in 0 .. LastSession /\ ErasedIsGone
  BY DEF DataIInv, DataInv, DataTypeOK
<1> DEFINE closed == [invitations[i] EXCEPT !.status = "expired"]
<1>2. invitations' = [invitations EXCEPT ![i] = closed]
  BY <1>1 DEF PassDate
<1>3. closed \in InvitationRow /\ closed.status = "expired" /\ closed.named = invitations[i].named
  BY <1>1 DEF InvitationRow
<1> HIDE DEF closed
<1>4. invitations' \in [Sessions \cup Reissues -> InvitationRow]
  BY <1>1, <1>2, <1>3
<1>5. ErasedIsGone'
  BY <1>1, <1>2, <1>3 DEF ErasedIsGone, PassDate
<1> QED
  BY <1>1, <1>4, <1>5, SameSessions, NoRequestMoves DEF PassDate

\* An invitation is read to be made again.
LEMMA ReadReissueKeeps ==
    ASSUME DataIInv, NEW c \in Requesters, NEW i \in Sessions \cup Reissues, ReadReissue(c, i)
    PROVE  DataIInv'
<1> DEFINE at == IF invitations[i].status = "failed" THEN "failed" ELSE "read"
           read == IF invitations[i].named THEN "named" ELSE "nameless"
           r == [kind |-> "reissue", at |-> at, session |-> i, read |-> read]
<1>1. requests' = [requests EXCEPT ![c] = r]
  BY DEF ReadReissue
<1>2. at \in {"failed", "read"} /\ read \in {"named", "nameless"}
  OBVIOUS
<1> HIDE DEF at, read
<1>3. Sound(r)
  BY <1>2 DEF Sound, RequestRow
<1>4. briefs \in [Sessions -> BriefStatus] /\ sweep \subseteq Sessions
  BY DEF DataIInv, DataInv, DataTypeOK
<1> HIDE DEF r
<1> QED
  BY <1>1, <1>3, <1>4, RequestAlone DEF ReadReissue

\* It is closed, and copied to a row that was nobody's: an erased session's own stays
\* closed, and nameless.
LEMMA WriteReissueKeeps ==
    ASSUME DataIInv, NEW c \in Requesters, WriteReissue(c)
    PROVE  DataIInv'
<1> DEFINE source == requests[c].session
<1>1. /\ invitations \in [Sessions \cup Reissues -> InvitationRow] /\ ErasedIsGone
      /\ requests \in [Requesters -> RequestRow]
      /\ source \in Sessions \cup Reissues /\ invitations[source] \in InvitationRow
      /\ UNCHANGED <<sessions, briefs, sweep, aged>>
  BY DEF DataIInv, DataInv, DataTypeOK, WriteReissue
<1> HIDE DEF source
<1>2. PICK i \in Reissues, named \in BOOLEAN, status \in {"superseded", "expired"} :
          /\ invitations[i].status = "none"
          /\ invitations' = [invitations EXCEPT ![i] = [status |-> "open", named |-> named],
                                                ![source].status = status]
  <2>1. PICK i \in Reissues :
            /\ invitations[i].status = "none"
            /\ invitations' = [invitations EXCEPT
                  ![i] = [status |-> "open", named |-> requests[c].read = "named"],
                  ![source].status = IF requests[c].at = "failed" THEN "superseded" ELSE "expired"]
    BY DEF WriteReissue, source
  <2>2. (requests[c].read = "named") \in BOOLEAN
    OBVIOUS
  <2> QED
    BY <2>1, <2>2
<1>3. invitations' \in [Sessions \cup Reissues -> InvitationRow]
  BY <1>1, <1>2 DEF InvitationRow
<1>4. \A s \in Sessions :
          /\ invitations'[s].named = invitations[s].named
          /\ invitations'[s].status \in {invitations[s].status, status}
  <2> SUFFICES ASSUME NEW s \in Sessions
               PROVE  /\ invitations'[s].named = invitations[s].named
                      /\ invitations'[s].status \in {invitations[s].status, status}
    OBVIOUS
  <2>1. s # i
    BY DataAssumption DEF Sessions
  <2>2. invitations[s] \in InvitationRow
    BY <1>1
  <2> QED
    BY <1>1, <1>2, <2>1, <2>2 DEF InvitationRow
<1>5. ErasedIsGone'
  BY <1>1, <1>2, <1>4 DEF ErasedIsGone
<1>6. OnlyLoses
  BY <1>1, SameSessions
<1>7. /\ requests' \in [Requesters -> RequestRow]
      /\ \A d \in Requesters :
            /\ requests'[d].kind \in {"brief", "erase"} => requests'[d].session \in Sessions
            /\ requests'[d].kind = "reissue" => requests'[d].session \in Sessions \cup Reissues
            /\ At(d, "erase", "tombstone")' /\ requests'[d].session \in Ended
                   => Gone(sessions'[requests'[d].session])
  BY <1>6, NoRequestIsSound, OneRequestMoves DEF WriteReissue, Return
<1> QED
  BY <1>1, <1>3, <1>5, <1>6, <1>7 DEF DataIInv, DataInv, DataTypeOK, OnlyLoses

\* What any request does.
LEMMA RequestedKeeps ==
    ASSUME DataIInv, NEW c \in Requesters, Requested(c)
    PROVE  DataIInv'
<1>1. sweep \subseteq Sessions /\ DOMAIN invitations = Sessions \cup Reissues
  BY DEF DataIInv, DataInv, DataTypeOK
<1>2. ASSUME NEW s \in Sessions, GenerateBrief(c, s) \/ EraseOnRequest(c, s) PROVE DataIInv'
  BY <1>1, <1>2, BeginKeeps DEF GenerateBrief, EraseOnRequest
<1> QED
  BY <1>1, <1>2, BriefKeeps, ReadReissueKeeps, WriteReissueKeeps DEF Requested

\* Whatever requests are under way beside an erasure and wherever they stand, what was read
\* is not written back over it (eraseCandidateSessionData, reissueCandidateInvitation).
THEOREM DataKeepsInvariant == DataSpec => []DataIInv
<1>1. DataInit => DataIInv
  <2> SUFFICES ASSUME DataInit PROVE DataIInv
    OBVIOUS
  <2>1. /\ sessions \in [Sessions -> SessionRow]
        /\ \A s \in Sessions : ~sessions[s].erased
        /\ \A s \in Ended : sessions[s].end # "none" /\ sessions[s].audio # "recording"
    <3>1. \A s \in Sessions : /\ sessions[s] \in SessionRow /\ ~sessions[s].erased
                              /\ sessions[s].end # "none" => sessions[s].audio # "recording"
      BY DEF DataInit, SessionRow
    <3>2. \A s \in Ended : sessions[s].end # "none"
      BY DEF DataInit, Ended
    <3>3. sessions \in [Sessions -> SessionRow]
      BY <3>1 DEF DataInit
    <3> QED
      BY <3>1, <3>2, <3>3 DEF Ended
  <2>2. invitations \in [Sessions \cup Reissues -> InvitationRow]
    BY DEF DataInit, InvitationRow
  <2>3. NoRequest \in RequestRow /\ NoRequest.kind = "none"
    BY DEF NoRequest, RequestRow
  <2>4. requests \in [Requesters -> RequestRow] /\ \A c \in Requesters : requests[c].kind = "none"
    BY <2>3 DEF DataInit
  <2>5. DataTypeOK
    BY <2>1, <2>2, <2>4, DataAssumption DEF DataInit, DataTypeOK, BriefStatus
  <2> QED
    BY <2>1, <2>4, <2>5 DEF DataIInv, DataInv, ErasedIsGone, At
<1>2. DataIInv /\ [DataNext]_dataVars => DataIInv'
  <2> SUFFICES ASSUME DataIInv, [DataNext]_dataVars PROVE DataIInv'
    OBVIOUS
  <2>1. /\ DOMAIN invitations = Sessions \cup Reissues
        /\ Requests \subseteq Requesters /\ Sweeper \in Requesters
    BY DEF DataIInv, DataInv, DataTypeOK, Requesters
  <2>2. CASE Age
    BY <2>2, DataAssumption DEF Age, DataIInv, DataInv, DataTypeOK, ErasedIsGone, At
  <2>3. CASE UNCHANGED dataVars
    BY <2>3 DEF dataVars, DataIInv, DataInv, DataTypeOK, ErasedIsGone, At
  <2>4. CASE Swept
    BY <2>1, <2>4, RetentionKeeps, EraseRemotelyKeeps, TombstoneKeeps DEF Swept
  <2>5. CASE \E c \in Requests : Requested(c) \/ EraseRemotely(c) \/ Tombstone(c)
    BY <2>1, <2>5, RequestedKeeps, EraseRemotelyKeeps, TombstoneKeeps
  <2> QED
    BY <2>1, <2>2, <2>3, <2>4, <2>5, RealtimeKeeps, PassDateKeeps DEF DataNext
<1> QED
  BY <1>1, <1>2, PTL DEF DataSpec

\* A candidate whose interview had ended and who reads as erased is gone from the realtime
\* service, the session and the invitation.
THEOREM ErasedStaysGone == DataSpec => []DataInv
<1>1. DataIInv => DataInv
  BY DEF DataIInv
<1> QED
  BY <1>1, DataKeepsInvariant, PTL

-----------------------------------------------------------------------------
(* One Job per intake.                                                     *)

\* A file of the bucket.
Files == Intakes \X {"quarantine", "sealed"}

\* What a worker or a finalization may have in hand.
Places == {"copy", "seal", "remove", "queue", "clean", "fail", "read", "delete", "write"}
Found == {"none", "failed", "ready", "retry", "unscanned"}
Hand == [pc : Places, intake : Intakes, files : SUBSET Files, last : BOOLEAN, found : Found]

IntakesIInv ==
    /\ IntakesInv
    /\ intakes \in [Intakes -> Intake]
    /\ \A i \in Intakes : intakes[i].status = "none" => ~intakes[i].job
    /\ jobs \in [Intakes -> Nat]
    /\ readers \in [Workers -> Hand \cup {Resting}]
    /\ uploads \in [Uploads -> Hand \cup {Resting}]
    /\ expiring \subseteq [intake : Intakes, files : SUBSET Files]

\* Who works on an intake is not at rest.
LEMMA AtWork ==
    ASSUME NEW h \in Hand \cup {Resting}, h.pc # "idle"
    PROVE  h \in Hand
BY DEF Resting

\* The files a row names are files.
LEMMA NamedAreFiles == \A i \in Intakes : FilesOf(i) \subseteq Files /\ Sealed(i) \in Files
BY DEF FilesOf, Quarantined, Sealed, Files

\* A statement that writes one row without touching its job makes no second Job, whatever it
\* was read for.
LEMMA RowWrite ==
    ASSUME IntakesIInv, NEW i \in Intakes, NEW row \in Intake, row.job = intakes[i].job,
           row.status = "none" => intakes[i].status = "none",
           SetIntake(i, row), jobs' = jobs,
           bucket' \subseteq Files, mishaps' \in 0 .. IntakeFaults,
           readers' \in [Workers -> Hand \cup {Resting}],
           uploads' \in [Uploads -> Hand \cup {Resting}],
           expiring' \subseteq [intake : Intakes, files : SUBSET Files]
    PROVE  IntakesIInv'
<1>1. /\ intakes' \in [Intakes -> Intake]
      /\ \A x \in Intakes : /\ intakes'[x].job = intakes[x].job
                            /\ intakes'[x].status = "none" => intakes[x].status = "none"
  BY DEF IntakesIInv, SetIntake
<1> QED
  BY <1>1 DEF IntakesIInv, IntakesInv, IntakesTypeOK, OneJobPerIntake, Files

\* A statement that writes no row.
LEMMA NoRowWrite ==
    ASSUME IntakesIInv, UNCHANGED <<intakes, jobs>>,
           bucket' \subseteq Files, mishaps' \in 0 .. IntakeFaults,
           readers' \in [Workers -> Hand \cup {Resting}],
           uploads' \in [Uploads -> Hand \cup {Resting}],
           expiring' \subseteq [intake : Intakes, files : SUBSET Files]
    PROVE  IntakesIInv'
BY DEF IntakesIInv, IntakesInv, IntakesTypeOK, OneJobPerIntake, Files

\* A failed row has the job it had.
LEMMA FailedRow ==
    ASSUME NEW i \in Intakes, intakes[i] \in Intake, NEW kept
    PROVE  /\ Failed(i, kept) \in Intake /\ Failed(i, kept).status = "failed"
           /\ Failed(i, kept).job = intakes[i].job
<1>1. PICK quarantine \in BOOLEAN, sealed \in BOOLEAN :
          Failed(i, kept) = [intakes[i] EXCEPT !.status = "failed", !.lease = "none",
                                               !.quarantine = quarantine, !.sealed = sealed]
  <2>1. (Quarantined(i) \in kept) \in BOOLEAN /\ (Sealed(i) \in kept) \in BOOLEAN
    OBVIOUS
  <2> QED
    BY <2>1 DEF Failed
<1> QED
  BY <1>1 DEF Intake, IntakeStatus

\* The types the steps below use.
LEMMA Types ==
    ASSUME IntakesIInv
    PROVE  /\ intakes \in [Intakes -> Intake] /\ bucket \subseteq Files
           /\ readers \in [Workers -> Hand \cup {Resting}]
           /\ uploads \in [Uploads -> Hand \cup {Resting}]
           /\ expiring \subseteq [intake : Intakes, files : SUBSET Files]
           /\ jobs \in [Intakes -> Nat]
           /\ mishaps \in 0 .. IntakeFaults
           /\ IntakeFaults \in Nat /\ IntakeAttempts \in Nat \ {0}
           /\ Mishap => mishaps' \in 0 .. IntakeFaults
BY IntakeAssumption DEF IntakesIInv, IntakesInv, IntakesTypeOK, Files, Mishap

\* A recruiter's link or file, which has no job yet or keeps the one it has.
LEMMA SubmitKeeps ==
    ASSUME IntakesIInv, NEW i \in Intakes, CreateUpload(i) \/ SubmitUrl(i)
    PROVE  IntakesIInv'
<1>1. intakes[i] \in Intake /\ UNCHANGED <<jobs, readers, uploads, expiring, mishaps>>
  BY Types DEF CreateUpload, SubmitUrl
<1>2. bucket' \subseteq Files
  BY Types DEF CreateUpload, SubmitUrl, Quarantined, Files
<1>3. CASE SubmitUrl(i)
  <2> DEFINE row == [intakes[i] EXCEPT !.kind = "url", !.status = "queued", !.lease = "none",
                                       !.tries = 0, !.expired = FALSE]
  <2>1. SetIntake(i, row)
    BY <1>3 DEF SubmitUrl
  <2>2. 0 \in 0 .. IntakeAttempts
    BY IntakeAssumption
  <2>3. row \in Intake /\ row.job = intakes[i].job /\ row.status # "none"
    BY <1>1, <2>2 DEF Intake, IntakeStatus
  <2> HIDE DEF row
  <2> QED
    BY <1>1, <1>2, <2>1, <2>3, Types, RowWrite
<1>4. CASE CreateUpload(i)
  <2>1. PICK status \in {"uploading", "failed"} :
            SetIntake(i, [NoIntake EXCEPT !.kind = "file", !.status = status, !.quarantine = TRUE])
    BY <1>4 DEF CreateUpload
  <2> DEFINE row == [NoIntake EXCEPT !.kind = "file", !.status = status, !.quarantine = TRUE]
  <2>2. 0 \in 0 .. IntakeAttempts
    BY IntakeAssumption
  <2>3. row \in Intake /\ row.job = FALSE /\ row.status # "none"
    BY <2>2 DEF Intake, IntakeStatus, NoIntake
  <2>4. SetIntake(i, row)
    BY <2>1
  <2>5. intakes[i].job = FALSE
    BY <1>4 DEF CreateUpload, IntakesIInv
  <2> HIDE DEF row
  <2> QED
    BY <1>1, <1>2, <2>3, <2>4, <2>5, Types, RowWrite
<1> QED
  BY <1>3, <1>4

\* The steps of a finalization, each on the row that was read, whatever became of it.
LEMMA UploadKeeps ==
    ASSUME IntakesIInv, NEW u \in Uploads,
           \/ BeginFinalize(u) \/ CopyUpload(u) \/ SealUpload(u)
           \/ RemoveUpload(u) \/ QueueUpload(u) \/ FailUpload(u)
    PROVE  IntakesIInv'
<1> DEFINE i == uploads[u].intake
<1>1. /\ UNCHANGED <<jobs, readers, expiring>>
      /\ readers' \in [Workers -> Hand \cup {Resting}]
      /\ expiring' \subseteq [intake : Intakes, files : SUBSET Files]
  BY Types
     DEF BeginFinalize, CopyUpload, SealUpload, RemoveUpload, QueueUpload, FailUpload, Finalize
<1>2. CASE BeginFinalize(u)
  <2>1. PICK x \in Intakes, pc \in {"copy", "clean"} :
            /\ uploads' = [uploads EXCEPT ![u] = [Resting EXCEPT !.pc = pc, !.intake = x,
                                                                 !.files = FilesOf(x)]]
            /\ mishaps' \in 0 .. IntakeFaults
    <3>1. PICK x \in Intakes, pc \in {"copy", "clean"} :
              /\ uploads' = [uploads EXCEPT ![u] = [Resting EXCEPT !.pc = pc, !.intake = x,
                                                                   !.files = FilesOf(x)]]
              /\ Mishap \/ UNCHANGED mishaps
      BY <1>2 DEF BeginFinalize
    <3> QED
      BY <3>1, Types
  <2>2. [Resting EXCEPT !.pc = pc, !.intake = x, !.files = FilesOf(x)] \in Hand
    <3>1. pc \in Places /\ "none" \in Found /\ FilesOf(x) \in SUBSET Files
      BY NamedAreFiles DEF Places, Found
    <3> QED
      BY <3>1 DEF Resting, Hand
  <2>3. uploads' \in [Uploads -> Hand \cup {Resting}]
    BY <2>1, <2>2, Types
  <2> QED
    BY <1>1, <1>2, <2>1, <2>3, Types, NoRowWrite DEF BeginFinalize
<1>3. ASSUME uploads[u].pc # "idle"
      PROVE  uploads[u] \in Hand /\ i \in Intakes /\ uploads[u].files \in SUBSET Files
  <2>1. uploads[u] \in Hand
    BY <1>3, Types, AtWork
  <2> QED
    BY <2>1 DEF Hand
<1>4. ASSUME uploads[u].pc # "idle", NEW files \in SUBSET Files, NEW pc \in Places
      PROVE  [uploads[u] EXCEPT !.pc = pc, !.files = files] \in Hand
  BY <1>3, <1>4 DEF Hand
<1>5. ASSUME uploads[u].pc # "idle", NEW pc \in Places
      PROVE  [uploads[u] EXCEPT !.pc = pc] \in Hand
  BY <1>3, <1>5 DEF Hand
<1>6. ASSUME NEW pc, NEW h \in Hand \cup {Resting}, Finalize(u, pc, h)
      PROVE  uploads' \in [Uploads -> Hand \cup {Resting}]
  BY <1>6, Types DEF Finalize
<1>7. uploads[u].pc # "idle" => intakes[i] \in Intake
  BY <1>3, Types
<1> HIDE DEF i
<1>8. CASE CopyUpload(u)
  <2>1. uploads[u].pc = "copy" /\ UNCHANGED <<intakes, mishaps>>
    BY <1>8 DEF CopyUpload, Finalize
  <2>2. InHand(u) \in SUBSET Files /\ Sealed(i) \in Files
    BY <1>3, <2>1, NamedAreFiles DEF InHand, i
  <2>3. bucket' \subseteq Files
    BY <1>8, <2>2, Types DEF CopyUpload, i
  <2>4. PICK pc \in {"seal", "clean"} :
            Finalize(u, "copy", [uploads[u] EXCEPT !.pc = pc, !.files = InHand(u)])
    BY <1>8 DEF CopyUpload
  <2>5. [uploads[u] EXCEPT !.pc = pc, !.files = InHand(u)] \in Hand
    <3>1. pc \in Places
      BY <2>4 DEF Places
    <3> QED
      BY <1>4, <2>1, <2>2, <3>1
  <2>6. uploads' \in [Uploads -> Hand \cup {Resting}]
    BY <1>6, <2>4, <2>5
  <2> QED
    BY <1>1, <2>1, <2>3, <2>6, Types, NoRowWrite
<1>9. CASE SealUpload(u)
  <2> DEFINE row == [intakes[i] EXCEPT !.sealed = TRUE, !.status = "quarantined"]
  <2>1. uploads[u].pc = "seal" /\ UNCHANGED <<bucket, mishaps>> /\ SetIntake(i, row)
    BY <1>9 DEF SealUpload, Finalize, i
  <2>2. row \in Intake /\ row.job = intakes[i].job /\ row.status # "none"
    BY <1>7, <2>1 DEF Intake, IntakeStatus
  <2> HIDE DEF row
  <2>3. uploads' \in [Uploads -> Hand \cup {Resting}]
    <3>1. [uploads[u] EXCEPT !.pc = "remove"] \in Hand
      BY <1>5, <2>1 DEF Places
    <3>2. Finalize(u, "seal", [uploads[u] EXCEPT !.pc = "remove"])
      BY <1>9 DEF SealUpload
    <3> QED
      BY <1>6, <3>1, <3>2
  <2> QED
    BY <1>1, <1>3, <2>1, <2>2, <2>3, Types, RowWrite
<1>10. CASE RemoveUpload(u)
  <2>1. uploads[u].pc = "remove" /\ UNCHANGED intakes /\ bucket' \subseteq Files
    BY <1>10, Types DEF RemoveUpload, Finalize
  <2>2. mishaps' \in 0 .. IntakeFaults
    BY <1>10, Types DEF RemoveUpload
  <2>3. uploads' \in [Uploads -> Hand \cup {Resting}]
    <3>1. \A pc \in {"queue", "clean"} : [uploads[u] EXCEPT !.pc = pc] \in Hand
      BY <1>5, <2>1 DEF Places
    <3>2. \E pc \in {"queue", "clean"} : Finalize(u, "remove", [uploads[u] EXCEPT !.pc = pc])
      BY <1>10 DEF RemoveUpload
    <3> QED
      BY <1>6, <3>1, <3>2
  <2> QED
    BY <1>1, <2>1, <2>2, <2>3, Types, NoRowWrite
<1>11. CASE QueueUpload(u)
  <2> DEFINE row == [intakes[i] EXCEPT !.quarantine = FALSE, !.status = "queued"]
  <2>1. uploads[u].pc = "queue" /\ UNCHANGED <<bucket, mishaps>> /\ SetIntake(i, row)
    BY <1>11 DEF QueueUpload, Finalize, i
  <2>2. row \in Intake /\ row.job = intakes[i].job /\ row.status # "none"
    BY <1>7, <2>1 DEF Intake, IntakeStatus
  <2> HIDE DEF row
  <2>3. uploads' \in [Uploads -> Hand \cup {Resting}]
    BY <1>6, <1>11 DEF QueueUpload
  <2> QED
    BY <1>1, <1>3, <2>1, <2>2, <2>3, Types, RowWrite
<1>12. CASE FailUpload(u)
  <2>1. CASE uploads[u].pc = "clean"
    <3>1. PICK deleted \in BOOLEAN :
              /\ Cleaned(uploads[u].files, deleted)
              /\ Finalize(u, "clean", [uploads[u] EXCEPT !.pc = "fail",
                                                 !.files = IF deleted THEN {} ELSE @])
              /\ UNCHANGED intakes
      BY <1>12, <2>1 DEF FailUpload, Finalize
    <3> DEFINE files == IF deleted THEN {} ELSE uploads[u].files
    <3>2. files \in SUBSET Files
      BY <1>3, <2>1
    <3>3. [uploads[u] EXCEPT !.pc = "fail", !.files = IF deleted THEN {} ELSE @]
              = [uploads[u] EXCEPT !.pc = "fail", !.files = files]
      BY <1>3, <2>1 DEF Hand
    <3> HIDE DEF files
    <3>4. uploads' \in [Uploads -> Hand \cup {Resting}]
      <4>1. [uploads[u] EXCEPT !.pc = "fail", !.files = files] \in Hand
        BY <1>4, <2>1, <3>2 DEF Places
      <4> QED
        BY <1>6, <3>1, <3>3, <4>1
    <3>5. bucket' \subseteq Files /\ mishaps' \in 0 .. IntakeFaults
      BY <3>1, Types DEF Cleaned
    <3> QED
      BY <1>1, <3>1, <3>4, <3>5, Types, NoRowWrite
  <2>2. CASE uploads[u].pc = "fail"
    <3> DEFINE row == Failed(i, uploads[u].files)
    <3>1. UNCHANGED <<bucket, mishaps>> /\ SetIntake(i, row) /\ Finalize(u, "fail", Resting)
      BY <1>12, <2>2 DEF FailUpload, Finalize, i
    <3>2. row \in Intake /\ row.job = intakes[i].job /\ row.status # "none"
      BY <1>3, <1>7, <2>2, FailedRow
    <3> HIDE DEF row
    <3>3. uploads' \in [Uploads -> Hand \cup {Resting}]
      BY <1>6, <3>1
    <3> QED
      BY <1>1, <1>3, <2>2, <3>1, <3>2, <3>3, Types, RowWrite
  <2> QED
    BY <1>12, <2>1, <2>2 DEF FailUpload, Finalize
<1> QED
  BY <1>2, <1>8, <1>9, <1>10, <1>11, <1>12

\* The one statement that makes a Job looks at the row with the row locked: no Job was made.
LEMMA ConsumeKeeps ==
    ASSUME IntakesIInv, NEW i \in Intakes, Consume(i)
    PROVE  IntakesIInv'
<1>1. /\ intakes \in [Intakes -> Intake] /\ jobs \in [Intakes -> Nat] /\ ~intakes[i].job
      /\ jobs' = [jobs EXCEPT ![i] = jobs[i] + 1]
      /\ intakes' = [intakes EXCEPT ![i] = [intakes[i] EXCEPT !.job = TRUE, !.status = "consumed"]]
      /\ UNCHANGED <<bucket, readers, uploads, expiring, mishaps>>
  BY Types DEF Consume, Consumable, SetIntake
<1>2. jobs[i] = 0
  BY <1>1 DEF IntakesIInv, IntakesInv, IntakesTypeOK
<1> DEFINE row == [intakes[i] EXCEPT !.job = TRUE, !.status = "consumed"]
<1>3. row \in Intake /\ row.job /\ row.status = "consumed"
  BY <1>1 DEF Intake, IntakeStatus
<1> HIDE DEF row
<1>4. /\ intakes' \in [Intakes -> Intake] /\ jobs' \in [Intakes -> Nat]
      /\ intakes'[i] = row /\ jobs'[i] = 1
      /\ \A x \in Intakes : x # i => intakes'[x] = intakes[x] /\ jobs'[x] = jobs[x]
  BY <1>1, <1>2, <1>3 DEF row
<1>5. \A x \in Intakes : /\ intakes'[x].job <=> jobs'[x] > 0
                         /\ jobs'[x] <= 1
                         /\ intakes'[x].status = "none" => ~intakes'[x].job
  BY <1>3, <1>4 DEF IntakesIInv, IntakesInv, IntakesTypeOK, OneJobPerIntake
<1> QED
  BY <1>1, <1>4, <1>5 DEF IntakesIInv, IntakesInv, IntakesTypeOK, OneJobPerIntake

\* The steps of a worker, whose lease may be long over.
LEMMA WorkerKeeps ==
    ASSUME IntakesIInv, NEW w \in Workers,
           ClaimIntake(w) \/ Read(w) \/ DeleteSealed(w) \/ WriteFound(w)
    PROVE  IntakesIInv'
<1> DEFINE i == readers[w].intake
<1>1. /\ UNCHANGED <<jobs, uploads, expiring>>
      /\ uploads' \in [Uploads -> Hand \cup {Resting}]
      /\ expiring' \subseteq [intake : Intakes, files : SUBSET Files]
  BY Types DEF ClaimIntake, Read, DeleteSealed, WriteFound
<1>2. ASSUME readers[w].pc # "idle"
      PROVE  readers[w] \in Hand /\ i \in Intakes /\ intakes[i] \in Intake
  <2>1. readers[w] \in Hand
    BY <1>2, Types, AtWork
  <2> QED
    BY <2>1, Types DEF Hand
<1>3. ASSUME NEW h \in Hand \cup {Resting}, readers' = [readers EXCEPT ![w] = h]
      PROVE  readers' \in [Workers -> Hand \cup {Resting}]
  BY <1>3, Types
<1> HIDE DEF i
<1>4. CASE ClaimIntake(w)
  <2> DEFINE Row(x) == [intakes[x] EXCEPT !.status = "processing", !.lease = "held",
                                          !.tries = IF @ < IntakeAttempts THEN @ + 1 ELSE @]
             Held(x) == [pc |-> "read", intake |-> x, files |-> FilesOf(x),
                         last |-> Row(x).tries = IntakeAttempts, found |-> "none"]
  <2>1. PICK x \in Intakes : SetIntake(x, Row(x)) /\ readers' = [readers EXCEPT ![w] = Held(x)]
    BY <1>4 DEF ClaimIntake
  <2> DEFINE tries == IF intakes[x].tries < IntakeAttempts THEN intakes[x].tries + 1
                      ELSE intakes[x].tries
  <2>2. intakes[x] \in Intake /\ intakes[x].tries \in 0 .. IntakeAttempts
    BY Types DEF Intake
  <2>3. tries \in 0 .. IntakeAttempts
    BY <2>2, IntakeAssumption
  <2>4. Row(x) = [intakes[x] EXCEPT !.status = "processing", !.lease = "held", !.tries = tries]
    BY <2>2 DEF Intake
  <2> HIDE DEF tries
  <2>5. Row(x) \in Intake /\ Row(x).job = intakes[x].job /\ Row(x).status # "none"
    BY <2>2, <2>3, <2>4 DEF Intake, IntakeStatus
  <2>6. Held(x) \in Hand
    <3>1. PICK last \in BOOLEAN : last = (Row(x).tries = IntakeAttempts)
      <4>1. (Row(x).tries = IntakeAttempts) \in BOOLEAN
        OBVIOUS
      <4> QED
        BY <4>1
    <3>2. [pc |-> "read", intake |-> x, files |-> FilesOf(x), last |-> last, found |-> "none"]
              \in Hand
      BY NamedAreFiles DEF Hand, Places, Found
    <3> QED
      BY <3>1, <3>2
  <2> HIDE DEF Row, Held
  <2>7. readers' \in [Workers -> Hand \cup {Resting}]
    BY <1>3, <2>1, <2>6
  <2> QED
    BY <1>1, <1>4, <2>1, <2>5, <2>7, Types, RowWrite DEF ClaimIntake
<1>5. CASE Read(w)
  <2>1. readers[w].pc = "read"
    BY <1>5 DEF Read
  <2>2. PICK found \in Findings(w), pc \in {"write", "delete"} :
            readers' = [readers EXCEPT ![w].found = found, ![w].pc = pc]
    BY <1>5 DEF Read
  <2> DEFINE h == [readers[w] EXCEPT !.found = found, !.pc = pc]
  <2>3. found \in Found
    BY <2>2 DEF Findings, FileFindings, PageFindings, Found
  <2>4. h \in Hand
    BY <1>2, <2>1, <2>3 DEF Hand, Places
  <2>5. readers' = [readers EXCEPT ![w] = h]
    BY <2>2, Types
  <2> HIDE DEF h
  <2> QED
    BY <1>1, <1>3, <1>5, <2>4, <2>5, Types, NoRowWrite DEF Read
<1>6. CASE DeleteSealed(w)
  <2>1. readers[w].pc = "delete"
    BY <1>6 DEF DeleteSealed
  <2>2. PICK deleted \in BOOLEAN :
            /\ Cleaned(readers[w].files, deleted)
            /\ readers' = [readers EXCEPT ![w].pc = "write",
                                          ![w].files = IF deleted THEN {} ELSE @,
                                          ![w].found = IF deleted THEN @ ELSE "failed"]
    BY <1>6 DEF DeleteSealed
  <2> DEFINE files == IF deleted THEN {} ELSE readers[w].files
             found == IF deleted THEN readers[w].found ELSE "failed"
             h == [readers[w] EXCEPT !.pc = "write", !.files = files, !.found = found]
  <2>3. files \in SUBSET Files /\ found \in Found
    BY <1>2, <2>1 DEF Hand, Found
  <2>4. readers' = [readers EXCEPT ![w] = h]
    BY <2>2, Types
  <2> HIDE DEF files, found
  <2>5. h \in Hand
    BY <1>2, <2>1, <2>3 DEF Hand, Places
  <2> HIDE DEF h
  <2>6. bucket' \subseteq Files /\ mishaps' \in 0 .. IntakeFaults
    BY <2>2, Types DEF Cleaned
  <2> QED
    BY <1>1, <1>3, <1>6, <2>4, <2>5, <2>6, Types, NoRowWrite DEF DeleteSealed
<1>7. CASE WriteFound(w)
  <2>1. readers[w].pc = "write"
    BY <1>7 DEF WriteFound
  <2>2. PICK row \in Intake : /\ SetIntake(i, row) /\ row.job = intakes[i].job
                              /\ row.status # "none"
    <3> DEFINE queued == [intakes[i] EXCEPT !.status = "queued", !.lease = "none"]
               ready == [intakes[i] EXCEPT !.status = "ready_for_review", !.lease = "none",
                                           !.sealed = FALSE]
               over == [intakes[i] EXCEPT !.status = "failed", !.lease = "none"]
               failed == Failed(i, readers[w].files)
    <3>1. ASSUME NEW row \in {queued, ready, over, failed}
          PROVE  row \in Intake /\ row.job = intakes[i].job /\ row.status # "none"
      <4>1. row \in {queued, ready, over}
                => row \in Intake /\ row.job = intakes[i].job /\ row.status # "none"
        BY <1>2, <2>1 DEF Intake, IntakeStatus
      <4>2. failed \in Intake /\ failed.job = intakes[i].job /\ failed.status # "none"
        BY <1>2, <2>1, FailedRow
      <4> HIDE DEF queued, ready, over, failed
      <4> QED
        BY <3>1, <4>1, <4>2
    <3>2. \E row \in {queued, ready, over, failed} : SetIntake(i, row)
      <4>1. \/ SetIntake(i, queued) \/ SetIntake(i, ready) \/ SetIntake(i, over)
            \/ SetIntake(i, failed)
        BY <1>7 DEF WriteFound, i
      <4> HIDE DEF queued, ready, over, failed
      <4> QED
        BY <4>1
    <3> QED
      BY <3>1, <3>2
  <2>3. readers' \in [Workers -> Hand \cup {Resting}]
    BY <1>3, <1>7 DEF WriteFound
  <2> QED
    BY <1>1, <1>2, <1>7, <2>1, <2>2, <2>3, Types, RowWrite DEF WriteFound
<1> QED
  BY <1>4, <1>5, <1>6, <1>7

\* A worker or a request dies.
LEMMA DiesKeeps ==
    ASSUME IntakesIInv, Dies
    PROVE  IntakesIInv'
<1>1. /\ readers' \in [Workers -> Hand \cup {Resting}]
      /\ uploads' \in [Uploads -> Hand \cup {Resting}]
  BY Types DEF Dies
<1> QED
  BY <1>1, Types, NoRowWrite DEF Dies

\* Time, the reconciliation and the expiry.
LEMMA TimeKeeps ==
    ASSUME IntakesIInv, (\E i \in Intakes : Passes(i)) \/ BeginExpiry
    PROVE  IntakesIInv'
<1>1. CASE \E i \in Intakes : Passes(i)
  <2>1. PICK i \in Intakes : Passes(i)
    BY <1>1
  <2>2. PICK row \in Intake : /\ SetIntake(i, row) /\ row.job = intakes[i].job
                              /\ row.status = intakes[i].status
    <3>1. intakes[i] \in Intake
      BY Types
    <3>2. CASE SetIntake(i, [intakes[i] EXCEPT !.lease = "over"])
      <4>1. [intakes[i] EXCEPT !.lease = "over"] \in Intake
        BY <3>1 DEF Intake
      <4> QED
        BY <3>1, <3>2, <4>1 DEF Intake
    <3>3. CASE SetIntake(i, [intakes[i] EXCEPT !.expired = TRUE])
      <4>1. [intakes[i] EXCEPT !.expired = TRUE] \in Intake
        BY <3>1 DEF Intake
      <4> QED
        BY <3>1, <3>3, <4>1 DEF Intake
    <3> QED
      BY <2>1, <3>2, <3>3 DEF Passes
  <2> QED
    BY <2>1, <2>2, Types, RowWrite DEF Passes
<1>2. CASE BeginExpiry
  <2>1. expiring' \subseteq [intake : Intakes, files : SUBSET Files]
    <3>1. PICK list \in SUBSET Expirable :
              expiring' = {[intake |-> i, files |-> FilesOf(i)] : i \in list}
      BY <1>2 DEF BeginExpiry
    <3>2. list \subseteq Intakes
      BY <3>1 DEF Expirable
    <3>3. \A i \in list : [intake |-> i, files |-> FilesOf(i)]
                             \in [intake : Intakes, files : SUBSET Files]
      BY <3>2, NamedAreFiles
    <3> QED
      BY <3>1, <3>3
  <2> QED
    BY <1>2, <2>1, Types, NoRowWrite DEF BeginExpiry
<1> QED
  BY <1>1, <1>2

\* Work that was abandoned is queued again.
LEMMA ReclaimKeeps ==
    ASSUME IntakesIInv, Reclaim
    PROVE  IntakesIInv'
<1>1. PICK back : /\ back \subseteq Intakes
                  /\ intakes' = [i \in Intakes |-> IF i \in back
                         THEN [intakes[i] EXCEPT !.status = "queued", !.lease = "none"]
                         ELSE intakes[i]]
  <2>1. {i \in Intakes : \/ Reclaimed(intakes[i])
                         \/ intakes[i].status = "quarantined" /\ intakes[i].sealed}
            \subseteq Intakes
    OBVIOUS
  <2> QED
    BY <2>1 DEF Reclaim
<1>2. \A i \in Intakes : /\ intakes'[i] \in Intake /\ intakes'[i].job = intakes[i].job
                         /\ intakes'[i].status = "none" => intakes[i].status = "none"
  <2> SUFFICES ASSUME NEW i \in Intakes
               PROVE  /\ intakes'[i] \in Intake /\ intakes'[i].job = intakes[i].job
                      /\ intakes'[i].status = "none" => intakes[i].status = "none"
    OBVIOUS
  <2>1. intakes[i] \in Intake
    BY Types
  <2> DEFINE row == [intakes[i] EXCEPT !.status = "queued", !.lease = "none"]
  <2>2. row \in Intake /\ row.job = intakes[i].job /\ row.status = "queued"
    BY <2>1 DEF Intake, IntakeStatus
  <2>3. intakes'[i] = row \/ intakes'[i] = intakes[i]
    BY <1>1
  <2> HIDE DEF row
  <2> QED
    BY <2>1, <2>2, <2>3
<1>3. intakes' \in [Intakes -> Intake]
  BY <1>1, <1>2
<1> QED
  BY <1>2, <1>3 DEF Reclaim, IntakesIInv, IntakesInv, IntakesTypeOK, OneJobPerIntake, Files

\* An expired intake is written over with what the list said of it.
LEMMA ExpireKeeps ==
    ASSUME IntakesIInv, NEW e \in expiring, Expire(e)
    PROVE  IntakesIInv'
<1> DEFINE i == e.intake
<1>1. /\ e \in [intake : Intakes, files : SUBSET Files] /\ i \in Intakes
      /\ intakes[i] \in Intake
      /\ UNCHANGED <<jobs, readers, uploads>> /\ expiring' \subseteq expiring
  BY Types DEF Expire
<1>2. PICK deleted \in BOOLEAN :
          /\ Cleaned(e.files, deleted)
          /\ SetIntake(i, [Failed(i, IF deleted THEN {} ELSE e.files)
                               EXCEPT !.status = "expired", !.lease = intakes[i].lease])
  BY DEF Expire
<1> DEFINE kept == IF deleted THEN {} ELSE e.files
           row == [Failed(i, kept) EXCEPT !.status = "expired", !.lease = intakes[i].lease]
<1>3. SetIntake(i, row)
  BY <1>2
<1> HIDE DEF i, kept
<1>4. row \in Intake /\ row.job = intakes[i].job /\ row.status # "none"
  <2>1. Failed(i, kept) \in Intake /\ Failed(i, kept).job = intakes[i].job
    BY <1>1, FailedRow
  <2> DEFINE failed == Failed(i, kept)
  <2> HIDE DEF failed
  <2> QED
    BY <1>1, <2>1 DEF Intake, IntakeStatus, failed
<1> HIDE DEF row
<1>5. bucket' \subseteq Files /\ mishaps' \in 0 .. IntakeFaults
  BY <1>2, Types DEF Cleaned
<1> QED
  BY <1>1, <1>3, <1>4, <1>5, Types, RowWrite

\* Whatever a late worker, a late finalization or an expiry writes over a row, it still tells
\* whether its Job was made (role-intake-service.ts).
THEOREM IntakesKeepInvariant == IntakesSpec => []IntakesIInv
<1>1. IntakesInit => IntakesIInv
  <2> SUFFICES ASSUME IntakesInit PROVE IntakesIInv
    OBVIOUS
  <2>1. NoIntake \in Intake /\ ~NoIntake.job
    BY IntakeAssumption DEF NoIntake, Intake, IntakeStatus
  <2>2. /\ intakes = [i \in Intakes |-> NoIntake] /\ jobs = [i \in Intakes |-> 0]
        /\ bucket = {} /\ expiring = {} /\ mishaps = 0
        /\ readers = [w \in Workers |-> Resting] /\ uploads = [u \in Uploads |-> Resting]
    BY DEF IntakesInit
  <2> QED
    BY <2>1, <2>2, IntakeAssumption DEF IntakesIInv, IntakesInv, IntakesTypeOK, OneJobPerIntake
<1>2. IntakesIInv /\ [IntakesNext]_intakeVars => IntakesIInv'
  <2> SUFFICES ASSUME IntakesIInv, [IntakesNext]_intakeVars PROVE IntakesIInv'
    OBVIOUS
  <2>1. CASE UNCHANGED intakeVars
    BY <2>1 DEF intakeVars, IntakesIInv, IntakesInv, IntakesTypeOK, OneJobPerIntake
  <2> QED
    BY <2>1, SubmitKeeps, UploadKeeps, ConsumeKeeps, WorkerKeeps, DiesKeeps, TimeKeeps,
       ReclaimKeeps, ExpireKeeps DEF IntakesNext
<1> QED
  BY <1>1, <1>2, PTL DEF IntakesSpec

\* An approved intake becomes one Job at most, whoever writes over its row.
THEOREM OneJobOfAnIntake == IntakesSpec => []IntakesInv
<1>1. IntakesIInv => IntakesInv
  BY DEF IntakesIInv
<1> QED
  BY <1>1, IntakesKeepInvariant, PTL
=============================================================================
