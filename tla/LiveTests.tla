------------------------------- MODULE LiveTests -------------------------------
(***************************************************************************)
(* A recruiter's preview of a draft, and the live tests made of it: the    *)
(* console makes the snapshot, the candidate app reserves each test in its *)
(* row and asks the realtime service for a room, the realtime service      *)
(* reads its plan from the row and purges what is over                     *)
(* (candidate-experience-previews.ts of both apps, postgres.go).           *)
(*                                                                         *)
(* A test is read, reserved by a conditional update, provisioned and, if   *)
(* no answer came, released; other tabs do the same in between.            *)
(***************************************************************************)
EXTENDS Naturals, Sequences, FiniteSets

CONSTANTS
    Tabs,               \* tabs the preview is open in
    LiveTestLimit,      \* liveTestLimit
    TestAccessTtl,      \* accessTtlMs
    TestRuntimeTtl,     \* runtimeTtlMs
    CleanupGrace,       \* cleanupGraceMs
    MaxRooms,           \* bound on the rooms asked for
    TestHorizon         \* bound on the clock

ASSUME LiveTestsAssumption ==
    /\ LiveTestLimit \in Nat /\ MaxRooms \in Nat
    /\ TestHorizon \in Nat /\ CleanupGrace \in Nat
    /\ TestAccessTtl \in Nat \ {0} /\ TestRuntimeTtl \in Nat \ {0}

VARIABLES
    preview,            \* the CandidateExperiencePreview row
    tests,              \* each tab's request
    testRooms,          \* live interview sessions of the preview
    roomsAsked,              \* rooms asked for so far
    testClock

liveTestVars == <<preview, tests, testRooms, roomsAsked, testClock>>

NoPreview == [exists |-> FALSE, expires |-> 0, runtime |-> 0, count |-> 0]

NoTest == [at |-> "none", now |-> 0, count |-> 0, runtime |-> 0, until |-> 0]

LiveTestsInit ==
    /\ preview = NoPreview
    /\ tests = [t \in Tabs |-> NoTest]
    /\ testRooms = <<>>
    /\ roomsAsked = 0
    /\ testClock = 0

\* coalesce("runtimeExpiresAt", "expiresAt"), null being 0
OverAt == IF preview.runtime # 0 THEN preview.runtime ELSE preview.expires

TestTick ==
    /\ testClock < TestHorizon
    /\ testClock' = testClock + 1
    /\ UNCHANGED <<preview, tests, testRooms, roomsAsked>>

-----------------------------------------------------------------------------
(* The console                                                             *)

\* createCandidateExperiencePreview
CreateSnapshot ==
    /\ ~preview.exists /\ testClock = 0
    /\ preview' = [NoPreview EXCEPT !.exists = TRUE, !.expires = testClock + TestAccessTtl]
    /\ UNCHANGED <<tests, testRooms, roomsAsked, testClock>>

\* cleanupExpiredPreviews, before another snapshot is made: a day after, the
\* sessions with the snapshot.
CleanUp ==
    /\ preview.exists /\ OverAt + CleanupGrace < testClock
    /\ preview' = NoPreview
    /\ testRooms' = [r \in DOMAIN testRooms |-> [testRooms[r] EXCEPT !.purged = TRUE]]
    /\ UNCHANGED <<tests, roomsAsked, testClock>>

-----------------------------------------------------------------------------
(* A test                                                                  *)

\* prepareCandidateExperiencePreviewSession: an open preview with tests left.
ReadPreview(t) ==
    /\ tests[t] = NoTest
    /\ roomsAsked < MaxRooms
    /\ roomsAsked' = roomsAsked + 1
    /\ preview.exists /\ preview.expires > testClock
    /\ preview.count < LiveTestLimit
    /\ tests' = [tests EXCEPT ![t] = [at |-> "reserve", now |-> testClock, count |-> preview.count,
                                      runtime |-> preview.runtime,
                                      until |-> testClock + TestRuntimeTtl]]
    /\ UNCHANGED <<preview, testRooms, testClock>>

\* The row must be as it was read.
Reserve(t) ==
    LET test == tests[t]
        unchanged == /\ preview.exists /\ preview.expires > test.now
                     /\ preview.count = test.count /\ preview.runtime = test.runtime
    IN  /\ test.at = "reserve"
        /\ IF unchanged
           THEN /\ preview' = [preview EXCEPT !.count = @ + 1, !.runtime = test.until]
                /\ tests' = [tests EXCEPT ![t].at = "provision"]
           ELSE tests' = [tests EXCEPT ![t] = NoTest] /\ UNCHANGED preview
        /\ UNCHANGED <<testRooms, roomsAsked, testClock>>

\* CreateSession: a room until the end of the reservation, unless that has
\* passed. The answer may be lost, or the request not have arrived.
ProvisionTest(t) ==
    LET opens(heard) ==
            /\ tests[t].until > testClock
            /\ testRooms' = Append(testRooms, [until |-> tests[t].until, heard |-> heard,
                                               said |-> FALSE, purged |-> FALSE])
    IN  /\ tests[t].at = "provision"
        /\ \/ opens(TRUE) /\ tests' = [tests EXCEPT ![t] = NoTest]
           \/ /\ opens(FALSE) \/ UNCHANGED testRooms
              /\ tests' = [tests EXCEPT ![t].at = "release"]
        /\ UNCHANGED <<preview, roomsAsked, testClock>>

\* Mistake for the checks to catch: the row is put back as it was read,
\* whatever has been reserved since.
IsOurs_Always(t) == TRUE

\* The row still has this reservation.
IsOurs(t) == preview.count = tests[t].count + 1 /\ preview.runtime = tests[t].until

\* releaseCandidateExperiencePreviewReservation, or the process ends before it.
Release(t) ==
    /\ tests[t].at = "release"
    /\ \/ preview' = IF preview.exists /\ IsOurs(t)
                     THEN [preview EXCEPT !.count = tests[t].count, !.runtime = tests[t].runtime]
                     ELSE preview
       \/ UNCHANGED preview
    /\ tests' = [tests EXCEPT ![t] = NoTest]
    /\ UNCHANGED <<testRooms, roomsAsked, testClock>>

-----------------------------------------------------------------------------
(* The realtime service                                                    *)

\* AppendEvent: a preview's session takes no event when it is over.
Say(r) ==
    /\ testRooms[r].heard /\ ~testRooms[r].purged
    /\ testRooms[r].until > testClock
    /\ testRooms' = [testRooms EXCEPT ![r].said = TRUE]
    /\ UNCHANGED <<preview, tests, roomsAsked, testClock>>

\* PurgeExpiredCandidatePreviewData: sessions that are over, and a snapshot
\* that is, by its own date.
Purge ==
    /\ testRooms' = [r \in DOMAIN testRooms |->
                        IF testRooms[r].until <= testClock
                        THEN [testRooms[r] EXCEPT !.purged = TRUE] ELSE testRooms[r]]
    /\ preview' = IF preview.exists /\ OverAt <= testClock THEN NoPreview ELSE preview
    /\ UNCHANGED <<tests, roomsAsked, testClock>>

-----------------------------------------------------------------------------
LiveTestsNext ==
    \/ TestTick \/ CreateSnapshot \/ CleanUp \/ Purge
    \/ \E t \in Tabs : ReadPreview(t) \/ Reserve(t) \/ ProvisionTest(t) \/ Release(t)
    \/ \E r \in DOMAIN testRooms : Say(r)

LiveTestsSpec == LiveTestsInit /\ [][LiveTestsNext]_liveTestVars

-----------------------------------------------------------------------------
(* Properties                                                              *)

LiveTestsTypeOK ==
    /\ preview \in [exists : BOOLEAN, expires : 0..TestAccessTtl,
                    runtime : 0 .. TestHorizon + TestRuntimeTtl, count : 0..LiveTestLimit]
    /\ \A t \in Tabs : tests[t].at \in {"none", "reserve", "provision", "release"}
    /\ \A r \in DOMAIN testRooms : testRooms[r] \in
          [until : Nat, heard : BOOLEAN, said : BOOLEAN, purged : BOOLEAN]
    /\ roomsAsked \in 0..MaxRooms
    /\ testClock \in 0..TestHorizon

Heard == {r \in DOMAIN testRooms : testRooms[r].heard}

\* However tests of several tabs fail and overlap, the row counts every room a
\* candidate's page was given, so they are no more than the limit.
TestsAreCounted == preview.exists => Cardinality(Heard) <= preview.count

\* While a room that was given lasts, the service finds its plan: the snapshot
\* is not over before the room is.
RoomHasItsPlan ==
    \A r \in Heard : testRooms[r].until > testClock => preview.exists /\ OverAt >= testRooms[r].until

LiveTestsInv == LiveTestsTypeOK /\ TestsAreCounted /\ RoomHasItsPlan
=============================================================================
