--------------------------- MODULE ConsoleProofs ---------------------------
(***************************************************************************)
(* What TLC checks of the workspace on a small instance (MCConsole),       *)
(* proved for any number of users, buyers, syncs, runs and tabs, and       *)
(* whatever the bounds on what they do: the live tests of a preview, the   *)
(* plan of the workspace, the purchases, the leads of the demo and the     *)
(* organization with its owners.                                           *)
(*                                                                         *)
(* The components share no state. Each part has the inductive invariant of *)
(* its component, a lemma for each of its actions, and the theorem.        *)
(***************************************************************************)
EXTENDS Organizations, Purchases, PlanSync, DemoLeads, LiveTests, FiniteSetTheorems,
        WellFoundedInduction, TLAPS

-----------------------------------------------------------------------------
(* Live tests.  A reservation, or the room that was given for it, holds a  *)
(* place of the row's counter: no two of them the same, each below the     *)
(* counter, and what a place restores when it is released covers every     *)
(* place below it.                                                         *)

Tests == [at : {"none", "reserve", "provision", "release"}, now : Nat, count : 0 .. LiveTestLimit,
          runtime : 0 .. TestHorizon + TestRuntimeTtl, until : 0 .. TestHorizon + TestRuntimeTtl]

TestRoom == [until : Nat, heard : BOOLEAN, said : BOOLEAN, purged : BOOLEAN]

Holders == {t \in Tabs : tests[t].at \in {"provision", "release"}}

\* Reservations among themselves.
ReservationsApart ==
    \A t, u \in Holders :
       /\ t # u => tests[t].count # tests[u].count
       /\ tests[t].count < tests[u].count => tests[t].until <= tests[u].runtime

\* The rooms that were given have places of their own.
RoomsApart(level) ==
    /\ level \in [Heard -> 0 .. LiveTestLimit]
    /\ \A r, q \in Heard : r # q => level[r] # level[q]
    /\ \A r \in Heard, t \in Holders :
          /\ level[r] # tests[t].count
          /\ level[r] < tests[t].count => testRooms[r].until <= tests[t].runtime

\* The row counts all of them, and lasts as long as they do.
RowCovers(level) ==
    preview.exists =>
       /\ \A r \in Heard : level[r] < preview.count /\ testRooms[r].until <= preview.runtime
       /\ \A t \in Holders : tests[t].count < preview.count /\ tests[t].until <= preview.runtime

\* The row is there while one of them lasts.
RowLasts ==
    /\ \A r \in Heard : testRooms[r].until > testClock => preview.exists
    /\ \A t \in Holders : tests[t].until > testClock => preview.exists

TestRows ==
    /\ preview \in [exists : BOOLEAN, expires : 0 .. TestAccessTtl,
                    runtime : 0 .. TestHorizon + TestRuntimeTtl, count : 0 .. LiveTestLimit]
    /\ tests \in [Tabs -> Tests]
    /\ testRooms \in Seq(TestRoom)
    /\ roomsAsked \in 0 .. MaxRooms
    /\ testClock \in 0 .. TestHorizon
    /\ \A t \in Tabs : tests[t].at = "reserve" => /\ tests[t].count < LiveTestLimit
                                                  /\ tests[t].runtime <= tests[t].until

\* A snapshot is made once, before anything is asked of it.
OneSnapshot ==
    /\ preview.exists => preview.expires > 0
    /\ preview.runtime <= testClock + TestRuntimeTtl
    /\ \A t \in Tabs : /\ tests[t].until <= testClock + TestRuntimeTtl
                       /\ tests[t].runtime <= testClock + TestRuntimeTtl
    /\ testClock = 0 /\ ~preview.exists => testRooms = <<>> /\ \A t \in Tabs : tests[t] = NoTest

RoomsPlaced == \E level \in [Heard -> 0 .. LiveTestLimit] : RoomsApart(level) /\ RowCovers(level)

LiveTestsIInv == TestRows /\ OneSnapshot /\ ReservationsApart /\ RowLasts /\ RoomsPlaced

LEMMA LiveTestsInitially == LiveTestsInit => LiveTestsIInv
<1> SUFFICES ASSUME LiveTestsInit PROVE LiveTestsIInv
  OBVIOUS
<1>1. /\ 0 \in 0 .. LiveTestLimit /\ 0 \in 0 .. TestHorizon + TestRuntimeTtl
      /\ 0 \in 0 .. TestAccessTtl /\ 0 \in 0 .. MaxRooms /\ 0 \in 0 .. TestHorizon
      /\ TestRuntimeTtl \in Nat
  BY LiveTestsAssumption
<1>2. /\ \A t \in Tabs : tests[t] = NoTest
      /\ tests = [t \in Tabs |-> NoTest] /\ NoTest \in Tests
      /\ testRooms = <<>> /\ preview = NoPreview /\ roomsAsked = 0 /\ testClock = 0
  BY <1>1 DEF LiveTestsInit, NoTest, Tests
<1>3. TestRows
  BY <1>1, <1>2 DEF TestRows, NoPreview, NoTest
<1>4. Holders = {} /\ Heard = {}
  BY <1>2 DEF Holders, Heard, NoTest
<1>5. RoomsPlaced
  <2> DEFINE level == [r \in Heard |-> 0]
  <2>1. level \in [Heard -> 0 .. LiveTestLimit]
    BY <1>1
  <2>2. RoomsApart(level) /\ RowCovers(level)
    BY <1>4, <2>1 DEF RoomsApart, RowCovers
  <2> QED
    BY <2>1, <2>2 DEF RoomsPlaced
<1>6. OneSnapshot
  BY <1>1, <1>2 DEF OneSnapshot, NoPreview, NoTest
<1> QED
  BY <1>3, <1>4, <1>5, <1>6 DEF LiveTestsIInv, ReservationsApart, RowLasts

LEMMA RoomTyped ==
    ASSUME testRooms \in Seq(TestRoom)
    PROVE  \A r \in DOMAIN testRooms : testRooms[r] \in TestRoom /\ testRooms[r].until \in Nat
<1>1. \A r \in DOMAIN testRooms : testRooms[r] \in TestRoom
  OBVIOUS
<1> QED
  BY <1>1 DEF TestRoom

\* The rooms have distinct places below the counter, so they are no more than it says.
LEMMA LiveTestsInvFollows == LiveTestsIInv => LiveTestsInv
<1> SUFFICES ASSUME LiveTestsIInv PROVE LiveTestsInv
  OBVIOUS
<1>1. PICK level \in [Heard -> 0 .. LiveTestLimit] : RoomsApart(level) /\ RowCovers(level)
  BY DEF LiveTestsIInv, RoomsPlaced
<1>2. LiveTestsTypeOK
  <2>1. testRooms \in Seq(TestRoom) /\ \A t \in Tabs : tests[t] \in Tests
    BY DEF LiveTestsIInv, TestRows
  <2>2. \A r \in DOMAIN testRooms : testRooms[r] \in TestRoom
    BY <2>1, RoomTyped
  <2> QED
    BY <2>1, <2>2 DEF LiveTestsIInv, TestRows, LiveTestsTypeOK, Tests, TestRoom
<1>3. preview.count \in Nat /\ preview.runtime \in Nat /\ testClock \in Nat
  BY LiveTestsAssumption DEF LiveTestsIInv, TestRows
<1>4. ASSUME preview.exists PROVE Cardinality(Heard) <= preview.count
  <2> DEFINE places == 0 .. (preview.count - 1)
  <2>1. level \in [Heard -> places]
    BY <1>1, <1>3, <1>4 DEF RowCovers
  <2>2. level \in Injection(Heard, places)
    BY <1>1, <2>1 DEF RoomsApart, Injection, IsInjective
  <2>3. IsFiniteSet(places) /\ Cardinality(places) = preview.count
    <3>1. preview.count - 1 \in Int
      BY <1>3
    <3>2. Cardinality(places) = IF 0 > preview.count - 1 THEN 0 ELSE preview.count - 1 - 0 + 1
      BY <3>1, FS_Interval
    <3> QED
      BY <1>3, <3>1, <3>2, FS_Interval
  <2> QED
    BY <2>2, <2>3, FS_Injection
<1>5. RoomHasItsPlan
  <2>1. SUFFICES ASSUME NEW r \in Heard, testRooms[r].until > testClock
                 PROVE  preview.exists /\ OverAt >= testRooms[r].until
    BY DEF RoomHasItsPlan
  <2>2. preview.exists
    BY <2>1 DEF LiveTestsIInv, RowLasts
  <2>3. testRooms[r].until <= preview.runtime /\ testRooms[r].until \in Nat
    BY <1>1, <1>2, <2>2 DEF RowCovers, Heard, LiveTestsTypeOK
  <2> QED
    BY <1>3, <2>1, <2>2, <2>3 DEF OverAt
<1> QED
  BY <1>2, <1>4, <1>5 DEF LiveTestsInv, TestsAreCounted

\* A step that reserves nothing and gives no room leaves the places as they are.
LEMMA PlacesStay ==
    ASSUME LiveTestsIInv,
           Holders' \subseteq Holders,
           \A t \in Holders' : tests'[t].count = tests[t].count /\ tests'[t].until = tests[t].until
                               /\ tests'[t].runtime = tests[t].runtime,
           Heard' = Heard, \A r \in Heard : testRooms'[r].until = testRooms[r].until,
           preview'.exists => preview' = preview
    PROVE  ReservationsApart' /\ RoomsPlaced'
<1>1. PICK level \in [Heard -> 0 .. LiveTestLimit] : RoomsApart(level) /\ RowCovers(level)
  BY DEF LiveTestsIInv, RoomsPlaced
<1>2. ReservationsApart'
  BY DEF LiveTestsIInv, ReservationsApart
<1>3. RoomsApart(level)'
  BY <1>1 DEF RoomsApart
<1>4. RowCovers(level)'
  BY <1>1 DEF RowCovers
<1> QED
  BY <1>1, <1>2, <1>3, <1>4 DEF RoomsPlaced

\* Flags of the rooms that change neither which were given nor how long they last.
LEMMA SameRooms ==
    ASSUME testRooms \in Seq(TestRoom), testRooms' \in Seq(TestRoom),
           DOMAIN testRooms' = DOMAIN testRooms,
           \A r \in DOMAIN testRooms : /\ testRooms'[r].heard = testRooms[r].heard
                                       /\ testRooms'[r].until = testRooms[r].until
    PROVE  Heard' = Heard /\ \A r \in Heard : testRooms'[r].until = testRooms[r].until
  BY DEF Heard

LEMMA RoomsFlagged ==
    ASSUME testRooms \in Seq(TestRoom), NEW over \in SUBSET (DOMAIN testRooms),
           testRooms' = [r \in DOMAIN testRooms |->
                            IF r \in over THEN [testRooms[r] EXCEPT !.purged = TRUE] ELSE testRooms[r]]
    PROVE  /\ testRooms' \in Seq(TestRoom) /\ DOMAIN testRooms' = DOMAIN testRooms
           /\ \A r \in DOMAIN testRooms : /\ testRooms'[r].heard = testRooms[r].heard
                                          /\ testRooms'[r].until = testRooms[r].until
<1>1. \A r \in DOMAIN testRooms : testRooms[r] \in TestRoom
  OBVIOUS
<1>2. \A r \in DOMAIN testRooms :
          /\ testRooms'[r] \in TestRoom
          /\ testRooms'[r].heard = testRooms[r].heard /\ testRooms'[r].until = testRooms[r].until
  BY <1>1 DEF TestRoom
<1>3. DOMAIN testRooms = 1 .. Len(testRooms) /\ Len(testRooms) \in Nat
  OBVIOUS
<1>4. testRooms' \in [1 .. Len(testRooms) -> TestRoom]
  BY <1>2, <1>3
<1> QED
  BY <1>2, <1>3, <1>4

LEMMA TickKeepsTests == ASSUME LiveTestsIInv, TestTick PROVE LiveTestsIInv'
<1>1. /\ UNCHANGED <<preview, tests, testRooms, roomsAsked>>
      /\ testClock' = testClock + 1 /\ testClock < TestHorizon /\ testClock \in 0 .. TestHorizon
      /\ TestHorizon \in Nat /\ TestRuntimeTtl \in Nat
      /\ preview.runtime \in 0 .. TestHorizon + TestRuntimeTtl
  BY LiveTestsAssumption DEF TestTick, LiveTestsIInv, TestRows
<1>2. testClock' \in 0 .. TestHorizon /\ testClock' # 0
  BY <1>1
<1>3. TestRows'
  BY <1>1, <1>2 DEF LiveTestsIInv, TestRows
<1>4. Holders' = Holders /\ Heard' = Heard
  BY <1>1 DEF Holders, Heard
<1>5. \A r \in Heard : testRooms[r].until \in Nat
  BY RoomTyped DEF Heard, LiveTestsIInv, TestRows
<1>6. \A t \in Holders : tests[t].until \in Nat
  BY <1>1 DEF Holders, LiveTestsIInv, TestRows, Tests
<1>7. RowLasts'
  BY <1>1, <1>4, <1>5, <1>6 DEF LiveTestsIInv, RowLasts
<1>8. OneSnapshot'
  <2>1. \A t \in Tabs : tests[t].until \in Nat /\ tests[t].runtime \in Nat
    BY <1>1 DEF LiveTestsIInv, TestRows, Tests
  <2> QED
    BY <1>1, <1>2, <2>1 DEF LiveTestsIInv, OneSnapshot
<1>9. ReservationsApart' /\ RoomsPlaced'
  BY <1>1, <1>4, PlacesStay
<1> QED
  BY <1>3, <1>7, <1>8, <1>9 DEF LiveTestsIInv

LEMMA SnapshotKeepsTests == ASSUME LiveTestsIInv, CreateSnapshot PROVE LiveTestsIInv'
<1>1. /\ UNCHANGED <<tests, testRooms, roomsAsked, testClock>>
      /\ testRooms = <<>> /\ \A t \in Tabs : tests[t] = NoTest
      /\ preview' = [exists |-> TRUE, expires |-> TestAccessTtl, runtime |-> 0, count |-> 0]
      /\ testClock = 0 /\ TestAccessTtl \in Nat \ {0} /\ LiveTestLimit \in Nat
      /\ TestHorizon + TestRuntimeTtl \in Nat /\ TestRuntimeTtl \in Nat
  <2>1. /\ UNCHANGED <<tests, testRooms, roomsAsked, testClock>> /\ testClock = 0
        /\ testRooms = <<>> /\ \A t \in Tabs : tests[t] = NoTest
        /\ preview' = [NoPreview EXCEPT !.exists = TRUE, !.expires = testClock + TestAccessTtl]
    BY DEF CreateSnapshot, LiveTestsIInv, OneSnapshot
  <2>2. testClock + TestAccessTtl = TestAccessTtl
    BY <2>1, LiveTestsAssumption
  <2> QED
    <3>1. preview' = [exists |-> TRUE, expires |-> TestAccessTtl, runtime |-> 0, count |-> 0]
      BY <2>1, <2>2 DEF NoPreview
    <3>2. /\ TestAccessTtl \in Nat \ {0} /\ LiveTestLimit \in Nat
          /\ TestHorizon + TestRuntimeTtl \in Nat /\ TestRuntimeTtl \in Nat
      BY LiveTestsAssumption
    <3> QED
      BY <2>1, <3>1, <3>2
<1>2. 0 \in 0 .. LiveTestLimit /\ TestAccessTtl \in 0 .. TestAccessTtl
      /\ 0 \in 0 .. TestHorizon + TestRuntimeTtl
  BY <1>1
<1>3. TestRows'
  BY <1>1, <1>2 DEF LiveTestsIInv, TestRows
<1>4. Holders' = {} /\ Heard' = {}
  BY <1>1 DEF Holders, Heard, NoTest
<1>5. RoomsPlaced'
  <2> DEFINE level == [r \in {} |-> 0]
  <2>1. level \in [Heard' -> 0 .. LiveTestLimit]
    BY <1>4
  <2>2. RoomsApart(level)' /\ RowCovers(level)'
    BY <1>4, <2>1 DEF RoomsApart, RowCovers
  <2> QED
    BY <2>1, <2>2 DEF RoomsPlaced
<1>6. OneSnapshot'
  BY <1>1 DEF OneSnapshot, NoTest
<1> QED
  BY <1>3, <1>4, <1>5, <1>6 DEF LiveTestsIInv, ReservationsApart, RowLasts

\* While a reservation or its room lasts, the row is not over.
LEMMA RowIsNotOver ==
    ASSUME LiveTestsIInv, preview.exists, OverAt <= testClock
    PROVE  /\ testClock > 0
           /\ \A r \in Heard : testRooms[r].until <= testClock
           /\ \A t \in Holders : tests[t].until <= testClock
<1>1. PICK level \in [Heard -> 0 .. LiveTestLimit] : RoomsApart(level) /\ RowCovers(level)
  BY DEF LiveTestsIInv, RoomsPlaced
<1>2. /\ preview.runtime \in Nat /\ preview.expires \in Nat /\ preview.expires > 0 /\ testClock \in Nat
      /\ TestHorizon + TestRuntimeTtl \in Nat
  BY LiveTestsAssumption DEF LiveTestsIInv, TestRows, OneSnapshot
<1>3. \A r \in Heard : testRooms[r].until \in Nat
  BY RoomTyped DEF Heard, LiveTestsIInv, TestRows
<1>4. \A t \in Holders : tests[t].until \in Nat
  BY <1>2 DEF Holders, LiveTestsIInv, TestRows, Tests
<1> QED
  BY <1>1, <1>2, <1>3, <1>4 DEF RowCovers, OverAt

\* What is over is purged, by the service or with the snapshot.
LEMMA PurgesKeepTests == ASSUME LiveTestsIInv, CleanUp \/ Purge PROVE LiveTestsIInv'
<1>1. /\ UNCHANGED <<tests, roomsAsked, testClock>> /\ testRooms \in Seq(TestRoom)
      /\ LiveTestLimit \in Nat /\ TestHorizon + TestRuntimeTtl \in Nat /\ TestAccessTtl \in Nat
      /\ testClock \in Nat /\ CleanupGrace \in Nat /\ TestRuntimeTtl \in Nat
  BY LiveTestsAssumption DEF CleanUp, Purge, LiveTestsIInv, TestRows
<1>2. PICK over \in SUBSET (DOMAIN testRooms) :
          testRooms' = [r \in DOMAIN testRooms |->
                           IF r \in over THEN [testRooms[r] EXCEPT !.purged = TRUE] ELSE testRooms[r]]
  <2>1. CASE CleanUp
    BY <2>1 DEF CleanUp
  <2>2. CASE Purge
    <3> DEFINE over == {r \in DOMAIN testRooms : testRooms[r].until <= testClock}
    <3>1. testRooms' = [r \in DOMAIN testRooms |->
                           IF r \in over THEN [testRooms[r] EXCEPT !.purged = TRUE] ELSE testRooms[r]]
      BY <2>2 DEF Purge
    <3> QED
      BY <3>1
  <2> QED
    BY <2>1, <2>2
<1>3. /\ testRooms' \in Seq(TestRoom) /\ DOMAIN testRooms' = DOMAIN testRooms
      /\ \A r \in DOMAIN testRooms : /\ testRooms'[r].heard = testRooms[r].heard
                                     /\ testRooms'[r].until = testRooms[r].until
  BY <1>1, <1>2, RoomsFlagged
<1>4. Heard' = Heard /\ \A r \in Heard : testRooms'[r].until = testRooms[r].until
  BY <1>1, <1>3, SameRooms
<1>5. preview' = preview \/ (preview' = NoPreview /\ preview.exists /\ OverAt <= testClock)
  <2>1. CASE CleanUp
    <3>1. OverAt \in Nat
      BY <1>1 DEF OverAt, LiveTestsIInv, TestRows
    <3> QED
      BY <1>1, <2>1, <3>1 DEF CleanUp
  <2>2. CASE Purge
    BY <2>2 DEF Purge
  <2> QED
    BY <2>1, <2>2
<1>6. /\ 0 \in 0 .. LiveTestLimit /\ 0 \in 0 .. TestHorizon + TestRuntimeTtl
      /\ 0 \in 0 .. TestAccessTtl
  BY <1>1
<1>7. TestRows'
  <2>1. preview' \in [exists : BOOLEAN, expires : 0 .. TestAccessTtl,
                       runtime : 0 .. TestHorizon + TestRuntimeTtl, count : 0 .. LiveTestLimit]
    <3>1. NoPreview \in [exists : BOOLEAN, expires : 0 .. TestAccessTtl,
                         runtime : 0 .. TestHorizon + TestRuntimeTtl, count : 0 .. LiveTestLimit]
      BY <1>6 DEF NoPreview
    <3> QED
      BY <1>5, <3>1 DEF LiveTestsIInv, TestRows
  <2> QED
    BY <1>1, <1>3, <2>1 DEF LiveTestsIInv, TestRows
<1>8. Holders' = Holders
  BY <1>1 DEF Holders
<1>9. ReservationsApart' /\ RoomsPlaced'
  BY <1>1, <1>4, <1>5, <1>8, PlacesStay DEF NoPreview
<1>10. CASE preview' = preview
  <2>1. RowLasts'
    BY <1>1, <1>4, <1>8, <1>10 DEF LiveTestsIInv, RowLasts
  <2>2. testRooms = <<>> => testRooms' = <<>>
    BY <1>3
  <2>3. OneSnapshot'
    BY <1>1, <1>10, <2>2 DEF LiveTestsIInv, OneSnapshot
  <2> QED
    BY <1>7, <1>9, <2>1, <2>3 DEF LiveTestsIInv
<1>11. CASE preview' = NoPreview /\ preview.exists /\ OverAt <= testClock
  <2>1. /\ testClock > 0 /\ \A r \in Heard : testRooms[r].until <= testClock
        /\ \A t \in Holders : tests[t].until <= testClock
    BY <1>11, RowIsNotOver
  <2>2. \A r \in Heard : testRooms[r].until \in Nat
    BY RoomTyped DEF Heard, LiveTestsIInv, TestRows
  <2>3. \A t \in Holders : tests[t].until \in Nat
    BY <1>1 DEF Holders, LiveTestsIInv, TestRows, Tests
  <2>4. RowLasts'
    BY <1>1, <1>4, <1>8, <2>1, <2>2, <2>3 DEF RowLasts
  <2>5. OneSnapshot'
    BY <1>1, <1>11, <2>1 DEF LiveTestsIInv, OneSnapshot, NoPreview
  <2> QED
    BY <1>7, <1>9, <2>4, <2>5 DEF LiveTestsIInv
<1> QED
  BY <1>5, <1>10, <1>11

LEMMA SayKeepsTests ==
    ASSUME LiveTestsIInv, NEW r \in DOMAIN testRooms, Say(r)
    PROVE  LiveTestsIInv'
<1> DEFINE room == [testRooms[r] EXCEPT !.said = TRUE]
<1>1. /\ testRooms \in Seq(TestRoom) /\ UNCHANGED <<preview, tests, roomsAsked, testClock>>
      /\ testRooms' = [testRooms EXCEPT ![r] = room]
  BY DEF Say, LiveTestsIInv, TestRows
<1>2. room \in TestRoom /\ room.heard = testRooms[r].heard /\ room.until = testRooms[r].until
  BY <1>1, RoomTyped DEF TestRoom
<1> HIDE DEF room
<1>3. testRooms' \in Seq(TestRoom) /\ DOMAIN testRooms' = DOMAIN testRooms /\ testRooms # <<>>
  BY <1>1, <1>2
<1>4. \A q \in DOMAIN testRooms : /\ testRooms'[q].heard = testRooms[q].heard
                                  /\ testRooms'[q].until = testRooms[q].until
  BY <1>1, <1>2
<1>5. Heard' = Heard /\ \A q \in Heard : testRooms'[q].until = testRooms[q].until
  BY <1>1, <1>3, <1>4, SameRooms
<1>6. Holders' = Holders
  BY <1>1 DEF Holders
<1>7. ReservationsApart' /\ RoomsPlaced'
  BY <1>1, <1>5, <1>6, PlacesStay
<1>8. TestRows' /\ OneSnapshot' /\ RowLasts'
  BY <1>1, <1>3, <1>5, <1>6 DEF LiveTestsIInv, TestRows, OneSnapshot, RowLasts
<1> QED
  BY <1>7, <1>8 DEF LiveTestsIInv

\* A tab that only reads the row, or gives up before it has reserved anything.
LEMMA WithoutReservation ==
    ASSUME LiveTestsIInv, NEW t \in Tabs, NEW test \in Tests,
           UNCHANGED <<preview, testRooms, testClock>>, roomsAsked' \in 0 .. MaxRooms,
           tests' = [tests EXCEPT ![t] = test], preview.exists \/ test = NoTest,
           test.at \in {"none", "reserve"},
           test.at = "reserve" => test.count < LiveTestLimit /\ test.runtime <= test.until,
           test.until <= testClock + TestRuntimeTtl, test.runtime <= testClock + TestRuntimeTtl
    PROVE  LiveTestsIInv'
<1>1. tests \in [Tabs -> Tests]
  BY DEF LiveTestsIInv, TestRows
<1>2. TestRows'
  BY <1>1 DEF LiveTestsIInv, TestRows
<1>3. Holders' = Holders \ {t} /\ Heard' = Heard
  BY <1>1 DEF Holders, Heard
<1>4. \A u \in Holders' : tests'[u] = tests[u]
  BY <1>1, <1>3
<1>5. ReservationsApart' /\ RoomsPlaced'
  BY <1>3, <1>4, PlacesStay
<1>6. RowLasts'
  BY <1>3, <1>4 DEF LiveTestsIInv, RowLasts
<1>7. OneSnapshot'
  BY <1>1 DEF LiveTestsIInv, OneSnapshot
<1> QED
  BY <1>2, <1>5, <1>6, <1>7 DEF LiveTestsIInv

LEMMA NoTestTyped ==
    ASSUME LiveTestsIInv
    PROVE  /\ NoTest \in Tests /\ NoTest.until <= testClock + TestRuntimeTtl
           /\ NoTest.runtime <= testClock + TestRuntimeTtl
<1>1. testClock \in Nat /\ 0 <= testClock + TestRuntimeTtl
  BY LiveTestsAssumption DEF LiveTestsIInv, TestRows
<1>2. 0 \in 0 .. LiveTestLimit /\ 0 \in 0 .. TestHorizon + TestRuntimeTtl
  BY LiveTestsAssumption
<1> QED
  BY <1>1, <1>2 DEF NoTest, Tests

LEMMA ReadKeepsTests ==
    ASSUME LiveTestsIInv, NEW t \in Tabs, ReadPreview(t)
    PROVE  LiveTestsIInv'
<1> DEFINE test == [at |-> "reserve", now |-> testClock, count |-> preview.count,
                    runtime |-> preview.runtime, until |-> testClock + TestRuntimeTtl]
<1>1. /\ UNCHANGED <<preview, testRooms, testClock>> /\ preview.exists
      /\ preview.count < LiveTestLimit /\ preview.count \in 0 .. LiveTestLimit
      /\ preview.runtime \in 0 .. TestHorizon + TestRuntimeTtl
      /\ preview.runtime <= testClock + TestRuntimeTtl
      /\ testClock \in 0 .. TestHorizon
      /\ roomsAsked' = roomsAsked + 1 /\ roomsAsked < MaxRooms /\ roomsAsked \in 0 .. MaxRooms
      /\ tests' = [tests EXCEPT ![t] = test]
  BY DEF ReadPreview, LiveTestsIInv, TestRows, OneSnapshot
<1>2. /\ roomsAsked' \in 0 .. MaxRooms /\ testClock \in Nat
      /\ testClock + TestRuntimeTtl \in 0 .. TestHorizon + TestRuntimeTtl
  BY <1>1, LiveTestsAssumption
<1>3. /\ test \in Tests /\ test.at = "reserve" /\ test.count = preview.count
      /\ test.runtime = preview.runtime /\ test.until = testClock + TestRuntimeTtl
      /\ test.until <= testClock + TestRuntimeTtl
  BY <1>1, <1>2, LiveTestsAssumption DEF Tests
<1> HIDE DEF test
<1> QED
  BY <1>1, <1>2, <1>3, WithoutReservation

\* A reservation takes the place above all others, for at least as long.
LEMMA ReserveKeepsTests ==
    ASSUME LiveTestsIInv, NEW t \in Tabs, Reserve(t)
    PROVE  LiveTestsIInv'
<1>1. /\ UNCHANGED <<testRooms, roomsAsked, testClock>> /\ tests \in [Tabs -> Tests]
      /\ tests[t].at = "reserve" /\ tests[t].count < LiveTestLimit
      /\ tests[t].runtime <= tests[t].until
      /\ roomsAsked \in 0 .. MaxRooms /\ testClock \in Nat
  BY LiveTestsAssumption DEF Reserve, LiveTestsIInv, TestRows
<1>2. /\ tests[t].count \in 0 .. LiveTestLimit /\ tests[t].until \in 0 .. TestHorizon + TestRuntimeTtl
      /\ tests[t].runtime \in 0 .. TestHorizon + TestRuntimeTtl
      /\ TestHorizon + TestRuntimeTtl \in Nat /\ LiveTestLimit \in Nat
  BY <1>1, LiveTestsAssumption DEF Tests
<1>3. CASE UNCHANGED preview /\ tests' = [tests EXCEPT ![t] = NoTest]
  BY <1>1, <1>3, NoTestTyped, WithoutReservation DEF NoTest
<1>4. CASE /\ preview.exists /\ preview.count = tests[t].count /\ preview.runtime = tests[t].runtime
           /\ preview' = [preview EXCEPT !.count = @ + 1, !.runtime = tests[t].until]
           /\ tests' = [tests EXCEPT ![t].at = "provision"]
  <2> DEFINE test == [tests[t] EXCEPT !.at = "provision"]
  <2>1. /\ test \in Tests /\ test.at = "provision" /\ test.count = tests[t].count
        /\ test.until = tests[t].until /\ test.runtime = tests[t].runtime
        /\ tests' = [tests EXCEPT ![t] = test]
    BY <1>1, <1>4 DEF Tests
  <2> HIDE DEF test
  <2>2. tests[t].count + 1 \in 0 .. LiveTestLimit
    BY <1>1, <1>2
  <2>3. /\ preview' \in [exists : BOOLEAN, expires : 0 .. TestAccessTtl,
                         runtime : 0 .. TestHorizon + TestRuntimeTtl, count : 0 .. LiveTestLimit]
        /\ preview'.exists /\ preview'.expires = preview.expires
        /\ preview'.count = tests[t].count + 1 /\ preview'.runtime = tests[t].until
    BY <1>2, <1>4, <2>2 DEF LiveTestsIInv, TestRows
  <2>4. TestRows'
    BY <1>1, <2>1, <2>3 DEF LiveTestsIInv, TestRows
  <2>5. Holders' = Holders \cup {t} /\ t \notin Holders /\ Heard' = Heard
    BY <1>1, <2>1 DEF Holders, Heard
  <2>6. /\ \A u \in Holders : tests'[u] = tests[u] /\ tests[u] \in Tests
        /\ tests'[t] = test
    BY <1>1, <2>1, <2>5 DEF Holders
  <2>7. PICK level \in [Heard -> 0 .. LiveTestLimit] : RoomsApart(level) /\ RowCovers(level)
    BY DEF LiveTestsIInv, RoomsPlaced
  <2>8. \A u \in Holders : /\ tests[u].count < tests[t].count /\ tests[u].until <= tests[t].runtime
                           /\ tests[u].count \in Nat /\ tests[u].until \in Nat
    BY <1>2, <1>4, <2>6, <2>7 DEF RowCovers, Tests
  <2>9. \A r \in Heard : /\ level[r] < tests[t].count /\ testRooms[r].until <= tests[t].runtime
                         /\ level[r] \in Nat /\ testRooms[r].until \in Nat
    BY <1>2, <1>4, <2>7, RoomTyped DEF RowCovers, LiveTestsIInv, TestRows, Heard
  <2>10. ReservationsApart'
    BY <1>2, <2>1, <2>5, <2>6, <2>8 DEF LiveTestsIInv, ReservationsApart
  <2>11. RoomsApart(level)'
    BY <1>1, <1>2, <2>1, <2>5, <2>6, <2>7, <2>9 DEF RoomsApart
  <2>12. RowCovers(level)'
    BY <1>1, <1>2, <2>1, <2>3, <2>5, <2>6, <2>8, <2>9 DEF RowCovers
  <2>13. RoomsPlaced'
    BY <2>5, <2>11, <2>12 DEF RoomsPlaced
  <2>14. RowLasts'
    BY <1>1, <2>3 DEF RowLasts
  <2>15. OneSnapshot'
    <3>1. \A u \in Tabs : tests'[u].until = tests[u].until /\ tests'[u].runtime = tests[u].runtime
      BY <1>1, <2>1
    <3> QED
      BY <1>1, <1>4, <2>3, <3>1 DEF LiveTestsIInv, OneSnapshot
  <2> QED
    BY <2>4, <2>10, <2>13, <2>14, <2>15 DEF LiveTestsIInv
<1> QED
  BY <1>3, <1>4 DEF Reserve

\* The rest of a test: its room is given or refused, or its place is released.
LEMMA FewerHolders ==
    ASSUME LiveTestsIInv, NEW t \in Holders, NEW test \in Tests,
           tests' = [tests EXCEPT ![t] = test], test.at \in {"none", "release"},
           test.at = "release" => /\ test.count = tests[t].count /\ test.until = tests[t].until
                                  /\ test.runtime = tests[t].runtime
    PROVE  /\ Holders' = IF test.at = "release" THEN Holders ELSE Holders \ {t}
           /\ \A u \in Holders' : /\ tests'[u].count = tests[u].count
                                  /\ tests'[u].until = tests[u].until
                                  /\ tests'[u].runtime = tests[u].runtime
<1>1. tests \in [Tabs -> Tests] /\ t \in Tabs /\ tests[t].at \in {"provision", "release"}
  BY DEF LiveTestsIInv, TestRows, Holders
<1>2. tests'[t] = test /\ \A u \in Tabs : u # t => tests'[u] = tests[u]
  BY <1>1
<1> QED
  BY <1>1, <1>2 DEF Holders

\* A room that was given takes the place of its reservation.
LEMMA RoomGiven ==
    ASSUME LiveTestsIInv, NEW t \in Holders, tests[t].until > testClock,
           UNCHANGED <<preview, roomsAsked, testClock>>, tests' = [tests EXCEPT ![t] = NoTest],
           testRooms' = Append(testRooms, [until |-> tests[t].until, heard |-> TRUE,
                                           said |-> FALSE, purged |-> FALSE])
    PROVE  LiveTestsIInv'
<1> DEFINE room == [until |-> tests[t].until, heard |-> TRUE, said |-> FALSE, purged |-> FALSE]
           new == Len(testRooms) + 1
<1>1. /\ tests \in [Tabs -> Tests] /\ t \in Tabs /\ tests[t] \in Tests
      /\ testRooms \in Seq(TestRoom) /\ testRooms' = Append(testRooms, room)
  BY DEF LiveTestsIInv, TestRows, Holders
<1>2. /\ tests[t].until \in Nat /\ tests[t].count \in 0 .. LiveTestLimit
      /\ TestHorizon + TestRuntimeTtl \in Nat /\ testClock \in Nat
  BY <1>1, LiveTestsAssumption DEF Tests, LiveTestsIInv, TestRows
<1>3. room \in TestRoom /\ room.heard /\ room.until = tests[t].until
  BY <1>2 DEF TestRoom
<1> HIDE DEF room
<1>4. /\ testRooms' \in Seq(TestRoom) /\ DOMAIN testRooms' = DOMAIN testRooms \cup {new}
      /\ testRooms'[new] = room /\ new \notin DOMAIN testRooms /\ testRooms' # <<>>
      /\ \A r \in DOMAIN testRooms : testRooms'[r] = testRooms[r]
  BY <1>1, <1>3
<1> HIDE DEF new
<1>5. Heard' = Heard \cup {new} /\ new \notin Heard
  BY <1>3, <1>4 DEF Heard
<1>6. /\ \A r \in Heard : testRooms'[r].until = testRooms[r].until
      /\ testRooms'[new].until = tests[t].until
  BY <1>3, <1>4 DEF Heard
<1>7. /\ Holders' = Holders \ {t} /\ NoTest \in Tests
      /\ \A u \in Holders' : /\ tests'[u].count = tests[u].count
                             /\ tests'[u].until = tests[u].until
                             /\ tests'[u].runtime = tests[u].runtime
  BY NoTestTyped, FewerHolders DEF NoTest
<1>8. PICK level \in [Heard -> 0 .. LiveTestLimit] : RoomsApart(level) /\ RowCovers(level)
  BY DEF LiveTestsIInv, RoomsPlaced
<1>9. PICK after \in [Heard' -> 0 .. LiveTestLimit] :
          after[new] = tests[t].count /\ \A r \in Heard : after[r] = level[r]
  <2> DEFINE moved == [r \in Heard' |-> IF r = new THEN tests[t].count ELSE level[r]]
  <2>1. /\ moved \in [Heard' -> 0 .. LiveTestLimit] /\ moved[new] = tests[t].count
        /\ \A r \in Heard : moved[r] = level[r]
    BY <1>2, <1>5, <1>8
  <2> HIDE DEF moved
  <2> QED
    BY <2>1
<1>10. RoomsApart(after)'
  <2>1. \A r, q \in Heard' : r # q => after[r] # after[q]
    BY <1>5, <1>8, <1>9 DEF RoomsApart
  <2>2. ASSUME NEW r \in Heard', NEW u \in Holders'
        PROVE  /\ after[r] # tests'[u].count
               /\ after[r] < tests'[u].count => testRooms'[r].until <= tests'[u].runtime
    <3>1. /\ u \in Holders /\ u # t
          /\ tests'[u].count = tests[u].count /\ tests'[u].runtime = tests[u].runtime
      BY <1>7, <2>2
    <3>2. CASE r = new
      <4>1. /\ tests[t].count # tests[u].count
            /\ tests[t].count < tests[u].count => tests[t].until <= tests[u].runtime
        BY <3>1 DEF LiveTestsIInv, ReservationsApart
      <4>2. after[r] = tests[t].count /\ testRooms'[r].until = tests[t].until
        BY <1>6, <1>9, <3>2
      <4> QED
        BY <3>1, <4>1, <4>2
    <3>3. CASE r # new
      <4>1. /\ r \in Heard /\ after[r] = level[r] /\ testRooms'[r].until = testRooms[r].until
        BY <1>5, <1>6, <1>9, <2>2, <3>3
      <4>2. /\ level[r] # tests[u].count
            /\ level[r] < tests[u].count => testRooms[r].until <= tests[u].runtime
        BY <1>8, <3>1, <4>1 DEF RoomsApart
      <4> QED
        BY <3>1, <4>1, <4>2
    <3> QED
      BY <3>2, <3>3
  <2> QED
    BY <1>9, <2>1, <2>2 DEF RoomsApart
<1>11. RowCovers(after)'
  <2>1. SUFFICES ASSUME preview.exists
                 PROVE  /\ \A r \in Heard' : after[r] < preview.count
                                             /\ testRooms'[r].until <= preview.runtime
                        /\ \A u \in Holders' : tests'[u].count < preview.count
                                               /\ tests'[u].until <= preview.runtime
    BY DEF RowCovers
  <2>2. /\ \A r \in Heard : level[r] < preview.count /\ testRooms[r].until <= preview.runtime
        /\ \A u \in Holders : tests[u].count < preview.count
                              /\ tests[u].until <= preview.runtime
    BY <1>8, <2>1 DEF RowCovers
  <2>3. ASSUME NEW r \in Heard'
        PROVE  after[r] < preview.count /\ testRooms'[r].until <= preview.runtime
    <3>1. CASE r = new
      BY <1>6, <1>9, <2>2, <3>1
    <3>2. CASE r # new
      BY <1>5, <1>6, <1>9, <2>2, <3>2
    <3> QED
      BY <3>1, <3>2
  <2>4. ASSUME NEW u \in Holders'
        PROVE  tests'[u].count < preview.count /\ tests'[u].until <= preview.runtime
    BY <1>7, <2>2
  <2> QED
    BY <2>3, <2>4
<1>12. RoomsPlaced'
  BY <1>9, <1>10, <1>11 DEF RoomsPlaced
<1>13. ReservationsApart'
  BY <1>7 DEF LiveTestsIInv, ReservationsApart
<1>14. RowLasts'
  BY <1>5, <1>6, <1>7 DEF LiveTestsIInv, RowLasts
<1>15. TestRows'
  BY <1>1, <1>4, <1>7 DEF LiveTestsIInv, TestRows, NoTest
<1>16. OneSnapshot'
  <2>1. testClock = 0 => preview.exists
    BY <1>1, <1>2 DEF LiveTestsIInv, RowLasts
  <2> QED
    BY <1>1, <2>1, NoTestTyped DEF LiveTestsIInv, OneSnapshot
<1> QED
  BY <1>12, <1>13, <1>14, <1>15, <1>16 DEF LiveTestsIInv

\* No answer came: a room may be there, and none was given.
LEMMA NoAnswerKeepsTests ==
    ASSUME LiveTestsIInv, NEW t \in Holders, tests' = [tests EXCEPT ![t].at = "release"],
           UNCHANGED <<preview, roomsAsked, testClock>>,
           \/ UNCHANGED testRooms
           \/ testRooms' = Append(testRooms, [until |-> tests[t].until, heard |-> FALSE,
                                              said |-> FALSE, purged |-> FALSE])
    PROVE  LiveTestsIInv'
<1> DEFINE room == [until |-> tests[t].until, heard |-> FALSE, said |-> FALSE, purged |-> FALSE]
           test == [tests[t] EXCEPT !.at = "release"]
<1>1. /\ tests \in [Tabs -> Tests] /\ t \in Tabs /\ tests[t] \in Tests /\ tests[t] # NoTest
      /\ testRooms \in Seq(TestRoom)
      /\ testRooms' = testRooms \/ testRooms' = Append(testRooms, room)
      /\ TestHorizon + TestRuntimeTtl \in Nat
  BY LiveTestsAssumption DEF LiveTestsIInv, TestRows, Holders, NoTest
<1>2. room \in TestRoom /\ ~room.heard
  BY <1>1 DEF TestRoom, Tests
<1>3. /\ test \in Tests /\ test.at = "release" /\ test.count = tests[t].count
      /\ test.until = tests[t].until /\ test.runtime = tests[t].runtime
      /\ tests' = [tests EXCEPT ![t] = test]
  BY <1>1 DEF Tests
<1> HIDE DEF room, test
<1>4. /\ testRooms' \in Seq(TestRoom) /\ DOMAIN testRooms \subseteq DOMAIN testRooms'
      /\ \A r \in DOMAIN testRooms : testRooms'[r] = testRooms[r]
      /\ \A r \in DOMAIN testRooms' : r \notin DOMAIN testRooms => ~testRooms'[r].heard
  <2>1. CASE testRooms' = testRooms
    BY <1>1, <2>1
  <2>2. CASE testRooms' = Append(testRooms, room)
    BY <1>1, <1>2, <2>2
  <2> QED
    BY <1>1, <2>1, <2>2
<1>5. Heard' = Heard /\ \A r \in Heard : testRooms'[r].until = testRooms[r].until
  BY <1>4 DEF Heard
<1>6. /\ Holders' = Holders
      /\ \A u \in Holders' : /\ tests'[u].count = tests[u].count
                             /\ tests'[u].until = tests[u].until
                             /\ tests'[u].runtime = tests[u].runtime
  BY <1>3, FewerHolders
<1>7. ReservationsApart' /\ RoomsPlaced'
  BY <1>5, <1>6, PlacesStay
<1>8. RowLasts'
  BY <1>5, <1>6 DEF LiveTestsIInv, RowLasts
<1>9. TestRows'
  BY <1>1, <1>3, <1>4 DEF LiveTestsIInv, TestRows
<1>10. OneSnapshot'
  <2>1. testClock = 0 => preview.exists
    BY <1>1 DEF LiveTestsIInv, OneSnapshot
  <2>2. \A u \in Tabs : tests'[u].until = tests[u].until /\ tests'[u].runtime = tests[u].runtime
    BY <1>1, <1>3
  <2> QED
    BY <2>1, <2>2 DEF LiveTestsIInv, OneSnapshot
<1> QED
  BY <1>7, <1>8, <1>9, <1>10 DEF LiveTestsIInv

LEMMA ProvisionKeepsTests ==
    ASSUME LiveTestsIInv, NEW t \in Tabs, ProvisionTest(t)
    PROVE  LiveTestsIInv'
<1>1. t \in Holders /\ UNCHANGED <<preview, roomsAsked, testClock>>
  BY DEF ProvisionTest, Holders
<1>2. CASE /\ tests[t].until > testClock /\ tests' = [tests EXCEPT ![t] = NoTest]
           /\ testRooms' = Append(testRooms, [until |-> tests[t].until, heard |-> TRUE,
                                              said |-> FALSE, purged |-> FALSE])
  BY <1>1, <1>2, RoomGiven
<1>3. CASE /\ tests' = [tests EXCEPT ![t].at = "release"]
           /\ \/ UNCHANGED testRooms
              \/ testRooms' = Append(testRooms, [until |-> tests[t].until, heard |-> FALSE,
                                                 said |-> FALSE, purged |-> FALSE])
  BY <1>1, <1>3, NoAnswerKeepsTests
<1> QED
  BY <1>2, <1>3 DEF ProvisionTest

\* The place that is released is the topmost: what it restores covers the rest.
LEMMA ReleaseKeepsTests ==
    ASSUME LiveTestsIInv, NEW t \in Tabs, Release(t)
    PROVE  LiveTestsIInv'
<1>1. /\ t \in Holders /\ UNCHANGED <<testRooms, roomsAsked, testClock>>
      /\ tests' = [tests EXCEPT ![t] = NoTest] /\ tests[t] # NoTest
      /\ tests \in [Tabs -> Tests] /\ tests[t] \in Tests
  BY DEF Release, Holders, NoTest, LiveTestsIInv, TestRows
<1>2. /\ Holders' = Holders \ {t} /\ NoTest \in Tests
      /\ \A u \in Holders' : /\ tests'[u].count = tests[u].count
                             /\ tests'[u].until = tests[u].until
                             /\ tests'[u].runtime = tests[u].runtime
  BY <1>1, NoTestTyped, FewerHolders DEF NoTest
<1>3. Heard' = Heard /\ \A r \in Heard : testRooms'[r].until = testRooms[r].until
  BY <1>1 DEF Heard
<1>4. ReservationsApart'
  BY <1>2 DEF LiveTestsIInv, ReservationsApart
<1>5. CASE UNCHANGED preview
  <2>1. RoomsPlaced'
    BY <1>2, <1>3, <1>5, PlacesStay
  <2>2. RowLasts'
    BY <1>1, <1>2, <1>3, <1>5 DEF LiveTestsIInv, RowLasts
  <2>3. TestRows'
    BY <1>1, <1>2, <1>5 DEF LiveTestsIInv, TestRows, NoTest
  <2>4. OneSnapshot'
    BY <1>1, <1>5, NoTestTyped DEF LiveTestsIInv, OneSnapshot
  <2> QED
    BY <1>4, <2>1, <2>2, <2>3, <2>4 DEF LiveTestsIInv
<1>6. CASE /\ preview.exists /\ IsOurs(t)
           /\ preview' = [preview EXCEPT !.count = tests[t].count, !.runtime = tests[t].runtime]
  <2>1. /\ tests[t].count \in 0 .. LiveTestLimit
        /\ tests[t].runtime \in 0 .. TestHorizon + TestRuntimeTtl
        /\ preview.count = tests[t].count + 1 /\ LiveTestLimit \in Nat
    BY <1>1, <1>6, LiveTestsAssumption DEF Tests, IsOurs
  <2>2. /\ preview' \in [exists : BOOLEAN, expires : 0 .. TestAccessTtl,
                         runtime : 0 .. TestHorizon + TestRuntimeTtl, count : 0 .. LiveTestLimit]
        /\ preview'.exists /\ preview'.expires = preview.expires
        /\ preview'.count = tests[t].count /\ preview'.runtime = tests[t].runtime
    BY <1>6, <2>1 DEF LiveTestsIInv, TestRows
  <2>3. PICK level \in [Heard -> 0 .. LiveTestLimit] : RoomsApart(level) /\ RowCovers(level)
    BY DEF LiveTestsIInv, RoomsPlaced
  <2>4. RoomsApart(level)'
    BY <1>2, <1>3, <2>3 DEF RoomsApart
  <2>5. ASSUME NEW r \in Heard
        PROVE  level[r] < tests[t].count /\ testRooms[r].until <= tests[t].runtime
    <3>1. level[r] < preview.count /\ level[r] # tests[t].count /\ level[r] \in Nat
      BY <1>1, <1>6, <2>1, <2>3 DEF RoomsApart, RowCovers
    <3>2. level[r] < tests[t].count
      BY <2>1, <3>1
    <3> QED
      BY <1>1, <2>3, <3>2 DEF RoomsApart
  <2>6. ASSUME NEW u \in Holders, u # t
        PROVE  tests[u].count < tests[t].count /\ tests[u].until <= tests[t].runtime
    <3>1. tests[u].count < preview.count /\ tests[u].count # tests[t].count
      BY <1>1, <1>6, <2>3, <2>6 DEF RowCovers, LiveTestsIInv, ReservationsApart
    <3>2. tests[u].count \in Nat
      BY <1>1, <2>1 DEF Holders, Tests
    <3>3. tests[u].count < tests[t].count
      BY <2>1, <3>1, <3>2
    <3> QED
      BY <1>1, <3>3 DEF LiveTestsIInv, ReservationsApart
  <2>7. RowCovers(level)'
    BY <1>2, <1>3, <2>2, <2>5, <2>6 DEF RowCovers
  <2>8. RoomsPlaced'
    BY <1>3, <2>3, <2>4, <2>7 DEF RoomsPlaced
  <2>9. RowLasts'
    BY <2>2 DEF RowLasts
  <2>10. TestRows'
    BY <1>1, <1>2, <2>2 DEF LiveTestsIInv, TestRows, NoTest
  <2>11. OneSnapshot'
    BY <1>1, <1>6, <2>2, NoTestTyped DEF LiveTestsIInv, OneSnapshot
  <2> QED
    BY <1>4, <2>8, <2>9, <2>10, <2>11 DEF LiveTestsIInv
<1> QED
  BY <1>5, <1>6 DEF Release

LEMMA LiveTestsKeepInvariant == LiveTestsIInv /\ [LiveTestsNext]_liveTestVars => LiveTestsIInv'
<1> SUFFICES ASSUME LiveTestsIInv, [LiveTestsNext]_liveTestVars PROVE LiveTestsIInv'
  OBVIOUS
<1>1. CASE LiveTestsNext
  <2>1. CASE TestTick \/ CreateSnapshot \/ CleanUp \/ Purge
    BY <2>1, TickKeepsTests, SnapshotKeepsTests, PurgesKeepTests
  <2>2. CASE \E t \in Tabs : ReadPreview(t) \/ Reserve(t) \/ ProvisionTest(t) \/ Release(t)
    BY <2>2, ReadKeepsTests, ReserveKeepsTests, ProvisionKeepsTests, ReleaseKeepsTests
  <2>3. CASE \E r \in DOMAIN testRooms : Say(r)
    BY <2>3, SayKeepsTests
  <2> QED
    BY <1>1, <2>1, <2>2, <2>3 DEF LiveTestsNext
<1>2. CASE UNCHANGED liveTestVars
  <2>1. UNCHANGED <<preview, tests, testRooms, roomsAsked, testClock>>
    BY <1>2 DEF liveTestVars
  <2>2. Holders' = Holders /\ Heard' = Heard
    BY <2>1 DEF Holders, Heard
  <2>3. ReservationsApart' /\ RoomsPlaced'
    BY <2>1, <2>2, PlacesStay
  <2> QED
    BY <2>1, <2>2, <2>3 DEF LiveTestsIInv, TestRows, OneSnapshot, RowLasts
<1> QED
  BY <1>1, <1>2

\* However many tabs test a preview at once, fail and give back their reservations, the
\* rooms that were given are counted and find their plan while they last.
THEOREM TestsStayWithinTheLimit == LiveTestsSpec => []LiveTestsInv
<1>1. LiveTestsSpec => []LiveTestsIInv
  BY LiveTestsInitially, LiveTestsKeepInvariant, PTL DEF LiveTestsSpec
<1> QED
  BY <1>1, LiveTestsInvFollows, PTL

-----------------------------------------------------------------------------
(* The plan.  A row, or a copy on its way to it, that is of the last       *)
(* change says what the subscription says, at whatever time it was         *)
(* normalised; and a change that was answered has reached the row.         *)

\* What a copy of the last change has of the subscription.
SaysWhatClerkSays(p) ==
    p.exists /\ p.of = updatedAt =>
       \/ ~p.paid /\ p.state = "free" /\ sub.paid # "past_due"
       \/ p.state = "past_due"
       \/ p.paid /\ p.state = "canceled" /\ sub.paid = "canceled" /\ p.end = sub.end
       \/ /\ p.paid /\ p.state = "active"
          /\ sub.paid = "active" \/ (sub.paid = "upcoming" /\ sub.start <= now)

SyncsAreTrue ==
    \A s \in Syncs :
       /\ syncs[s].event <= updatedAt /\ syncs[s].copy.of <= updatedAt
       /\ syncs[s].at \in {"update", "create", "again"} =>
             /\ syncs[s].copy.exists /\ syncs[s].event <= syncs[s].copy.of
             /\ SaysWhatClerkSays(syncs[s].copy)
       /\ syncs[s].at = "again" => projection.exists

RowIsTrue ==
    /\ projection.of <= updatedAt
    /\ SaysWhatClerkSays(projection)
    /\ \A e \in answered : projection.exists /\ e <= projection.of
    /\ updatedAt = 0 => sub = NoPaidItem
    /\ ~projection.exists => projection.of = 0

PlanIInv == PlanTypeOK /\ SyncsAreTrue /\ RowIsTrue

SyncRow == [at : {"none", "fetch", "update", "create", "again"}, event : 0 .. MaxChanges,
            copy : ProjectionRow]

LEMMA NoSyncTyped == NoSync \in SyncRow /\ NoProjection \in ProjectionRow
<1>1. 0 \in 0 .. MaxChanges /\ 0 \in 0 .. PlanHorizon
  BY PlanSyncAssumption
<1>2. NoProjection \in ProjectionRow
  BY <1>1 DEF NoProjection, ProjectionRow
<1> QED
  BY <1>1, <1>2 DEF NoSync, SyncRow

LEMMA PlanInitially == PlanInit => PlanIInv
<1> SUFFICES ASSUME PlanInit PROVE PlanIInv
  OBVIOUS
<1>1. /\ now = 0 /\ sub = NoPaidItem /\ updatedAt = 0 /\ answered = {} /\ provisioned = FALSE
      /\ projection = NoProjection /\ syncs = [s \in Syncs |-> NoSync]
  BY DEF PlanInit
<1>2. 0 \in 0 .. MaxChanges /\ 0 \in 0 .. PlanHorizon /\ NoPaidItem \in Subscription
  BY PlanSyncAssumption DEF NoPaidItem, Subscription
<1>3. PlanTypeOK
  BY <1>1, <1>2, NoSyncTyped DEF PlanTypeOK, SyncRow
<1>4. SyncsAreTrue /\ RowIsTrue
  BY <1>1 DEF SyncsAreTrue, RowIsTrue, SaysWhatClerkSays, NoSync, NoProjection
<1> QED
  BY <1>3, <1>4 DEF PlanIInv

LEMMA PlanInvFollows == PlanIInv => PlanInv
<1> SUFFICES ASSUME PlanIInv PROVE PlanInv
  OBVIOUS
<1>1. /\ updatedAt \in Nat /\ projection \in ProjectionRow /\ projection.of \in Nat /\ now \in Nat
      /\ sub \in Subscription
  BY PlanSyncAssumption DEF PlanIInv, PlanTypeOK, ProjectionRow
<1>2. AnsweredIsProjected
  BY <1>1 DEF PlanIInv, RowIsTrue, AnsweredIsProjected
<1>3. ASSUME projection.exists, projection.of = updatedAt
      PROVE  /\ Granted(projection, now) = "v1" => Entitled(sub, now) = "v1"
             /\ Granted(projection, now) = "free" => Entitled(sub, now) # "nothing"
  <2>1. SaysWhatClerkSays(projection) /\ projection.end \in Nat
    BY <1>1 DEF PlanIInv, RowIsTrue, ProjectionRow
  <2>2. CASE ~projection.paid /\ projection.state = "free" /\ sub.paid # "past_due"
    BY <1>3, <2>2 DEF Granted, Entitled
  <2>3. CASE projection.state = "past_due"
    BY <1>3, <2>3 DEF Granted
  <2>4. CASE /\ projection.paid /\ projection.state = "canceled" /\ sub.paid = "canceled"
             /\ projection.end = sub.end
    BY <1>1, <1>3, <2>1, <2>4 DEF Granted, Entitled, Effective
  <2>5. CASE /\ projection.paid /\ projection.state = "active"
             /\ sub.paid = "active" \/ (sub.paid = "upcoming" /\ sub.start <= now)
    BY <1>3, <2>5 DEF Granted, Entitled, Effective
  <2> QED
    BY <1>3, <2>1, <2>2, <2>3, <2>4, <2>5 DEF SaysWhatClerkSays
<1> QED
  BY <1>2, <1>3 DEF PlanIInv, PlanInv, GrantsNoMore

\* What is fetched says what the subscription says.
LEMMA NormalizedIs ==
    ASSUME PlanIInv
    PROVE  /\ NormalizedBilling(sub, now, updatedAt) \in ProjectionRow
           /\ NormalizedBilling(sub, now, updatedAt).exists
           /\ NormalizedBilling(sub, now, updatedAt).of = updatedAt
           /\ SaysWhatClerkSays(NormalizedBilling(sub, now, updatedAt))
<1>1. /\ sub \in Subscription /\ sub.end \in Nat /\ updatedAt \in 0 .. MaxChanges
      /\ now \in 0 .. PlanHorizon
  BY DEF PlanIInv, PlanTypeOK, Subscription
<1>2. CASE Effective(sub, now)
  <2>1. PICK state \in {"past_due", "canceled", "active"} :
            /\ NormalizedBilling(sub, now, updatedAt) = ProjectionOf(TRUE, state, sub.end, updatedAt)
            /\ state = "canceled" <=> sub.paid = "canceled"
            /\ state = "past_due" <=> sub.paid = "past_due"
    BY <1>2 DEF NormalizedBilling
  <2>2. /\ NormalizedBilling(sub, now, updatedAt) \in ProjectionRow
        /\ NormalizedBilling(sub, now, updatedAt).exists
        /\ NormalizedBilling(sub, now, updatedAt).paid
        /\ NormalizedBilling(sub, now, updatedAt).state = state
        /\ NormalizedBilling(sub, now, updatedAt).end = sub.end
        /\ NormalizedBilling(sub, now, updatedAt).of = updatedAt
    BY <1>1, <2>1 DEF ProjectionOf, ProjectionRow
  <2> QED
    BY <1>2, <2>1, <2>2 DEF SaysWhatClerkSays, Effective
<1>3. CASE ~Effective(sub, now)
  <2>1. NormalizedBilling(sub, now, updatedAt) = ProjectionOf(FALSE, "free", 0, updatedAt)
    BY <1>3 DEF NormalizedBilling
  <2>2. /\ NormalizedBilling(sub, now, updatedAt) \in ProjectionRow
        /\ NormalizedBilling(sub, now, updatedAt).exists
        /\ ~NormalizedBilling(sub, now, updatedAt).paid
        /\ NormalizedBilling(sub, now, updatedAt).state = "free"
        /\ NormalizedBilling(sub, now, updatedAt).of = updatedAt
    BY <1>1, <2>1 DEF ProjectionOf, ProjectionRow
  <2> QED
    BY <1>3, <2>2 DEF SaysWhatClerkSays, Effective
<1> QED
  BY <1>2, <1>3

\* Clerk and the clock.
LEMMA ClerkKeepsPlan ==
    ASSUME PlanIInv, PlanTick \/ ChangeSubscription \/ ProvisionOrganization
    PROVE  PlanIInv'
<1>1. /\ updatedAt \in 0 .. MaxChanges /\ now \in 0 .. PlanHorizon /\ MaxChanges \in Nat
      /\ PlanHorizon \in Nat /\ projection.of \in Nat /\ sub.start \in Nat
      /\ sub \in Subscription /\ projection \in ProjectionRow
      /\ \A s \in Syncs : syncs[s].copy.of \in Nat /\ syncs[s].event \in Nat
      /\ answered \subseteq 1 .. updatedAt
  BY PlanSyncAssumption DEF PlanIInv, PlanTypeOK, ProjectionRow, Subscription
<1>2. CASE PlanTick
  <2>1. /\ now' = now + 1 /\ now' \in 0 .. PlanHorizon
        /\ UNCHANGED <<sub, updatedAt, answered, provisioned, projection, syncs>>
    BY <1>1, <1>2 DEF PlanTick
  <2>2. sub.start <= now => sub.start <= now'
    BY <1>1, <2>1
  <2> QED
    BY <2>1, <2>2 DEF PlanIInv, PlanTypeOK, SyncsAreTrue, RowIsTrue, SaysWhatClerkSays
<1>3. CASE ProvisionOrganization
  BY <1>3 DEF ProvisionOrganization, PlanIInv, PlanTypeOK, SyncsAreTrue, RowIsTrue, SaysWhatClerkSays
<1>4. CASE ChangeSubscription
  <2>1. /\ updatedAt' = updatedAt + 1 /\ updatedAt' \in 0 .. MaxChanges /\ updatedAt' # 0
        /\ UNCHANGED <<now, answered, provisioned, projection, syncs>>
    BY <1>1, <1>4 DEF ChangeSubscription
  <2>2. sub' \in Becomes(sub, now)
    BY <1>4 DEF ChangeSubscription
  <2>3. sub' \in Subscription
    <3>1. /\ now \in Nat /\ now + Period \in Nat /\ now + 1 \in Nat /\ now + 1 + Period \in Nat
      BY <1>1, PlanSyncAssumption
    <3>2. \/ sub' = [paid |-> "active", start |-> now, end |-> now + Period]
          \/ sub' = [paid |-> "upcoming", start |-> now + 1, end |-> now + 1 + Period]
          \/ sub' \in {[sub EXCEPT !.paid = status] : status \in {"past_due", "ended", "canceled"}}
      BY <2>2 DEF Becomes
    <3> QED
      BY <1>1, <3>1, <3>2 DEF Subscription
  <2>4. answered \subseteq 1 .. updatedAt'
    BY <1>1, <2>1
  <2>5. PlanTypeOK'
    BY <2>1, <2>3, <2>4 DEF PlanIInv, PlanTypeOK
  <2>6. ASSUME NEW p, p.of \in Nat, p.of <= updatedAt PROVE SaysWhatClerkSays(p)'
    BY <1>1, <2>1, <2>6 DEF SaysWhatClerkSays
  <2>7. SyncsAreTrue'
    <3>1. ASSUME NEW s \in Syncs
          PROVE  /\ syncs[s].event <= updatedAt' /\ syncs[s].copy.of <= updatedAt'
                 /\ SaysWhatClerkSays(syncs[s].copy)'
      BY <1>1, <2>1, <2>6, <3>1 DEF PlanIInv, SyncsAreTrue, SaysWhatClerkSays
    <3> QED
      BY <2>1, <3>1 DEF PlanIInv, SyncsAreTrue, SaysWhatClerkSays
  <2>8. RowIsTrue'
    BY <1>1, <2>1 DEF PlanIInv, RowIsTrue, SaysWhatClerkSays
  <2> QED
    BY <2>5, <2>7, <2>8 DEF PlanIInv
<1> QED
  BY <1>2, <1>3, <1>4

\* A step of one sync: what it holds stays true, and the row only gets newer.
LEMMA SyncKeeps ==
    ASSUME PlanIInv, NEW s \in Syncs, NEW sync \in SyncRow, SyncGoes(s, sync),
           UNCHANGED <<now, sub, updatedAt, provisioned>>,
           sync.event <= updatedAt, sync.copy.of <= updatedAt,
           sync.at \in {"update", "create", "again"} =>
              sync.copy.exists /\ sync.event <= sync.copy.of /\ SaysWhatClerkSays(sync.copy),
           sync.at = "again" => projection'.exists,
           projection' \in ProjectionRow, projection'.of <= updatedAt, projection.of <= projection'.of,
           projection'.exists \/ projection' = projection, SaysWhatClerkSays(projection'),
           NEW more \in SUBSET (1 .. updatedAt), answered' = answered \cup more,
           \A e \in more : projection'.exists /\ e <= projection'.of
    PROVE  PlanIInv'
<1>1. /\ syncs \in [Syncs -> SyncRow] /\ updatedAt \in Nat
      /\ answered \subseteq 1 .. updatedAt /\ projection.of \in Nat /\ projection'.of \in Nat
  BY PlanSyncAssumption DEF PlanIInv, PlanTypeOK, SyncRow, ProjectionRow
<1>2. /\ syncs' = [syncs EXCEPT ![s] = sync] /\ syncs' \in [Syncs -> SyncRow]
      /\ syncs'[s] = sync /\ \A u \in Syncs : u # s => syncs'[u] = syncs[u]
  BY <1>1 DEF SyncGoes
<1>3. PlanTypeOK'
  BY <1>1, <1>2 DEF PlanIInv, PlanTypeOK, SyncRow
<1>4. SyncsAreTrue'
  <2>1. ASSUME NEW u \in Syncs
        PROVE  /\ syncs'[u].event <= updatedAt /\ syncs'[u].copy.of <= updatedAt
               /\ syncs'[u].at \in {"update", "create", "again"} =>
                     /\ syncs'[u].copy.exists /\ syncs'[u].event <= syncs'[u].copy.of
                     /\ SaysWhatClerkSays(syncs[u].copy) \/ u = s
               /\ syncs'[u].at = "again" => projection'.exists
    BY <1>2, <2>1 DEF PlanIInv, SyncsAreTrue
  <2>2. ASSUME NEW u \in Syncs, syncs'[u].at \in {"update", "create", "again"}
        PROVE  SaysWhatClerkSays(syncs[u].copy)' \/ u = s
    BY <2>1, <2>2, <1>2 DEF SaysWhatClerkSays
  <2> QED
    BY <1>2, <2>1, <2>2 DEF SyncsAreTrue, SaysWhatClerkSays
<1>5. RowIsTrue'
  <2>1. \A e \in answered : projection'.exists /\ e <= projection'.of
    BY <1>1 DEF PlanIInv, RowIsTrue
  <2> QED
    BY <1>1, <2>1 DEF PlanIInv, RowIsTrue, SaysWhatClerkSays
<1> QED
  BY <1>3, <1>4, <1>5 DEF PlanIInv

\* A sync that does not write the row.
LEMMA SyncWaits ==
    ASSUME PlanIInv, NEW s \in Syncs, NEW sync \in SyncRow, SyncGoes(s, sync),
           UNCHANGED <<now, sub, updatedAt, provisioned, projection, answered>>,
           sync.event <= updatedAt, sync.copy.of <= updatedAt,
           sync.at \in {"update", "create", "again"} =>
              sync.copy.exists /\ sync.event <= sync.copy.of /\ SaysWhatClerkSays(sync.copy),
           sync.at = "again" => projection.exists
    PROVE  PlanIInv'
<1>1. /\ projection' \in ProjectionRow /\ projection'.of <= updatedAt
      /\ projection.of <= projection'.of /\ SaysWhatClerkSays(projection')
      /\ answered' = answered \cup {} /\ {} \in SUBSET (1 .. updatedAt)
  BY PlanSyncAssumption DEF PlanIInv, PlanTypeOK, RowIsTrue, ProjectionRow
<1> QED
  BY <1>1, SyncKeeps

LEMMA SyncsTyped ==
    ASSUME PlanIInv, NEW s \in Syncs
    PROVE  /\ syncs[s] \in SyncRow /\ syncs[s].copy \in ProjectionRow /\ syncs[s].event \in Nat
           /\ syncs[s].copy.of \in Nat /\ updatedAt \in Nat /\ projection.of \in Nat
           /\ syncs[s].event <= updatedAt /\ syncs[s].copy.of <= updatedAt
           /\ projection \in ProjectionRow /\ now \in 0 .. PlanHorizon
           /\ syncs[s].event \in 0 .. MaxChanges /\ MaxChanges \in Nat /\ updatedAt \in 0 .. MaxChanges
<1>1. syncs \in [Syncs -> SyncRow]
  BY DEF PlanIInv, PlanTypeOK, SyncRow
<1>2. syncs[s] \in SyncRow
  BY <1>1
<1> QED
  BY <1>2, PlanSyncAssumption DEF PlanIInv, PlanTypeOK, SyncsAreTrue, SyncRow, ProjectionRow

\* A webhook that the row has answered already needs no sync.
LEMMA BeginsKeepPlan ==
    ASSUME PlanIInv, NEW s \in Syncs, BeginWebhook(s) \/ BeginRefresh(s) \/ BeginFree(s)
    PROVE  PlanIInv'
<1>1. /\ UNCHANGED <<now, sub, updatedAt, provisioned, projection>>
      /\ updatedAt \in Nat /\ updatedAt \in 0 .. MaxChanges /\ MaxChanges \in Nat
      /\ projection \in ProjectionRow /\ projection.of \in Nat /\ now \in 0 .. PlanHorizon
  BY SyncsTyped DEF BeginWebhook, BeginRefresh, BeginFree
<1>2. CASE BeginWebhook(s)
  <2>1. PICK e \in 1 .. updatedAt :
            \/ projection.exists /\ projection.of >= e /\ answered' = answered \cup {e} /\ UNCHANGED syncs
            \/ SyncGoes(s, [NoSync EXCEPT !.at = "fetch", !.event = e]) /\ UNCHANGED answered
    BY <1>2 DEF BeginWebhook
  <2>2. CASE projection.exists /\ projection.of >= e /\ answered' = answered \cup {e} /\ UNCHANGED syncs
    <3>1. SyncsAreTrue' /\ PlanTypeOK'
      BY <1>1, <2>1, <2>2 DEF PlanIInv, PlanTypeOK, SyncsAreTrue, SaysWhatClerkSays
    <3>2. RowIsTrue'
      BY <1>1, <2>1, <2>2 DEF PlanIInv, RowIsTrue, SaysWhatClerkSays
    <3> QED
      BY <3>1, <3>2 DEF PlanIInv
  <2>3. CASE SyncGoes(s, [NoSync EXCEPT !.at = "fetch", !.event = e]) /\ UNCHANGED answered
    <3> DEFINE sync == [NoSync EXCEPT !.at = "fetch", !.event = e]
    <3>1. e \in 0 .. MaxChanges /\ e <= updatedAt /\ 0 <= updatedAt
      BY <1>1
    <3>2. /\ sync \in SyncRow /\ sync.at = "fetch" /\ sync.event = e /\ sync.copy.of = 0
      BY <3>1, NoSyncTyped DEF SyncRow, NoSync, NoProjection
    <3>3. SyncGoes(s, sync) /\ UNCHANGED answered
      BY <2>3
    <3> HIDE DEF sync
    <3> QED
      BY <1>1, <3>1, <3>2, <3>3, SyncWaits
  <2> QED
    BY <2>1, <2>2, <2>3
<1>3. CASE BeginRefresh(s)
  <2> DEFINE sync == [NoSync EXCEPT !.at = "fetch"]
  <2>1. /\ sync \in SyncRow /\ sync.at = "fetch" /\ sync.event = 0 /\ sync.copy.of = 0
    BY NoSyncTyped DEF SyncRow, NoSync, NoProjection
  <2>2. SyncGoes(s, sync) /\ UNCHANGED answered
    BY <1>3 DEF BeginRefresh
  <2> HIDE DEF sync
  <2> QED
    BY <1>1, <2>1, <2>2, SyncWaits
<1>4. CASE BeginFree(s)
  <2> DEFINE sync == [NoSync EXCEPT !.at = "update", !.copy = ProjectionOf(FALSE, "free", 0, 0)]
  <2>1. 0 \in 0 .. MaxChanges /\ 0 <= updatedAt
    BY <1>1
  <2>2. ProjectionOf(FALSE, "free", 0, 0) \in ProjectionRow
    BY <1>1, <2>1 DEF ProjectionOf, ProjectionRow
  <2>3. /\ sync \in SyncRow /\ sync.at = "update" /\ sync.event = 0
        /\ sync.copy = ProjectionOf(FALSE, "free", 0, 0)
    BY <2>2, NoSyncTyped DEF SyncRow, NoSync
  <2>4. /\ sync.copy.of = 0 /\ sync.copy.exists /\ ~sync.copy.paid /\ sync.copy.state = "free"
    BY <2>3 DEF ProjectionOf
  <2>5. SyncGoes(s, sync) /\ UNCHANGED answered
    BY <1>4 DEF BeginFree
  <2> HIDE DEF sync
  <2>6. SaysWhatClerkSays(sync.copy)
    BY <2>4 DEF SaysWhatClerkSays, PlanIInv, RowIsTrue, NoPaidItem
  <2>7. /\ sync.event <= updatedAt /\ sync.copy.of <= updatedAt /\ sync.event <= sync.copy.of
        /\ sync.at # "again"
    <3>1. sync.at = "update" /\ sync.event = 0
      BY <2>3
    <3>2. sync.copy.of = 0
      BY <2>4
    <3> QED
      BY <2>1, <3>1, <3>2
  <2> QED
    BY <1>1, <2>3, <2>4, <2>5, <2>6, <2>7, SyncWaits
<1> QED
  BY <1>2, <1>3, <1>4

LEMMA FetchKeepsPlan ==
    ASSUME PlanIInv, NEW s \in Syncs, FetchSubscription(s)
    PROVE  PlanIInv'
<1> DEFINE sync == [syncs[s] EXCEPT !.at = "update", !.copy = NormalizedBilling(sub, now, updatedAt)]
<1>1. /\ UNCHANGED <<now, sub, updatedAt, provisioned, projection, answered>> /\ SyncGoes(s, sync)
      /\ syncs[s] \in SyncRow /\ syncs[s].event <= updatedAt /\ updatedAt \in Nat
  BY SyncsTyped DEF FetchSubscription
<1>2. /\ sync \in SyncRow /\ sync.at = "update" /\ sync.event = syncs[s].event
      /\ sync.copy = NormalizedBilling(sub, now, updatedAt)
  BY <1>1, NormalizedIs DEF SyncRow
<1> HIDE DEF sync
<1>3. sync.copy.of = updatedAt /\ sync.copy.exists /\ SaysWhatClerkSays(sync.copy)
  BY <1>2, NormalizedIs
<1> QED
  BY <1>1, <1>2, <1>3, SyncWaits

\* The row is written, unless it is newer, and the webhook answered either way.
LEMMA WriteKeepsPlan ==
    ASSUME PlanIInv, NEW s \in Syncs, syncs[s].at \in {"update", "create", "again"},
           \/ /\ projection' = Rewritten(syncs[s].copy)
              /\ ~projection.exists \/ projection.of <= syncs[s].copy.of
           \/ projection' = projection /\ projection.exists /\ syncs[s].copy.of <= projection.of,
           SyncGoes(s, NoSync), answered' = Answered(s), UNCHANGED <<now, sub, updatedAt, provisioned>>
    PROVE  PlanIInv'
<1> DEFINE more == IF syncs[s].event = 0 THEN {} ELSE {syncs[s].event}
<1>1. /\ syncs[s].copy \in ProjectionRow /\ syncs[s].copy.exists /\ SaysWhatClerkSays(syncs[s].copy)
      /\ syncs[s].event \in Nat /\ syncs[s].copy.of \in Nat /\ updatedAt \in Nat
      /\ syncs[s].event <= syncs[s].copy.of /\ syncs[s].copy.of <= updatedAt
      /\ syncs[s].event <= updatedAt
      /\ projection \in ProjectionRow /\ projection.of \in Nat /\ now \in 0 .. PlanHorizon
  BY SyncsTyped DEF PlanIInv, SyncsAreTrue
<1>2. /\ answered' = answered \cup more /\ more \in SUBSET (1 .. updatedAt)
      /\ \A e \in more : e = syncs[s].event
  BY <1>1 DEF Answered
<1> HIDE DEF more
<1>3. NoSync \in SyncRow /\ NoSync.at = "none" /\ NoSync.event = 0 /\ NoSync.copy.of = 0
  BY NoSyncTyped DEF NoSync, NoProjection
<1>4. CASE /\ projection' = Rewritten(syncs[s].copy)
           /\ ~projection.exists \/ projection.of <= syncs[s].copy.of
  <2>1. /\ projection' \in ProjectionRow /\ projection'.exists = syncs[s].copy.exists
        /\ projection'.paid = syncs[s].copy.paid /\ projection'.state = syncs[s].copy.state
        /\ projection'.end = syncs[s].copy.end /\ projection'.of = syncs[s].copy.of
    BY <1>1, <1>4 DEF Rewritten, ProjectionRow
  <2>2. SaysWhatClerkSays(projection')
    BY <1>1, <2>1 DEF SaysWhatClerkSays
  <2>3. CASE projection.of <= syncs[s].copy.of
    BY <1>1, <1>2, <1>3, <2>1, <2>2, <2>3, SyncKeeps
  <2>4. CASE ~projection.exists
    <3>1. projection.of = 0 /\ 0 <= syncs[s].copy.of
      BY <1>1, <2>4 DEF PlanIInv, RowIsTrue
    <3> QED
      BY <2>3, <3>1
  <2> QED
    BY <1>4, <2>3, <2>4
<1>5. CASE projection' = projection /\ projection.exists /\ syncs[s].copy.of <= projection.of
  <2>1. /\ projection' \in ProjectionRow /\ projection'.of <= updatedAt
        /\ projection.of <= projection'.of /\ SaysWhatClerkSays(projection')
    BY <1>1, <1>5 DEF PlanIInv, RowIsTrue
  <2>2. \A e \in more : projection'.exists /\ e <= projection'.of
    BY <1>1, <1>2, <1>5
  <2> QED
    BY <1>1, <1>2, <1>3, <1>5, <2>1, <2>2, SyncKeeps
<1> QED
  BY <1>4, <1>5

\* The three statements of a write, each of which may find the row another sync made.
LEMMA StatementsKeepPlan ==
    ASSUME PlanIInv, NEW s \in Syncs, UpdateProjection(s) \/ CreateProjection(s) \/ UpdateAfterAll(s)
    PROVE  PlanIInv'
<1>1. /\ UNCHANGED <<now, sub, updatedAt, provisioned>> /\ syncs[s].at \in {"update", "create", "again"}
      /\ syncs[s] \in SyncRow /\ syncs[s].event <= updatedAt /\ syncs[s].copy.of <= updatedAt
      /\ syncs[s].copy.of \in Nat /\ projection.of \in Nat
  BY SyncsTyped DEF UpdateProjection, CreateProjection, UpdateAfterAll
<1>2. /\ syncs[s].copy.exists /\ syncs[s].event <= syncs[s].copy.of
      /\ SaysWhatClerkSays(syncs[s].copy) /\ (syncs[s].at = "again" => projection.exists)
  BY <1>1 DEF PlanIInv, SyncsAreTrue
<1>3. ASSUME NEW at \in {"create", "again"}, at = "again" => projection.exists,
             SyncGoes(s, [syncs[s] EXCEPT !.at = at]), UNCHANGED <<projection, answered>>
      PROVE  PlanIInv'
  <2> DEFINE sync == [syncs[s] EXCEPT !.at = at]
  <2>1. /\ sync \in SyncRow /\ sync.at = at /\ sync.event = syncs[s].event
        /\ sync.copy = syncs[s].copy
    BY <1>1 DEF SyncRow
  <2>2. SyncGoes(s, sync)
    BY <1>3
  <2> HIDE DEF sync
  <2> QED
    BY <1>1, <1>2, <1>3, <2>1, <2>2, SyncWaits
<1>4. CASE UpdateProjection(s)
  <2>1. CASE projection.exists /\ NotNewer(projection, syncs[s].copy)
    <3>1. /\ projection' = Rewritten(syncs[s].copy) /\ SyncGoes(s, NoSync) /\ answered' = Answered(s)
          /\ projection.of <= syncs[s].copy.of
      BY <1>4, <2>1 DEF UpdateProjection, NotNewer
    <3> QED
      BY <1>1, <3>1, WriteKeepsPlan
  <2>2. CASE ~(projection.exists /\ NotNewer(projection, syncs[s].copy))
    BY <1>3, <1>4, <2>2 DEF UpdateProjection
  <2> QED
    BY <2>1, <2>2
<1>5. CASE CreateProjection(s)
  <2>1. CASE projection.exists
    BY <1>3, <1>5, <2>1 DEF CreateProjection
  <2>2. CASE ~projection.exists
    <3>1. projection' = Rewritten(syncs[s].copy) /\ SyncGoes(s, NoSync) /\ answered' = Answered(s)
      BY <1>5, <2>2 DEF CreateProjection
    <3> QED
      BY <1>1, <2>2, <3>1, WriteKeepsPlan
  <2> QED
    BY <2>1, <2>2
<1>6. CASE UpdateAfterAll(s)
  <2>1. SyncGoes(s, NoSync) /\ answered' = Answered(s) /\ projection.exists
    BY <1>2, <1>6 DEF UpdateAfterAll
  <2>2. CASE NotNewer(projection, syncs[s].copy)
    <3>1. projection' = Rewritten(syncs[s].copy) /\ projection.of <= syncs[s].copy.of
      BY <1>6, <2>2 DEF UpdateAfterAll, NotNewer
    <3> QED
      BY <1>1, <2>1, <3>1, WriteKeepsPlan
  <2>3. CASE ~NotNewer(projection, syncs[s].copy)
    <3>1. projection' = projection /\ syncs[s].copy.of <= projection.of
      BY <1>1, <1>6, <2>3 DEF UpdateAfterAll, NotNewer
    <3> QED
      BY <1>1, <2>1, <3>1, WriteKeepsPlan
  <2> QED
    BY <2>2, <2>3
<1> QED
  BY <1>4, <1>5, <1>6

LEMMA FailsKeepPlan ==
    ASSUME PlanIInv, NEW s \in Syncs, SyncFails(s)
    PROVE  PlanIInv'
<1>1. /\ SyncGoes(s, NoSync) /\ UNCHANGED <<now, sub, updatedAt, provisioned, projection, answered>>
      /\ 0 <= updatedAt
  BY SyncsTyped DEF SyncFails
<1>2. NoSync \in SyncRow /\ NoSync.at = "none" /\ NoSync.event = 0 /\ NoSync.copy.of = 0
  BY NoSyncTyped DEF NoSync, NoProjection
<1> QED
  BY <1>1, <1>2, SyncWaits

LEMMA PlanKeepsInvariant == PlanIInv /\ [PlanNext]_planVars => PlanIInv'
<1> SUFFICES ASSUME PlanIInv, [PlanNext]_planVars PROVE PlanIInv'
  OBVIOUS
<1>1. CASE PlanTick \/ ChangeSubscription \/ ProvisionOrganization
  BY <1>1, ClerkKeepsPlan
<1>2. ASSUME NEW s \in Syncs,
             \/ BeginWebhook(s) \/ BeginRefresh(s) \/ BeginFree(s) \/ FetchSubscription(s)
             \/ UpdateProjection(s) \/ CreateProjection(s) \/ UpdateAfterAll(s) \/ SyncFails(s)
      PROVE  PlanIInv'
  BY <1>2, BeginsKeepPlan, FetchKeepsPlan, StatementsKeepPlan, FailsKeepPlan, Zenon
<1>3. CASE UNCHANGED planVars
  BY <1>3 DEF planVars, PlanIInv, PlanTypeOK, SyncsAreTrue, RowIsTrue, SaysWhatClerkSays
<1> QED
  BY <1>1, <1>2, <1>3, Zenon DEF PlanNext

\* Whatever the order of Clerk's webhooks and however the statements of their syncs mix,
\* the row of the last change grants no more than the subscription, and a change that was
\* answered has reached it.
THEOREM ThePlanFollowsClerk == PlanSpec => []PlanInv
<1>1. PlanSpec => []PlanIInv
  BY PlanInitially, PlanKeepsInvariant, PTL DEF PlanSpec
<1> QED
  BY <1>1, PlanInvFollows, PTL

-----------------------------------------------------------------------------
(* Purchases.  An amount goes with its price wherever it is kept; a        *)
(* customer that is being made is the one of the key; and while no price   *)
(* is active, some run has one to make.                                    *)

PriceRow == [amount : Amounts, active : BOOLEAN]

Run == [at : {"none", "list", "deactivate", "create", "write"}, wants : Amounts \cup {NoAmount},
        old : SUBSET Nat, price : Nat]

Checkout == [at : {"none", "price", "list", "cache", "wallet", "mint", "bind", "session"},
             price : Nat, amount : Amounts \cup {NoAmount}, customer : Nat]

PurchaseRows ==
    /\ \E n \in Nat : prices \in [1 .. n -> PriceRow]
    /\ runs \in [PriceRuns -> Run]
    /\ \A r \in PriceRuns : /\ runs[r].old \subseteq Made
                            /\ runs[r].at \in {"list", "deactivate", "create", "write"} =>
                                  runs[r].wants \in Amounts
    /\ checkouts \in [Buyers -> Checkout]
    /\ begun \in 0 .. MaxCheckouts /\ deaths \in 0 .. MaxDeaths
    /\ customers \in Nat /\ keyed \in 0 .. customers /\ wallet \in 0 .. customers

\* The amount of a price that was made.
Priced(price, amount) == price \in Made /\ amount = prices[price].amount

AmountsMatch ==
    /\ pack.price = 0 \/ Priced(pack.price, pack.amount)
    /\ \A r \in PriceRuns : runs[r].at = "write" => Priced(runs[r].price, runs[r].wants)
    /\ \A b \in Buyers :
          IF checkouts[b].at = "none" THEN checkouts[b].price = 0
          ELSE Priced(checkouts[b].price, checkouts[b].amount)
    /\ \A s \in sold : Priced(s.price, s.amount)

CustomersMatch ==
    /\ \A b \in Buyers :
          /\ checkouts[b].at = "session" => checkouts[b].customer = wallet /\ wallet # 0
          /\ checkouts[b].at = "bind" => checkouts[b].customer = keyed /\ keyed # 0
          /\ checkouts[b].at \in {"mint", "bind"} /\ wallet # 0 => keyed = wallet
    /\ \A s \in sold : s.customer = wallet /\ wallet # 0

APriceIsComing ==
    deaths = 0 /\ Made # {} /\ ActivePrices = {} =>
       \E r \in PriceRuns : runs[r].at \in {"deactivate", "create"}

PurchasesIInv == PurchaseRows /\ AmountsMatch /\ CustomersMatch /\ APriceIsComing

LEMMA NothingBought ==
    /\ NoRun \in Run /\ NoRun.at = "none" /\ NoRun.old = {} /\ NoRun.price = 0
    /\ NoCheckout \in Checkout /\ NoCheckout.at = "none" /\ NoCheckout.price = 0
  BY DEF NoRun, NoCheckout, Run, Checkout

LEMMA PurchasesInitially == PurchasesInit => PurchasesIInv
<1> SUFFICES ASSUME PurchasesInit PROVE PurchasesIInv
  OBVIOUS
<1>1. prices \in [1 .. 0 -> PriceRow] /\ Made = {}
  BY DEF PurchasesInit, Made
<1>2. 0 \in 0 .. MaxCheckouts /\ 0 \in 0 .. MaxDeaths /\ 0 \in 0 .. 0 /\ 0 \in Nat
  BY PurchasesAssumption
<1>3. PurchaseRows
  <2>1. \E n \in Nat : prices \in [1 .. n -> PriceRow]
    BY <1>1, <1>2
  <2> QED
    BY <1>2, <2>1, NothingBought DEF PurchaseRows, PurchasesInit
<1>4. AmountsMatch /\ CustomersMatch /\ APriceIsComing
  BY <1>1, NothingBought
     DEF AmountsMatch, CustomersMatch, APriceIsComing, PurchasesInit
<1> QED
  BY <1>3, <1>4 DEF PurchasesIInv

LEMMA PricesAre ==
    ASSUME PurchaseRows
    PROVE  /\ \A p \in Made : prices[p] \in PriceRow /\ p \in Nat \ {0}
           /\ Made \subseteq Nat
  BY DEF PurchaseRows, Made

LEMMA PurchasesInvFollows == PurchasesIInv => PurchasesInv
<1> SUFFICES ASSUME PurchasesIInv PROVE PurchasesInv
  OBVIOUS
<1>1. PurchaseRows /\ AmountsMatch /\ CustomersMatch /\ APriceIsComing
  BY DEF PurchasesIInv
<1>2. PurchasesTypeOK
  <2>1. \A p \in Made : prices[p] \in [amount : Amounts, active : BOOLEAN]
    BY <1>1, PricesAre DEF PriceRow
  <2>2. pack.price \in Made \cup {0}
    BY <1>1 DEF AmountsMatch, Priced
  <2>3. \A r \in PriceRuns : /\ runs[r].at \in {"none", "list", "deactivate", "create", "write"}
                             /\ runs[r].old \subseteq Made
    BY <1>1 DEF PurchaseRows, Run
  <2>4. \A b \in Buyers :
           /\ checkouts[b].at \in {"none", "price", "list", "cache", "wallet", "mint", "bind", "session"}
           /\ checkouts[b].price \in Made \cup {0}
    BY <1>1 DEF PurchaseRows, AmountsMatch, Priced, Checkout
  <2> QED
    BY <1>1, <2>1, <2>2, <2>3, <2>4 DEF PurchaseRows, PurchasesTypeOK
<1>3. AmountIsThePrice
  BY <1>1 DEF AmountsMatch, Priced, AmountIsThePrice
<1>4. OneCustomer
  BY <1>1 DEF CustomersMatch, OneCustomer
<1>5. PackStaysPurchasable
  BY <1>1, NothingBought DEF APriceIsComing, PackStaysPurchasable
<1> QED
  BY <1>2, <1>3, <1>4, <1>5 DEF PurchasesInv

\* A set of prices has a newest one.
LEMMA Newest ==
    ASSUME PurchaseRows, ActivePrices # {}
    PROVE  Max(ActivePrices) \in ActivePrices
<1>1. PICK n \in Nat : prices \in [1 .. n -> PriceRow]
  BY DEF PurchaseRows
<1>2. ActivePrices \subseteq 1 .. n
  BY <1>1 DEF ActivePrices, Made
<1> DEFINE T == {x .. n : x \in ActivePrices}
           R == StrictSubsetOrdering(Nat)
<1>3. IsWellFoundedOn(R, FiniteSubsetsOf(Nat))
  BY FS_StrictSubsetOrderingWellFounded
<1>4. T \subseteq FiniteSubsetsOf(Nat) /\ T # {}
  <2>1. ASSUME NEW x \in ActivePrices
        PROVE  IsFiniteSet(x .. n) /\ x .. n \subseteq Nat
    <3>1. x \in Int /\ n \in Int /\ x .. n \subseteq Nat
      BY <1>2
    <3> QED
      BY <3>1, FS_Interval
  <2> QED
    BY <2>1 DEF FiniteSubsetsOf
<1> HIDE DEF T, R
<1>5. PICK m \in T : \A k \in T : ~(<<k, m>> \in R)
  BY <1>3, <1>4, WFMin
<1>6. PICK x \in ActivePrices : m = x .. n
  BY <1>5 DEF T
<1>7. ASSUME NEW y \in ActivePrices, y > x
      PROVE  FALSE
  <2>1. (y .. n) \subseteq (x .. n) /\ x \in x .. n /\ x \notin y .. n /\ x .. n \subseteq Nat
    BY <1>2, <1>7
  <2>2. <<y .. n, m>> \in R
    BY <1>6, <2>1 DEF R, StrictSubsetOrdering
  <2> QED
    BY <1>5, <2>2 DEF T
<1>8. \A y \in ActivePrices : x >= y
  BY <1>2, <1>7
<1> QED
  BY <1>8 DEF Max

\* A run's step that changes no price.
LEMMA RunKeeps ==
    ASSUME PurchasesIInv, NEW r \in PriceRuns, NEW run \in Run, runs' = [runs EXCEPT ![r] = run],
           UNCHANGED <<prices, customers, keyed, wallet, checkouts, begun, sold>>,
           UNCHANGED pack \/ Priced(pack'.price, pack'.amount),
           deaths' \in 0 .. MaxDeaths, deaths' = deaths \/ deaths' # 0,
           run.old \subseteq Made,
           run.at \in {"list", "deactivate", "create", "write"} => run.wants \in Amounts,
           run.at = "write" => Priced(run.price, run.wants),
           runs[r].at \in {"deactivate", "create"} /\ deaths' = deaths =>
              run.at \in {"deactivate", "create"}
    PROVE  PurchasesIInv'
<1>1. PurchaseRows /\ AmountsMatch /\ CustomersMatch /\ APriceIsComing /\ runs \in [PriceRuns -> Run]
  BY DEF PurchasesIInv, PurchaseRows
<1>2. /\ Made' = Made /\ ActivePrices' = ActivePrices
      /\ runs' \in [PriceRuns -> Run] /\ runs'[r] = run
      /\ \A q \in PriceRuns : q # r => runs'[q] = runs[q]
  BY <1>1 DEF Made, ActivePrices
<1>3. PurchaseRows'
  BY <1>1, <1>2 DEF PurchaseRows
<1>4. AmountsMatch'
  BY <1>1, <1>2 DEF AmountsMatch, Priced
<1>5. CustomersMatch'
  BY <1>1 DEF CustomersMatch
<1>6. APriceIsComing'
  BY <1>1, <1>2 DEF APriceIsComing
<1> QED
  BY <1>3, <1>4, <1>5, <1>6 DEF PurchasesIInv

LEMMA RunsTyped ==
    ASSUME PurchasesIInv, NEW r \in PriceRuns
    PROVE  /\ runs[r] \in Run /\ runs[r].old \subseteq Made /\ deaths \in 0 .. MaxDeaths
           /\ Made \subseteq Nat
           /\ runs[r].at \in {"list", "deactivate", "create", "write"} => runs[r].wants \in Amounts
           /\ runs[r].at = "write" => Priced(runs[r].price, runs[r].wants)
<1>1. PurchaseRows /\ AmountsMatch /\ runs \in [PriceRuns -> Run]
  BY DEF PurchasesIInv, PurchaseRows
<1>2. runs[r] \in Run
  BY <1>1
<1> QED
  BY <1>1, <1>2, PricesAre DEF PurchaseRows, AmountsMatch

\* The script's steps that change no price.
LEMMA RunsKeep ==
    ASSUME PurchasesIInv, NEW r \in PriceRuns,
           BeginRun(r) \/ ListPrices(r) \/ WritePack(r) \/ RunDies(r)
    PROVE  PurchasesIInv'
<1>1. /\ UNCHANGED <<prices, customers, keyed, wallet, checkouts, begun, sold>>
      /\ runs[r] \in Run /\ runs[r].old \subseteq Made /\ deaths \in 0 .. MaxDeaths
      /\ Made \subseteq Nat
      /\ runs[r].at \in {"list", "deactivate", "create", "write"} => runs[r].wants \in Amounts
      /\ runs[r].at = "write" => Priced(runs[r].price, runs[r].wants)
  BY RunsTyped DEF BeginRun, ListPrices, WritePack, RunDies
<1>2. CASE BeginRun(r)
  <2>1. PICK a \in Amounts : runs' = [runs EXCEPT ![r] = [NoRun EXCEPT !.at = "list", !.wants = a]]
    BY <1>2 DEF BeginRun
  <2> DEFINE run == [NoRun EXCEPT !.at = "list", !.wants = a]
  <2>2. run \in Run /\ run.at = "list" /\ run.wants = a /\ run.old = {}
    BY NothingBought DEF Run
  <2>3. runs' = [runs EXCEPT ![r] = run] /\ runs[r].at = "none" /\ UNCHANGED <<pack, deaths>>
    BY <1>2, <2>1, NothingBought DEF BeginRun
  <2> HIDE DEF run
  <2> QED
    BY <1>1, <2>2, <2>3, RunKeeps
<1>3. CASE ListPrices(r)
  <2>1. runs[r].at = "list" /\ UNCHANGED <<pack, deaths>> /\ runs[r].wants \in Amounts
    BY <1>1, <1>3 DEF ListPrices
  <2>2. \/ \E p \in ActivePrices : /\ prices[p].amount = runs[r].wants
                                   /\ runs' = [runs EXCEPT ![r].at = "write", ![r].price = p]
        \/ \E at \in {"create", "deactivate"} :
              runs' = [runs EXCEPT ![r].at = at, ![r].old = ActivePrices]
    BY <1>3 DEF ListPrices
  <2>3. CASE \E p \in ActivePrices : /\ prices[p].amount = runs[r].wants
                                     /\ runs' = [runs EXCEPT ![r].at = "write", ![r].price = p]
    <3>1. PICK p \in ActivePrices : /\ prices[p].amount = runs[r].wants
                                    /\ runs' = [runs EXCEPT ![r].at = "write", ![r].price = p]
      BY <2>3
    <3> DEFINE run == [runs[r] EXCEPT !.at = "write", !.price = p]
    <3>2. p \in Made /\ p \in Nat
      BY <1>1 DEF ActivePrices
    <3>3. /\ run \in Run /\ run.at = "write" /\ run.wants = runs[r].wants
          /\ run.old = runs[r].old /\ run.price = p
      BY <1>1, <3>2 DEF Run
    <3>4. runs' = [runs EXCEPT ![r] = run]
      BY <3>1
    <3> HIDE DEF run
    <3>5. Priced(run.price, run.wants)
      BY <3>1, <3>2, <3>3 DEF Priced
    <3> QED
      BY <1>1, <2>1, <3>3, <3>4, <3>5, RunKeeps
  <2>4. CASE \E at \in {"create", "deactivate"} :
                runs' = [runs EXCEPT ![r].at = at, ![r].old = ActivePrices]
    <3>1. PICK at \in {"create", "deactivate"} :
              runs' = [runs EXCEPT ![r].at = at, ![r].old = ActivePrices]
      BY <2>4
    <3> DEFINE run == [runs[r] EXCEPT !.at = at, !.old = ActivePrices]
    <3>2. ActivePrices \subseteq Made /\ ActivePrices \in SUBSET Nat
      BY <1>1 DEF ActivePrices
    <3>3. /\ run \in Run /\ run.at = at /\ run.wants = runs[r].wants /\ run.old = ActivePrices
      BY <1>1, <3>2 DEF Run
    <3>4. runs' = [runs EXCEPT ![r] = run]
      BY <3>1
    <3> HIDE DEF run
    <3> QED
      BY <1>1, <2>1, <3>2, <3>3, <3>4, RunKeeps
  <2> QED
    BY <2>2, <2>3, <2>4
<1>4. CASE WritePack(r)
  <2>1. /\ runs[r].at = "write" /\ runs' = [runs EXCEPT ![r] = NoRun] /\ UNCHANGED deaths
        /\ pack'.price = runs[r].price /\ pack'.amount = runs[r].wants
    BY <1>4 DEF WritePack
  <2>2. Priced(pack'.price, pack'.amount)
    BY <1>1, <2>1
  <2> QED
    BY <1>1, <2>1, <2>2, NothingBought, RunKeeps
<1>5. CASE RunDies(r)
  <2>1. /\ runs' = [runs EXCEPT ![r] = NoRun] /\ UNCHANGED pack
        /\ deaths < MaxDeaths /\ deaths' = deaths + 1
    BY <1>5 DEF RunDies, Dies
  <2>2. deaths' \in 0 .. MaxDeaths /\ deaths' # 0 /\ deaths' # deaths
    BY <1>1, <2>1, PurchasesAssumption
  <2> QED
    BY <1>1, <2>1, <2>2, NothingBought, RunKeeps
<1> QED
  BY <1>2, <1>3, <1>4, <1>5

\* A step that changes the prices: none is lost, no amount changes.
LEMMA PricesGrow ==
    ASSUME PurchasesIInv, NEW r \in PriceRuns, NEW run \in Run, runs' = [runs EXCEPT ![r] = run],
           UNCHANGED <<pack, customers, keyed, wallet, checkouts, begun, sold, deaths>>,
           NEW m \in Nat, prices' \in [1 .. m -> PriceRow], Made \subseteq 1 .. m,
           \A p \in Made : prices'[p].amount = prices[p].amount,
           run.old \subseteq 1 .. m,
           run.at \in {"list", "deactivate", "create", "write"} => run.wants \in Amounts,
           run.at = "write" => run.price \in 1 .. m /\ run.wants = prices'[run.price].amount,
           run.at \in {"deactivate", "create"} \/ \E p \in 1 .. m : prices'[p].active
    PROVE  PurchasesIInv'
<1>1. PurchaseRows /\ AmountsMatch /\ CustomersMatch /\ APriceIsComing /\ runs \in [PriceRuns -> Run]
  BY DEF PurchasesIInv, PurchaseRows
<1>2. /\ Made' = 1 .. m
      /\ runs' \in [PriceRuns -> Run] /\ runs'[r] = run
      /\ \A q \in PriceRuns : q # r => runs'[q] = runs[q]
  BY <1>1 DEF Made
<1>3. \A price, amount : Priced(price, amount) =>
          price \in 1 .. m /\ amount = prices'[price].amount
  BY DEF Priced
<1>4. PurchaseRows'
  BY <1>1, <1>2 DEF PurchaseRows
<1>5. AmountsMatch'
  <2>1. pack.price = 0 \/ (pack.price \in 1 .. m /\ pack.amount = prices'[pack.price].amount)
    BY <1>1, <1>3 DEF AmountsMatch
  <2>2. \A q \in PriceRuns : runs'[q].at = "write" =>
            runs'[q].price \in 1 .. m /\ runs'[q].wants = prices'[runs'[q].price].amount
    BY <1>1, <1>2, <1>3 DEF AmountsMatch
  <2>3. \A b \in Buyers :
            IF checkouts[b].at = "none" THEN checkouts[b].price = 0
            ELSE /\ checkouts[b].price \in 1 .. m
                 /\ checkouts[b].amount = prices'[checkouts[b].price].amount
    BY <1>1, <1>3 DEF AmountsMatch
  <2>4. \A s \in sold : s.price \in 1 .. m /\ s.amount = prices'[s.price].amount
    BY <1>1, <1>3 DEF AmountsMatch
  <2> QED
    BY <1>2, <2>1, <2>2, <2>3, <2>4 DEF AmountsMatch, Priced
<1>6. CustomersMatch'
  BY <1>1 DEF CustomersMatch
<1>7. APriceIsComing'
  <2>1. CASE run.at \in {"deactivate", "create"}
    BY <1>2, <2>1 DEF APriceIsComing
  <2>2. CASE \E p \in 1 .. m : prices'[p].active
    BY <1>2, <2>2 DEF APriceIsComing, ActivePrices
  <2> QED
    BY <2>1, <2>2
<1> QED
  BY <1>4, <1>5, <1>6, <1>7 DEF PurchasesIInv

LEMMA DeactivateKeeps ==
    ASSUME PurchasesIInv, NEW r \in PriceRuns, DeactivatePrice(r)
    PROVE  PurchasesIInv'
<1>1. PICK n \in Nat : prices \in [1 .. n -> PriceRow]
  BY DEF PurchasesIInv, PurchaseRows
<1>2. /\ runs[r] \in Run /\ runs[r].old \subseteq Made /\ runs[r].at = "deactivate"
      /\ runs[r].wants \in Amounts /\ Made = 1 .. n
  BY <1>1, RunsTyped DEF DeactivatePrice, Made
<1>3. PICK p \in runs[r].old :
          /\ prices' = [prices EXCEPT ![p].active = FALSE]
          /\ runs' = [runs EXCEPT ![r].old = @ \ {p},
                                  ![r].at = IF runs[r].old = {p} THEN "create" ELSE @]
  BY DEF DeactivatePrice
<1>4. PICK at \in {"create", "deactivate"} :
          at = IF runs[r].old = {p} THEN "create" ELSE runs[r].at
  BY <1>2
<1> DEFINE run == [runs[r] EXCEPT !.old = @ \ {p}, !.at = at]
           row == [prices[p] EXCEPT !.active = FALSE]
<1>5. /\ run \in Run /\ run.at = at /\ run.old \subseteq 1 .. n /\ run.wants \in Amounts
      /\ runs' = [runs EXCEPT ![r] = run]
  BY <1>2, <1>3, <1>4 DEF Run
<1>6. /\ row \in PriceRow /\ row.amount = prices[p].amount
      /\ prices' = [prices EXCEPT ![p] = row]
  BY <1>1, <1>2, <1>3 DEF PriceRow
<1> HIDE DEF run, row
<1>7. /\ prices' \in [1 .. n -> PriceRow]
      /\ \A q \in Made : prices'[q].amount = prices[q].amount
  BY <1>1, <1>2, <1>6
<1>8. UNCHANGED <<pack, customers, keyed, wallet, checkouts, begun, sold, deaths>>
  BY DEF DeactivatePrice
<1> QED
  BY <1>2, <1>5, <1>7, <1>8, PricesGrow

LEMMA CreateKeeps ==
    ASSUME PurchasesIInv, NEW r \in PriceRuns, CreatePrice(r)
    PROVE  PurchasesIInv'
<1>1. PICK n \in Nat : prices \in [1 .. n -> PriceRow]
  BY DEF PurchasesIInv, PurchaseRows
<1>2. /\ runs[r] \in Run /\ runs[r].old \subseteq Made /\ runs[r].at = "create"
      /\ runs[r].wants \in Amounts /\ Made = 1 .. n
  BY <1>1, RunsTyped DEF CreatePrice, Made
<1>3. Cardinality(Made) = n
  <2>1. Cardinality(1 .. n) = IF 1 > n THEN 0 ELSE n - 1 + 1
    BY <1>1, FS_Interval
  <2> QED
    BY <1>2, <2>1
<1> DEFINE p == n + 1
           run == [runs[r] EXCEPT !.at = "write", !.price = p]
           row == [amount |-> runs[r].wants, active |-> TRUE]
<1>4. /\ prices' = [q \in Made \cup {p} |-> IF q = p THEN row ELSE prices[q]]
      /\ runs' = [runs EXCEPT ![r].at = "write", ![r].price = p]
      /\ UNCHANGED <<pack, customers, keyed, wallet, checkouts, begun, sold, deaths>>
  BY <1>3 DEF CreatePrice
<1>5. p \in Nat /\ Made \cup {p} = 1 .. p /\ p \notin Made /\ p \in 1 .. p /\ Made \subseteq 1 .. p
  BY <1>2
<1>6. /\ run \in Run /\ run.at = "write" /\ run.old \subseteq 1 .. p /\ run.wants = runs[r].wants
      /\ run.price = p /\ runs' = [runs EXCEPT ![r] = run]
  BY <1>2, <1>4, <1>5 DEF Run
<1>7. row \in PriceRow /\ row.amount = runs[r].wants /\ row.active
  BY <1>2 DEF PriceRow
<1> HIDE DEF run, row, p
<1>8. /\ prices' \in [1 .. p -> PriceRow] /\ prices'[p] = row
      /\ \A q \in Made : prices'[q].amount = prices[q].amount
  BY <1>1, <1>2, <1>4, <1>5, <1>7
<1>9. /\ run.price \in 1 .. p /\ run.wants = prices'[run.price].amount
      /\ run.wants \in Amounts /\ \E q \in 1 .. p : prices'[q].active
  BY <1>2, <1>5, <1>6, <1>7, <1>8
<1>10. /\ p \in Nat /\ Made \subseteq 1 .. p
       /\ UNCHANGED <<pack, customers, keyed, wallet, checkouts, begun, sold, deaths>>
  BY <1>4, <1>5
<1> QED
  BY <1>6, <1>8, <1>9, <1>10, PricesGrow

LEMMA CheckoutsTyped ==
    ASSUME PurchasesIInv, NEW b \in Buyers
    PROVE  /\ checkouts \in [Buyers -> Checkout] /\ checkouts[b] \in Checkout
           /\ begun \in 0 .. MaxCheckouts /\ deaths \in 0 .. MaxDeaths
           /\ customers \in Nat /\ keyed \in 0 .. customers /\ wallet \in 0 .. customers
           /\ Made \subseteq Nat
           /\ checkouts[b].at # "none" => Priced(checkouts[b].price, checkouts[b].amount)
           /\ pack.price = 0 \/ Priced(pack.price, pack.amount)
           /\ CustomersMatch
<1>1. PurchaseRows /\ AmountsMatch /\ CustomersMatch /\ checkouts \in [Buyers -> Checkout]
  BY DEF PurchasesIInv, PurchaseRows
<1>2. checkouts[b] \in Checkout
  BY <1>1
<1> QED
  BY <1>1, <1>2, PricesAre DEF PurchaseRows, AmountsMatch

\* A price that was made has an amount on the list.
LEMMA PricedIsTyped ==
    ASSUME PurchaseRows, NEW price, NEW amount, Priced(price, amount)
    PROVE  price \in Nat /\ amount \in Amounts
  BY PricesAre DEF Priced, PriceRow

\* A checkout's step: what it knows of the customer is shown apart.
LEMMA CheckoutKeeps ==
    ASSUME PurchasesIInv, NEW b \in Buyers, NEW c \in Checkout,
           checkouts' = [checkouts EXCEPT ![b] = c],
           UNCHANGED <<prices, runs>>,
           UNCHANGED pack \/ Priced(pack'.price, pack'.amount),
           customers' \in Nat, keyed' \in 0 .. customers', wallet' \in 0 .. customers',
           begun' \in 0 .. MaxCheckouts,
           deaths' \in 0 .. MaxDeaths, deaths' = deaths \/ deaths' # 0,
           IF c.at = "none" THEN c.price = 0 ELSE Priced(c.price, c.amount),
           \A s \in sold' : s \in sold \/ Priced(s.price, s.amount),
           CustomersMatch'
    PROVE  PurchasesIInv'
<1>1. /\ PurchaseRows /\ AmountsMatch /\ APriceIsComing
      /\ checkouts \in [Buyers -> Checkout] /\ runs \in [PriceRuns -> Run]
  BY DEF PurchasesIInv, PurchaseRows
<1>2. /\ Made' = Made /\ ActivePrices' = ActivePrices
      /\ checkouts' \in [Buyers -> Checkout] /\ checkouts'[b] = c
      /\ \A d \in Buyers : d # b => checkouts'[d] = checkouts[d]
  BY <1>1 DEF Made, ActivePrices
<1>3. PurchaseRows'
  BY <1>1, <1>2 DEF PurchaseRows
<1>4. AmountsMatch'
  BY <1>1, <1>2 DEF AmountsMatch, Priced
<1>5. APriceIsComing'
  BY <1>1, <1>2 DEF APriceIsComing
<1> QED
  BY <1>3, <1>4, <1>5 DEF PurchasesIInv

\* A step that leaves the organization's customer alone.
LEMMA CustomersKeep ==
    ASSUME CustomersMatch, NEW b \in Buyers, NEW c \in Checkout,
           checkouts \in [Buyers -> Checkout], checkouts' = [checkouts EXCEPT ![b] = c],
           UNCHANGED <<keyed, wallet>>,
           c.at = "session" => c.customer = wallet /\ wallet # 0,
           c.at = "bind" => c.customer = keyed /\ keyed # 0,
           c.at \in {"mint", "bind"} /\ wallet # 0 => keyed = wallet,
           \A s \in sold' : s \in sold \/ (s.customer = wallet /\ wallet # 0)
    PROVE  CustomersMatch'
<1>1. checkouts'[b] = c /\ \A d \in Buyers : d # b => checkouts'[d] = checkouts[d]
  OBVIOUS
<1> QED
  BY <1>1 DEF CustomersMatch

\* A checkout that ends, or fails.
LEMMA CheckoutsEnd ==
    ASSUME PurchasesIInv, NEW b \in Buyers, CreateSession(b) \/ CheckoutDies(b)
    PROVE  PurchasesIInv'
<1> DEFINE c == checkouts[b]
<1>1. /\ checkouts' = [checkouts EXCEPT ![b] = NoCheckout]
      /\ UNCHANGED <<prices, pack, runs, customers, keyed, wallet, begun>>
  BY DEF CreateSession, CheckoutDies
<1>2. deaths' \in 0 .. MaxDeaths /\ (deaths' = deaths \/ deaths' # 0)
  BY CheckoutsTyped, PurchasesAssumption DEF CreateSession, CheckoutDies, Dies
<1>3. \A s \in sold' : \/ s \in sold
                       \/ /\ s.price = c.price /\ s.amount = c.amount /\ s.customer = c.customer
                          /\ c.at = "session"
  BY DEF CreateSession, CheckoutDies
<1>4. /\ \A s \in sold' : s \in sold \/ Priced(s.price, s.amount)
      /\ \A s \in sold' : s \in sold \/ (s.customer = wallet /\ wallet # 0)
  BY <1>3, CheckoutsTyped DEF CustomersMatch
<1>5. CustomersMatch'
  BY <1>1, <1>4, CheckoutsTyped, NothingBought, CustomersKeep
<1> QED
  BY <1>1, <1>2, <1>4, <1>5, CheckoutsTyped, NothingBought, CheckoutKeeps

\* The steps up to the wallet: the pack, its price, another one for it.
LEMMA CheckoutsPrice ==
    ASSUME PurchasesIInv, NEW b \in Buyers,
           ReadPack(b) \/ RetrievePrice(b) \/ ListReplacement(b) \/ CacheReplacement(b)
    PROVE  PurchasesIInv'
<1>1. /\ UNCHANGED <<prices, runs, customers, keyed, wallet, sold, deaths>>
      /\ PurchaseRows
  BY DEF ReadPack, RetrievePrice, ListReplacement, CacheReplacement, PurchasesIInv
<1>2. ASSUME NEW c \in Checkout, checkouts' = [checkouts EXCEPT ![b] = c],
             c.at \notin {"mint", "bind", "session"},
             IF c.at = "none" THEN c.price = 0 ELSE Priced(c.price, c.amount),
             UNCHANGED pack \/ Priced(pack'.price, pack'.amount),
             begun' \in 0 .. MaxCheckouts
      PROVE  PurchasesIInv'
  <2>1. CustomersMatch'
    BY <1>1, <1>2, CheckoutsTyped, CustomersKeep
  <2> QED
    BY <1>1, <1>2, <2>1, CheckoutsTyped, CheckoutKeeps
<1>3. CASE ReadPack(b)
  <2> DEFINE c == [NoCheckout EXCEPT !.at = "price", !.price = pack.price, !.amount = pack.amount]
  <2>1. /\ checkouts' = [checkouts EXCEPT ![b] = c] /\ UNCHANGED pack
        /\ begun < MaxCheckouts /\ begun' = begun + 1
        /\ Priced(pack.price, pack.amount)
    BY <1>3, CheckoutsTyped DEF ReadPack
  <2>2. pack.price \in Nat /\ pack.amount \in Amounts
    BY <1>1, <2>1, PricedIsTyped
  <2>3. c \in Checkout /\ c.at = "price" /\ c.price = pack.price /\ c.amount = pack.amount
    BY <2>2, NothingBought DEF Checkout
  <2>4. begun' \in 0 .. MaxCheckouts
    BY <2>1, CheckoutsTyped, PurchasesAssumption
  <2> HIDE DEF c
  <2> QED
    BY <1>2, <2>1, <2>3, <2>4
<1>4. CASE RetrievePrice(b)
  <2>1. PICK at \in {"wallet", "list"} :
            at = IF prices[checkouts[b].price].active THEN "wallet" ELSE "list"
    OBVIOUS
  <2> DEFINE c == [checkouts[b] EXCEPT !.at = at]
  <2>2. /\ checkouts' = [checkouts EXCEPT ![b] = c] /\ UNCHANGED <<pack, begun>>
        /\ checkouts[b].at = "price"
    BY <1>4, <2>1 DEF RetrievePrice
  <2>3. c \in Checkout /\ c.at = at /\ c.price = checkouts[b].price /\ c.amount = checkouts[b].amount
    BY CheckoutsTyped DEF Checkout
  <2> HIDE DEF c
  <2> QED
    BY <1>2, <2>1, <2>2, <2>3, CheckoutsTyped
<1>5. CASE ListReplacement(b)
  <2>1. UNCHANGED <<pack, begun>>
    BY <1>5 DEF ListReplacement
  <2>2. CASE ActivePrices = {}
    BY <1>2, <1>5, <2>1, <2>2, CheckoutsTyped, NothingBought DEF ListReplacement
  <2>3. CASE ActivePrices # {}
    <3>1. PICK p \in ActivePrices : p = Max(ActivePrices)
      BY <1>1, <2>3, Newest
    <3> DEFINE c == Replacement(checkouts[b], p)
    <3>2. checkouts' = [checkouts EXCEPT ![b] = c]
      BY <1>5, <2>3, <3>1 DEF ListReplacement
    <3>3. Priced(p, prices[p].amount) /\ p \in Nat /\ prices[p].amount \in Amounts
      BY <1>1, PricesAre DEF Priced, ActivePrices, PriceRow
    <3>4. c \in Checkout /\ c.at = "cache" /\ c.price = p /\ c.amount = prices[p].amount
      BY <3>3, CheckoutsTyped DEF Checkout, Replacement
    <3> HIDE DEF c
    <3> QED
      BY <1>2, <2>1, <3>2, <3>3, <3>4, CheckoutsTyped
  <2> QED
    BY <2>2, <2>3
<1>6. CASE CacheReplacement(b)
  <2> DEFINE c == [checkouts[b] EXCEPT !.at = "wallet"]
  <2>1. /\ checkouts' = [checkouts EXCEPT ![b] = c] /\ UNCHANGED begun
        /\ checkouts[b].at = "cache"
        /\ pack'.price = checkouts[b].price /\ pack'.amount = checkouts[b].amount
    BY <1>6 DEF CacheReplacement
  <2>2. /\ c \in Checkout /\ c.at = "wallet"
        /\ c.price = checkouts[b].price /\ c.amount = checkouts[b].amount
    BY CheckoutsTyped DEF Checkout
  <2> HIDE DEF c
  <2> QED
    BY <1>2, <2>1, <2>2, CheckoutsTyped
<1> QED
  BY <1>3, <1>4, <1>5, <1>6

\* The steps about the customer.
LEMMA CheckoutsFindTheCustomer ==
    ASSUME PurchasesIInv, NEW b \in Buyers, ReadWallet(b) \/ MintCustomer(b) \/ BindCustomer(b)
    PROVE  PurchasesIInv'
<1>1. UNCHANGED <<prices, pack, runs, begun, sold, deaths>> /\ checkouts[b].at # "none"
  BY DEF ReadWallet, MintCustomer, BindCustomer
<1>2. ASSUME NEW c \in Checkout, checkouts' = [checkouts EXCEPT ![b] = c],
             c.at # "none", c.price = checkouts[b].price, c.amount = checkouts[b].amount,
             customers' \in Nat, keyed' \in 0 .. customers', wallet' \in 0 .. customers',
             CustomersMatch'
      PROVE  PurchasesIInv'
  BY <1>1, <1>2, CheckoutsTyped, CheckoutKeeps
<1>3. CASE ReadWallet(b)
  <2>1. PICK at \in {"session", "mint"} : at = IF wallet # 0 THEN "session" ELSE "mint"
    OBVIOUS
  <2> DEFINE c == [checkouts[b] EXCEPT !.at = at, !.customer = wallet]
  <2>2. /\ checkouts' = [checkouts EXCEPT ![b] = c] /\ UNCHANGED <<customers, keyed, wallet>>
    BY <1>3, <2>1 DEF ReadWallet
  <2>3. /\ c \in Checkout /\ c.at = at /\ c.customer = wallet
        /\ c.price = checkouts[b].price /\ c.amount = checkouts[b].amount
    <3>1. wallet \in Nat /\ checkouts[b] \in Checkout
      BY CheckoutsTyped
    <3> QED
      BY <3>1 DEF Checkout
  <2> HIDE DEF c
  <2>4. CustomersMatch'
    BY <1>1, <2>1, <2>2, <2>3, CheckoutsTyped, CustomersKeep
  <2> QED
    BY <1>2, <2>1, <2>2, <2>3, <2>4, CheckoutsTyped
<1>4. CASE MintCustomer(b)
  <2>1. PICK k \in Nat, n \in Nat : /\ n = IF keyed = 0 THEN customers + 1 ELSE customers
                                    /\ k = IF keyed = 0 THEN customers + 1 ELSE keyed
    BY CheckoutsTyped
  <2> DEFINE c == [checkouts[b] EXCEPT !.at = "bind", !.customer = k]
  <2>2. /\ checkouts' = [checkouts EXCEPT ![b] = c] /\ UNCHANGED wallet
        /\ customers' = n /\ keyed' = k /\ checkouts[b].at = "mint"
    BY <1>4, <2>1 DEF MintCustomer
  <2>3. /\ c \in Checkout /\ c.at = "bind" /\ c.customer = k
        /\ c.price = checkouts[b].price /\ c.amount = checkouts[b].amount
    BY CheckoutsTyped DEF Checkout
  <2> HIDE DEF c
  <2>4. k \in 0 .. n /\ k # 0 /\ wallet \in 0 .. n
    BY <2>1, CheckoutsTyped
  <2>5. wallet # 0 => keyed = wallet
    BY <2>2, CheckoutsTyped DEF CustomersMatch
  <2>6. keyed # 0 => k = keyed
    BY <2>1
  <2>7. checkouts'[b] = c /\ \A d \in Buyers : d # b => checkouts'[d] = checkouts[d]
    BY <2>2, CheckoutsTyped
  <2>8. CustomersMatch'
    BY <1>1, <2>2, <2>3, <2>4, <2>5, <2>6, <2>7, CheckoutsTyped DEF CustomersMatch
  <2> QED
    BY <1>2, <2>2, <2>3, <2>4, <2>8
<1>5. CASE BindCustomer(b)
  <2> DEFINE c == [checkouts[b] EXCEPT !.at = "session"]
  <2>1. /\ checkouts' = [checkouts EXCEPT ![b] = c] /\ UNCHANGED <<customers, keyed>>
        /\ wallet' = checkouts[b].customer /\ checkouts[b].at = "bind"
    BY <1>5 DEF BindCustomer
  <2>2. /\ c \in Checkout /\ c.at = "session" /\ c.customer = checkouts[b].customer
        /\ c.price = checkouts[b].price /\ c.amount = checkouts[b].amount
    BY CheckoutsTyped DEF Checkout
  <2> HIDE DEF c
  <2>3. wallet' = keyed /\ keyed # 0 /\ (wallet # 0 => wallet = keyed)
    BY <2>1, CheckoutsTyped DEF CustomersMatch
  <2>4. checkouts'[b] = c /\ \A d \in Buyers : d # b => checkouts'[d] = checkouts[d]
    BY <2>1, CheckoutsTyped
  <2>5. CustomersMatch'
    BY <1>1, <2>1, <2>2, <2>3, <2>4, CheckoutsTyped DEF CustomersMatch
  <2> QED
    BY <1>2, <2>1, <2>2, <2>3, <2>5, CheckoutsTyped
<1> QED
  BY <1>3, <1>4, <1>5

LEMMA ForgettingKeeps ==
    ASSUME PurchasesIInv, ForgetKey
    PROVE  PurchasesIInv'
<1>1. /\ PurchaseRows /\ AmountsMatch /\ CustomersMatch /\ APriceIsComing
      /\ UNCHANGED <<prices, pack, runs, customers, wallet, checkouts, begun, sold, deaths>>
      /\ keyed' = 0 /\ \A b \in Buyers : checkouts[b].at \notin {"mint", "bind"}
  BY DEF PurchasesIInv, ForgetKey
<1>2. Made' = Made /\ ActivePrices' = ActivePrices
  BY <1>1 DEF Made, ActivePrices
<1>3. PurchaseRows'
  <2>1. keyed' \in 0 .. customers
    BY <1>1 DEF PurchaseRows
  <2> QED
    BY <1>1, <1>2, <2>1 DEF PurchaseRows
<1>4. AmountsMatch' /\ APriceIsComing'
  BY <1>1, <1>2 DEF AmountsMatch, Priced, APriceIsComing
<1>5. CustomersMatch'
  BY <1>1 DEF CustomersMatch
<1> QED
  BY <1>3, <1>4, <1>5 DEF PurchasesIInv

LEMMA PurchasesKeepInvariant == PurchasesIInv /\ [PurchasesNext]_purchaseVars => PurchasesIInv'
<1> SUFFICES ASSUME PurchasesIInv, [PurchasesNext]_purchaseVars PROVE PurchasesIInv'
  OBVIOUS
<1>1. CASE UNCHANGED purchaseVars
  <2>1. UNCHANGED <<prices, pack, runs, customers, keyed, wallet, checkouts, begun, sold, deaths>>
    BY <1>1 DEF purchaseVars
  <2>2. Made' = Made /\ ActivePrices' = ActivePrices
    BY <2>1 DEF Made, ActivePrices
  <2> QED
    BY <2>1, <2>2 DEF PurchasesIInv, PurchaseRows, AmountsMatch, Priced, CustomersMatch, APriceIsComing
<1>2. ASSUME NEW r \in PriceRuns,
             BeginRun(r) \/ ListPrices(r) \/ DeactivatePrice(r) \/ CreatePrice(r) \/ WritePack(r)
                \/ RunDies(r)
      PROVE  PurchasesIInv'
  BY <1>2, RunsKeep, DeactivateKeeps, CreateKeeps
<1>3. ASSUME NEW b \in Buyers,
             ReadPack(b) \/ RetrievePrice(b) \/ ListReplacement(b) \/ CacheReplacement(b)
                \/ ReadWallet(b) \/ MintCustomer(b) \/ BindCustomer(b) \/ CreateSession(b)
                \/ CheckoutDies(b)
      PROVE  PurchasesIInv'
  BY <1>3, CheckoutsPrice, CheckoutsFindTheCustomer, CheckoutsEnd
<1>4. CASE ForgetKey
  BY <1>4, ForgettingKeeps
<1> QED
  BY <1>1, <1>2, <1>3, <1>4 DEF PurchasesNext

\* stripe-purchase.ts, sync-credit-packs.mjs: for any number of checkouts and of
\* runs of the script, overlapping and dying anywhere, a session carries the
\* amount of its price and the customer of the wallet, and runs that all end by
\* themselves leave the pack a price to be bought at.
THEOREM WhatIsSoldIsPriced == PurchasesSpec => []PurchasesInv
<1>1. PurchasesSpec => []PurchasesIInv
  BY PurchasesInitially, PurchasesKeepInvariant, PTL DEF PurchasesSpec
<1> QED
  BY <1>1, PurchasesInvFollows, PTL

-----------------------------------------------------------------------------
(* The organization.  An onboarding that skips the row has found it        *)
(* written, so there are members then and it founds nothing; the others    *)
(* write the row one after the other, so who counts no members is the only *)
(* one who may.  And who is an owner anywhere, or is about to be, was made *)
(* one.                                                                    *)

DeliveryRow == [n : 1 .. MaxEvents, user : Users, in : BOOLEAN,
                coarse : {"org:admin", "org:member"}, meta : Roles \cup {NoRole}]

OnboardingRow == [at : {"none", "read", "write", "commit"}, what : {"save", "complete"},
                  revision : 0 .. MaxRevision, role : Roles \cup {NoRole},
                  write : {"skip", "create", "update", "upsert"}, first : BOOLEAN]

TeamworkRow == [at : {"none", "check", "write"}, role : Roles \cup {NoRole}, on : Users,
                to : Roles \cup {NoRole}, left : SUBSET {"coarse", "meta", "remove"}]

SomebodyIsMember == \E v \in Users : member[v].role # NoRole

\* What an onboarding may count on, whatever the others do meanwhile.
OnboardingFits(u, tx) ==
    /\ tx.at # "none" => tx.role \in {"admin", "recruiter"}
    /\ tx.at \in {"write", "commit"} /\ tx.write = "skip" => SomebodyIsMember
    /\ tx.at = "commit" /\ tx.write = "skip" => ~tx.first
    /\ tx.at = "commit" /\ tx.first => founders = {}
    /\ tx.at = "commit" /\ tx.write = "create" => ~org.exists
    /\ tx.at \in {"write", "commit"} /\ tx.what = "save" => tx.write # "upsert"
    /\ tx.at \in {"write", "commit"} /\ tx.write = "update" =>
          org.by # u \/ (~org.completed /\ tx.revision >= org.revision)

HoldsTheRow(tx) == tx.at = "commit" /\ tx.write # "skip"

OnboardingsFit ==
    /\ \A u \in Users : OnboardingFits(u, onboarding[u])
    /\ \A u, v \in Users : HoldsTheRow(onboarding[u]) /\ HoldsTheRow(onboarding[v]) => u = v

FoundersAreMembers ==
    /\ org.exists => SomebodyIsMember
    /\ \A f \in founders : member[f].role # NoRole
    /\ \A f, g \in founders : f = g

OwnersComeFromOwners ==
    /\ \A u \in Users : member[u].role = "owner" => u \in founders \cup blessed
    /\ \A u \in Users : clerk[u].meta = "owner" \/ invited[u] = "owner" => u \in blessed
    /\ \A d \in deliveries : d.meta = "owner" => d.user \in blessed
    /\ \A a \in Users : teamwork[a].at = "write" /\ teamwork[a].to = "owner" =>
          teamwork[a].on \in blessed

OrgIInv == OrgTypeOK /\ OnboardingsFit /\ FoundersAreMembers /\ OwnersComeFromOwners

LEMMA NothingUnderWay ==
    /\ NoTx \in OnboardingRow /\ NoTx.at = "none"
    /\ NoTeamwork \in TeamworkRow /\ NoTeamwork.at = "none"
  BY OrganizationsAssumption DEF NoTx, OnboardingRow, NoTeamwork, TeamworkRow

LEMMA TypesOfTheTeam ==
    OrgTypeOK <=> /\ clerk \in [Users -> ClerkRow]
                  /\ invited \in [Users -> Roles \cup {NoRole}]
                  /\ deliveries \subseteq DeliveryRow
                  /\ emitted \in 1 .. MaxEvents
                  /\ org \in OrgRow
                  /\ member \in [Users -> MemberRow]
                  /\ onboarding \in [Users -> OnboardingRow]
                  /\ teamRequests \in 0 .. MaxRequests
                  /\ teamwork \in [Users -> TeamworkRow]
                  /\ founders \subseteq Users /\ blessed \subseteq Users /\ released \subseteq Users
  BY DEF OrgTypeOK, DeliveryRow, OnboardingRow, TeamworkRow

LEMMA OrgInitially == OrgInit => OrgIInv
<1> SUFFICES ASSUME OrgInit PROVE OrgIInv
  OBVIOUS
<1>1. /\ \A u \in Users : clerk[u].meta = NoRole /\ invited[u] = NoRole /\ member[u].role = NoRole
      /\ \A u \in Users : onboarding[u] = NoTx /\ teamwork[u] = NoTeamwork
      /\ \A d \in deliveries : d.meta = NoRole
      /\ ~org.exists /\ founders = {}
  BY DEF OrgInit
<1>2. OrgTypeOK
  <2>1. clerk \in [Users -> ClerkRow]
    BY DEF OrgInit, ClerkRow
  <2>2. deliveries \subseteq DeliveryRow
    <3>1. 1 \in 1 .. MaxEvents
      BY OrganizationsAssumption
    <3> QED
      BY <3>1, OrganizationsAssumption DEF OrgInit, DeliveryRow
  <2>3. emitted \in 1 .. MaxEvents /\ teamRequests \in 0 .. MaxRequests /\ 0 \in Nat
    BY OrganizationsAssumption DEF OrgInit
  <2>4. org \in OrgRow
    BY <2>3, OrganizationsAssumption DEF OrgInit, OrgRow
  <2>5. member \in [Users -> MemberRow] /\ invited \in [Users -> Roles \cup {NoRole}]
    BY DEF OrgInit, MemberRow
  <2>6. onboarding \in [Users -> OnboardingRow] /\ teamwork \in [Users -> TeamworkRow]
    BY NothingUnderWay DEF OrgInit
  <2>7. founders \subseteq Users /\ blessed \subseteq Users /\ released \subseteq Users
    BY DEF OrgInit
  <2> QED
    BY <2>1, <2>2, <2>3, <2>4, <2>5, <2>6, <2>7, TypesOfTheTeam
<1>3. OnboardingsFit
  BY <1>1, NothingUnderWay DEF OnboardingsFit, OnboardingFits, HoldsTheRow
<1>4. FoundersAreMembers
  BY <1>1 DEF FoundersAreMembers
<1>5. OwnersComeFromOwners
  BY <1>1, NothingUnderWay DEF OwnersComeFromOwners, NoRole
<1> QED
  BY <1>2, <1>3, <1>4, <1>5 DEF OrgIInv

LEMMA OrganizationInvFollows == OrgIInv => OrganizationInv
<1> SUFFICES ASSUME OrgIInv PROVE OrganizationInv
  OBVIOUS
<1>1. OrgTypeOK /\ OnboardingsFit /\ FoundersAreMembers /\ OwnersComeFromOwners
  BY DEF OrgIInv
<1>2. OneFounder
  <2>1. CASE founders = {}
    BY <2>1, FS_EmptySet DEF OneFounder
  <2>2. ASSUME NEW f \in founders PROVE OneFounder
    <3>1. founders = {f}
      BY <1>1, <2>2 DEF FoundersAreMembers
    <3>2. Cardinality({f}) = 1
      BY FS_Singleton
    <3> QED
      BY <3>1, <3>2 DEF OneFounder
  <2> QED
    BY <2>1, <2>2
<1>3. OwnersAreMade
  BY <1>1 DEF OwnersComeFromOwners, OwnersAreMade
<1> QED
  BY <1>1, <1>2, <1>3 DEF OrganizationInv

\* A step of the team, of Clerk or of a webhook: no member loses the row.
LEMMA OnboardingsWait ==
    ASSUME OnboardingsFit, FoundersAreMembers, UNCHANGED <<onboarding, org, founders>>,
           \A u \in Users : member[u].role # NoRole => member'[u].role # NoRole,
           founders \subseteq Users
    PROVE  OnboardingsFit' /\ FoundersAreMembers'
<1>1. SomebodyIsMember => SomebodyIsMember'
  BY DEF SomebodyIsMember
<1>2. \A u \in Users : OnboardingFits(u, onboarding[u])'
  BY <1>1 DEF OnboardingsFit, OnboardingFits
<1>3. OnboardingsFit'
  BY <1>2 DEF OnboardingsFit, HoldsTheRow
<1> QED
  BY <1>1, <1>3 DEF FoundersAreMembers

\* An onboarding's step that writes no row.
LEMMA OnboardingGoes ==
    ASSUME OrgIInv, NEW u \in Users, NEW tx \in OnboardingRow,
           onboarding' = [onboarding EXCEPT ![u] = tx],
           UNCHANGED <<clerk, invited, deliveries, emitted, org, member, teamwork, founders,
                       blessed, released>>,
           teamRequests' \in 0 .. MaxRequests,
           OnboardingFits(u, tx),
           HoldsTheRow(tx) => \A v \in Users : ~HoldsTheRow(onboarding[v])
    PROVE  OrgIInv'
<1>1. /\ OrgTypeOK /\ OnboardingsFit /\ FoundersAreMembers /\ OwnersComeFromOwners
      /\ onboarding \in [Users -> OnboardingRow]
  BY TypesOfTheTeam DEF OrgIInv
<1>2. /\ onboarding' \in [Users -> OnboardingRow] /\ onboarding'[u] = tx
      /\ \A v \in Users : v # u => onboarding'[v] = onboarding[v]
  BY <1>1
<1>3. OrgTypeOK'
  BY <1>1, <1>2 DEF OrgTypeOK, OnboardingRow
<1>4. SomebodyIsMember' = SomebodyIsMember
  BY DEF SomebodyIsMember
<1>5. OnboardingsFit'
  <2>1. OnboardingFits(u, onboarding[u])'
    BY <1>2, <1>4 DEF OnboardingFits
  <2>2. ASSUME NEW v \in Users, v # u PROVE OnboardingFits(v, onboarding[v])'
    BY <1>1, <1>2, <1>4, <2>2 DEF OnboardingsFit, OnboardingFits
  <2>3. \A v \in Users : OnboardingFits(v, onboarding[v])'
    BY <2>1, <2>2
  <2>4. \A v, w \in Users : HoldsTheRow(onboarding'[v]) /\ HoldsTheRow(onboarding'[w]) => v = w
    BY <1>1, <1>2 DEF OnboardingsFit
  <2> QED
    BY <2>3, <2>4 DEF OnboardingsFit, HoldsTheRow
<1>6. FoundersAreMembers'
  BY <1>1, <1>4 DEF FoundersAreMembers
<1>7. OwnersComeFromOwners'
  BY <1>1 DEF OwnersComeFromOwners
<1> QED
  BY <1>3, <1>5, <1>6, <1>7 DEF OrgIInv

LEMMA BeginOnboardingKeeps ==
    ASSUME OrgIInv, NEW u \in Users, BeginOnboarding(u)
    PROVE  OrgIInv'
<1>1. PICK what \in {"save", "complete"}, revision \in 0 .. MaxRevision :
          onboarding' = [onboarding EXCEPT ![u] =
             [NoTx EXCEPT !.at = "read", !.what = what, !.revision = revision,
                          !.role = PreludeRole(clerk[u].coarse)]]
  BY DEF BeginOnboarding
<1>2. PICK role \in {"admin", "recruiter"} : role = PreludeRole(clerk[u].coarse)
  BY DEF PreludeRole
<1> DEFINE tx == [NoTx EXCEPT !.at = "read", !.what = what, !.revision = revision, !.role = role]
<1>3. tx \in OnboardingRow /\ tx.at = "read" /\ tx.role = role
  BY NothingUnderWay DEF OnboardingRow, Roles
<1>4. onboarding' = [onboarding EXCEPT ![u] = tx]
  BY <1>1, <1>2
<1> HIDE DEF tx
<1>5. teamRequests' \in 0 .. MaxRequests
  BY TypesOfTheTeam, OrganizationsAssumption DEF BeginOnboarding, Asks, OrgIInv
<1>6. UNCHANGED <<clerk, invited, deliveries, emitted, org, member, teamwork, founders,
                  blessed, released>>
  BY DEF BeginOnboarding
<1>7. OnboardingFits(u, tx) /\ ~HoldsTheRow(tx)
  BY <1>3 DEF OnboardingFits, HoldsTheRow
<1> QED
  BY <1>3, <1>4, <1>5, <1>6, <1>7, OnboardingGoes

LEMMA ReadOrganizationKeeps ==
    ASSUME OrgIInv, NEW u \in Users, ReadOrganization(u)
    PROVE  OrgIInv'
<1> DEFINE old == onboarding[u]
<1>1. /\ old \in OnboardingRow /\ old.at = "read" /\ org \in OrgRow
      /\ teamRequests \in 0 .. MaxRequests
      /\ OnboardingFits(u, old) /\ FoundersAreMembers
  BY TypesOfTheTeam DEF OrgIInv, ReadOrganization, OnboardingsFit
<1>2. PICK write \in {"skip", "create", "update", "upsert"} :
          write = CASE old.what = "complete" -> "upsert"
                    [] old.what = "save" /\ ~org.exists -> "create"
                    [] old.what = "save" /\ org.exists /\ ~SkipsSave(old) -> "update"
                    [] OTHER -> "skip"
  OBVIOUS
<1> DEFINE tx == [old EXCEPT !.at = "write", !.write = write]
<1>3. /\ tx \in OnboardingRow /\ tx.at = "write" /\ tx.role = old.role /\ tx.write = write
      /\ tx.what = old.what /\ tx.revision = old.revision
  BY <1>1 DEF OnboardingRow
<1>4. /\ onboarding' = [onboarding EXCEPT ![u] = tx]
      /\ UNCHANGED <<clerk, invited, deliveries, emitted, org, member, teamRequests, teamwork,
                     founders, blessed, released>>
  BY <1>2 DEF ReadOrganization
<1>5. /\ write = "skip" => org.exists
      /\ old.what = "save" => write # "upsert"
      /\ write = "update" => ~SkipsSave(old)
  <2>1. old.what \in {"save", "complete"} /\ org.exists \in BOOLEAN /\ SkipsSave(old) \in BOOLEAN
    BY <1>1 DEF OnboardingRow, OrgRow, SkipsSave
  <2> QED
    BY <1>2, <2>1
<1>6. write = "update" => ~org.completed /\ old.revision >= org.revision
  <2>1. old.revision \in Nat /\ org.revision \in Nat /\ org.completed \in BOOLEAN
    BY <1>1 DEF OnboardingRow, OrgRow
  <2> QED
    BY <1>5, <2>1 DEF SkipsSave
<1> HIDE DEF tx
<1>7. OnboardingFits(u, tx) /\ ~HoldsTheRow(tx)
  BY <1>1, <1>3, <1>5, <1>6 DEF OnboardingFits, HoldsTheRow, FoundersAreMembers
<1> QED
  BY <1>1, <1>3, <1>4, <1>7, OnboardingGoes

LEMMA WriteOrganizationKeeps ==
    ASSUME OrgIInv, NEW u \in Users, WriteOrganization(u)
    PROVE  OrgIInv'
<1> DEFINE old == onboarding[u]
<1>1. /\ old \in OnboardingRow /\ old.at = "write"
      /\ teamRequests \in 0 .. MaxRequests
      /\ OnboardingFits(u, old) /\ FoundersAreMembers
  BY TypesOfTheTeam DEF OrgIInv, WriteOrganization, OnboardingsFit
<1>2. /\ old.write # "skip" => RowIsFree
      /\ UNCHANGED <<clerk, invited, deliveries, emitted, org, member, teamRequests, teamwork,
                     founders, blessed, released>>
  BY DEF WriteOrganization
<1>3. CASE old.write = "create" /\ org.exists
  <2>1. onboarding' = [onboarding EXCEPT ![u] = NoTx]
    BY <1>3 DEF WriteOrganization
  <2>2. OnboardingFits(u, NoTx) /\ ~HoldsTheRow(NoTx)
    BY NothingUnderWay DEF OnboardingFits, HoldsTheRow
  <2> QED
    BY <1>1, <1>2, <2>1, <2>2, NothingUnderWay, OnboardingGoes
<1>4. CASE ~(old.write = "create" /\ org.exists)
  <2>1. PICK first \in BOOLEAN : first = ~SomebodyIsMember
    BY DEF SomebodyIsMember
  <2> DEFINE tx == [old EXCEPT !.at = "commit", !.first = first]
  <2>2. first = (\A v \in Users : member[v].role = NoRole)
    BY <2>1 DEF SomebodyIsMember
  <2>3. onboarding' = [onboarding EXCEPT ![u] = tx]
    BY <1>4, <2>2 DEF WriteOrganization
  <2>4. /\ tx \in OnboardingRow /\ tx.at = "commit" /\ tx.role = old.role /\ tx.write = old.write
        /\ tx.what = old.what /\ tx.revision = old.revision /\ tx.first = first
    BY <1>1 DEF OnboardingRow
  <2> HIDE DEF tx
  <2>5. first => founders = {}
    BY <1>1, <2>1, TypesOfTheTeam DEF FoundersAreMembers, SomebodyIsMember, OrgIInv
  <2>6. OnboardingFits(u, tx)
    BY <1>1, <1>4, <2>1, <2>4, <2>5 DEF OnboardingFits
  <2>7. HoldsTheRow(tx) => \A v \in Users : ~HoldsTheRow(onboarding[v])
    BY <1>2, <2>4 DEF HoldsTheRow, RowIsFree
  <2> QED
    BY <1>1, <1>2, <2>3, <2>4, <2>6, <2>7, OnboardingGoes
<1> QED
  BY <1>3, <1>4

\* Who is onboarded is a member; an owner by it only if nobody was a member.
LEMMA OnboardedIs ==
    ASSUME OrgTypeOK, NEW u \in Users, NEW tx, tx.role \in {"admin", "recruiter"}
    PROVE  /\ Onboarded(u, tx) \in MemberRow /\ Onboarded(u, tx).role # NoRole
           /\ Onboarded(u, tx).role = "owner" /\ member[u].role = NoRole => tx.first
           /\ member[u].role # NoRole => Onboarded(u, tx).role = member[u].role
<1>1. member[u] \in MemberRow
  BY DEF OrgTypeOK
<1>2. CASE member[u].role # NoRole
  <2>1. Onboarded(u, tx) = [member[u] EXCEPT !.active = TRUE]
    BY <1>2 DEF Onboarded
  <2>2. [member[u] EXCEPT !.active = TRUE] \in MemberRow
    BY <1>1 DEF MemberRow
  <2>3. [member[u] EXCEPT !.active = TRUE].role = member[u].role
    BY <1>1 DEF MemberRow
  <2> QED
    BY <1>2, <2>1, <2>2, <2>3
<1>3. CASE member[u].role = NoRole
  <2>1. PICK role \in {"owner", "admin", "recruiter"} :
            role = IF tx.first /\ tx.role = "admin" THEN "owner" ELSE tx.role
    OBVIOUS
  <2>2. Onboarded(u, tx) = [role |-> role, active |-> TRUE]
    BY <1>3, <2>1 DEF Onboarded
  <2>3. role = "owner" => tx.first
    BY <2>1
  <2> QED
    BY <1>3, <2>2, <2>3 DEF MemberRow, Roles, NoRole
<1> QED
  BY <1>2, <1>3

LEMMA CommitOnboardingKeeps ==
    ASSUME OrgIInv, NEW u \in Users, CommitOnboarding(u)
    PROVE  OrgIInv'
<1> DEFINE tx == onboarding[u]
           row == Onboarded(u, tx)
<1>1. /\ OrgTypeOK /\ OnboardingsFit /\ FoundersAreMembers /\ OwnersComeFromOwners
      /\ onboarding \in [Users -> OnboardingRow] /\ member \in [Users -> MemberRow]
  BY TypesOfTheTeam DEF OrgIInv
<1>2. tx \in OnboardingRow /\ tx.at = "commit" /\ OnboardingFits(u, tx)
  BY <1>1 DEF CommitOnboarding, OnboardingsFit
<1>3. /\ onboarding' = [onboarding EXCEPT ![u] = NoTx]
      /\ member' = [member EXCEPT ![u] = row]
      /\ founders' = IF row.role = "owner" /\ member[u].role = NoRole THEN founders \cup {u}
                     ELSE founders
      /\ UNCHANGED <<clerk, invited, deliveries, emitted, teamRequests, teamwork, blessed,
                     released>>
  BY DEF CommitOnboarding
<1>4. /\ row \in MemberRow /\ row.role # NoRole
      /\ row.role = "owner" /\ member[u].role = NoRole => tx.first
      /\ member[u].role # NoRole => row.role = member[u].role
  <2>1. tx.role \in {"admin", "recruiter"}
    BY <1>2 DEF OnboardingFits
  <2> QED
    BY <1>1, <2>1, OnboardedIs
<1>5. /\ tx.write = "skip" => UNCHANGED org
      /\ tx.write # "skip" => org'.by = u
      /\ org' \in OrgRow
  <2>1. CASE tx.write = "skip"
    BY <1>1, <2>1 DEF CommitOnboarding, OrgTypeOK
  <2>2. CASE tx.write # "skip"
    <3>1. PICK revision \in Nat : revision = IF tx.what = "save" THEN tx.revision ELSE 0
      BY <1>2 DEF OnboardingRow
    <3>2. PICK completed \in BOOLEAN : completed = (org.completed \/ tx.what = "complete")
      BY <1>1 DEF OrgTypeOK, OrgRow
    <3>3. org' = [exists |-> TRUE, completed |-> completed, by |-> u, revision |-> revision]
      BY <2>2, <3>1, <3>2 DEF CommitOnboarding
    <3> QED
      BY <2>2, <3>3 DEF OrgRow
  <2> QED
    BY <2>1, <2>2
<1> HIDE DEF row, tx
<1>6. /\ onboarding' \in [Users -> OnboardingRow] /\ onboarding'[u] = NoTx
      /\ \A v \in Users : v # u => onboarding'[v] = onboarding[v]
      /\ member' \in [Users -> MemberRow] /\ member'[u] = row
      /\ \A v \in Users : v # u => member'[v] = member[v]
  BY <1>1, <1>3, <1>4, NothingUnderWay
<1>7. OrgTypeOK'
  <2>1. founders' \subseteq Users
    BY <1>1, <1>3 DEF OrgTypeOK
  <2> QED
    BY <1>1, <1>3, <1>5, <1>6, <2>1 DEF OrgTypeOK, OnboardingRow
<1>8. SomebodyIsMember'
  BY <1>4, <1>6 DEF SomebodyIsMember
<1>9. \/ founders' = founders
      \/ /\ founders' = {u} /\ HoldsTheRow(tx)
  <2>1. ASSUME row.role = "owner", member[u].role = NoRole
        PROVE  founders' = {u} /\ HoldsTheRow(tx)
    <3>1. founders = {} /\ tx.write # "skip"
      BY <1>2, <1>4, <2>1 DEF OnboardingFits
    <3> QED
      BY <1>2, <1>3, <2>1, <3>1 DEF HoldsTheRow
  <2> QED
    BY <1>3, <2>1
<1>10. OnboardingsFit'
  <2>1. OnboardingFits(u, onboarding[u])'
    BY <1>6, NothingUnderWay DEF OnboardingFits
  <2>2. ASSUME NEW v \in Users, v # u PROVE OnboardingFits(v, onboarding[v])'
    <3> DEFINE other == onboarding[v]
    <3>1. OnboardingFits(v, other) /\ other = onboarding'[v]
      BY <1>1, <1>6, <2>2 DEF OnboardingsFit
    <3>2. HoldsTheRow(tx) => ~HoldsTheRow(other)
      BY <1>1, <2>2 DEF OnboardingsFit, tx
    <3> HIDE DEF other
    <3>3. other.at = "commit" /\ other.first => founders' = {}
      BY <1>9, <3>1, <3>2 DEF OnboardingFits, HoldsTheRow
    <3>4. other.at = "commit" /\ other.write = "create" => ~org'.exists
      <4>1. CASE tx.write = "skip"
        BY <1>5, <3>1, <4>1 DEF OnboardingFits
      <4>2. CASE tx.write # "skip"
        BY <1>2, <3>2, <4>2 DEF HoldsTheRow
      <4> QED
        BY <4>1, <4>2
    <3>5. other.at \in {"write", "commit"} /\ other.write = "update" =>
             org'.by # v \/ (~org'.completed /\ other.revision >= org'.revision)
      <4>1. CASE tx.write = "skip"
        BY <1>5, <3>1, <4>1 DEF OnboardingFits
      <4>2. CASE tx.write # "skip"
        BY <1>5, <2>2, <4>2
      <4> QED
        BY <4>1, <4>2
    <3> QED
      BY <1>8, <3>1, <3>3, <3>4, <3>5 DEF OnboardingFits
  <2>3. \A v \in Users : OnboardingFits(v, onboarding[v])'
    BY <2>1, <2>2
  <2>4. \A v, w \in Users : HoldsTheRow(onboarding'[v]) /\ HoldsTheRow(onboarding'[w]) => v = w
    <3>1. ~HoldsTheRow(onboarding'[u])
      BY <1>6, NothingUnderWay DEF HoldsTheRow
    <3> QED
      BY <1>1, <1>6, <3>1 DEF OnboardingsFit
  <2> QED
    BY <2>3, <2>4 DEF OnboardingsFit, HoldsTheRow
<1>11. FoundersAreMembers'
  <2>1. \A f \in founders' : member'[f].role # NoRole
    <3>1. \A f \in founders : f \in Users /\ member[f].role # NoRole
      BY <1>1 DEF FoundersAreMembers, OrgTypeOK
    <3> QED
      BY <1>4, <1>6, <1>9, <3>1
  <2>2. \A f, g \in founders' : f = g
    BY <1>1, <1>9 DEF FoundersAreMembers
  <2> QED
    BY <1>8, <2>1, <2>2 DEF FoundersAreMembers
<1>12. OwnersComeFromOwners'
  <2>1. founders \subseteq founders'
    BY <1>3
  <2>2. member'[u].role = "owner" => u \in founders' \cup blessed
    <3>1. CASE member[u].role # NoRole
      BY <1>1, <1>4, <1>6, <2>1, <3>1 DEF OwnersComeFromOwners
    <3>2. CASE member[u].role = NoRole
      BY <1>3, <1>6, <3>2
    <3> QED
      BY <3>1, <3>2
  <2>3. \A v \in Users : member'[v].role = "owner" => v \in founders' \cup blessed
    BY <1>1, <1>6, <2>1, <2>2 DEF OwnersComeFromOwners
  <2> QED
    BY <1>1, <1>3, <2>3 DEF OwnersComeFromOwners
<1> QED
  BY <1>7, <1>10, <1>11, <1>12 DEF OrgIInv

\* A step of somebody else, which leaves the row and the onboardings alone.
LEMMA TeamStep ==
    ASSUME OrgIInv, UNCHANGED <<onboarding, org, founders>>,
           clerk' \in [Users -> ClerkRow], invited' \in [Users -> Roles \cup {NoRole}],
           deliveries' \subseteq DeliveryRow, emitted' \in 1 .. MaxEvents,
           member' \in [Users -> MemberRow], teamRequests' \in 0 .. MaxRequests,
           teamwork' \in [Users -> TeamworkRow],
           blessed' \subseteq Users, released' \subseteq Users,
           \A u \in Users : member[u].role # NoRole => member'[u].role # NoRole,
           OwnersComeFromOwners'
    PROVE  OrgIInv'
<1>1. OrgTypeOK /\ OnboardingsFit /\ FoundersAreMembers /\ founders \subseteq Users
  BY TypesOfTheTeam DEF OrgIInv
<1>2. OrgTypeOK'
  BY <1>1 DEF OrgTypeOK, DeliveryRow, TeamworkRow
<1>3. OnboardingsFit' /\ FoundersAreMembers'
  BY <1>1, OnboardingsWait
<1> QED
  BY <1>2, <1>3 DEF OrgIInv

LEMMA TheTeam ==
    ASSUME OrgIInv
    PROVE  /\ clerk \in [Users -> ClerkRow] /\ invited \in [Users -> Roles \cup {NoRole}]
           /\ deliveries \subseteq DeliveryRow /\ emitted \in 1 .. MaxEvents
           /\ member \in [Users -> MemberRow] /\ teamRequests \in 0 .. MaxRequests
           /\ teamwork \in [Users -> TeamworkRow]
           /\ blessed \subseteq Users /\ released \subseteq Users
           /\ OwnersComeFromOwners
  BY TypesOfTheTeam DEF OrgIInv

\* A webhook can only say what Clerk has, and a request about one member may
\* only grow the set of those an owner has made owners.
LEMMA ReportsKeep ==
    ASSUME OrgIInv, NEW u \in Users, NEW c \in ClerkRow, Reports(u, c),
           c.meta = "owner" => u \in blessed,
           UNCHANGED <<org, member, onboarding, teamRequests, founders, blessed>>,
           released' \subseteq Users,
           invited' \in [Users -> Roles \cup {NoRole}],
           \A v \in Users : invited'[v] = "owner" => v \in blessed,
           teamwork' \in [Users -> TeamworkRow],
           \A a \in Users : teamwork'[a].at = "write" /\ teamwork'[a].to = "owner" =>
              teamwork'[a].on \in blessed
    PROVE  OrgIInv'
<1>1. PICK n \in 1 .. MaxEvents : n = emitted + 1
  BY TheTeam, OrganizationsAssumption DEF Reports
<1> DEFINE d == [n |-> n, user |-> u, in |-> c.in, coarse |-> c.coarse, meta |-> c.meta]
<1>2. /\ emitted' = n /\ clerk' = [clerk EXCEPT ![u] = c] /\ deliveries' = deliveries \cup {d}
  BY <1>1 DEF Reports
<1>3. d \in DeliveryRow /\ d.meta = c.meta /\ d.user = u
  BY DEF ClerkRow, DeliveryRow
<1> HIDE DEF d
<1>4. /\ clerk' \in [Users -> ClerkRow] /\ clerk'[u] = c
      /\ \A v \in Users : v # u => clerk'[v] = clerk[v]
      /\ deliveries' \subseteq DeliveryRow
  BY <1>2, <1>3, TheTeam
<1>5. OwnersComeFromOwners'
  BY <1>2, <1>3, <1>4, TheTeam DEF OwnersComeFromOwners
<1> QED
  BY <1>2, <1>4, <1>5, TheTeam, TeamStep

LEMMA ClerkChangesKeep ==
    ASSUME OrgIInv, NEW u \in Users, AcceptInvitation(u) \/ ChangeInClerk(u)
    PROVE  OrgIInv'
<1>1. UNCHANGED <<org, member, onboarding, teamRequests, teamwork, founders, blessed>>
  BY DEF AcceptInvitation, ChangeInClerk
<1>2. CASE AcceptInvitation(u)
  <2>1. PICK role \in Roles \cup {NoRole} : role = invited[u]
    BY TheTeam
  <2> DEFINE c == [in |-> TRUE, coarse |-> ClerkRole(role), meta |-> role]
  <2>2. /\ Reports(u, c) /\ UNCHANGED released
        /\ invited' = [invited EXCEPT ![u] = NoRole]
    BY <1>2, <2>1 DEF AcceptInvitation
  <2>3. c \in ClerkRow /\ (c.meta = "owner" => u \in blessed)
    BY <2>1, TheTeam DEF ClerkRow, ClerkRole, OwnersComeFromOwners
  <2> HIDE DEF c
  <2>4. invited' \in [Users -> Roles \cup {NoRole}]
    BY <2>2, TheTeam
  <2>5. \A v \in Users : invited'[v] = "owner" => v \in blessed
    BY <2>2, TheTeam DEF OwnersComeFromOwners, NoRole
  <2> QED
    BY <1>1, <2>2, <2>3, <2>4, <2>5, TheTeam, ReportsKeep DEF OwnersComeFromOwners
<1>3. CASE ChangeInClerk(u)
  <2>1. PICK coarse \in {"org:admin", "org:member"} :
            Reports(u, [in |-> TRUE, coarse |-> coarse,
                        meta |-> IF clerk[u].in THEN clerk[u].meta ELSE NoRole])
    BY <1>3 DEF ChangeInClerk
  <2>2. clerk[u] \in ClerkRow
    BY TheTeam
  <2>3. PICK meta \in Roles \cup {NoRole} :
            meta = IF clerk[u].in THEN clerk[u].meta ELSE NoRole
    BY <2>2 DEF ClerkRow
  <2>4. meta = "owner" => u \in blessed
    BY <2>3, TheTeam DEF OwnersComeFromOwners, NoRole
  <2> DEFINE c == [in |-> TRUE, coarse |-> coarse, meta |-> meta]
  <2>5. Reports(u, c) /\ c \in ClerkRow /\ c.meta = meta
    BY <2>1, <2>3 DEF ClerkRow
  <2> HIDE DEF c
  <2>6. UNCHANGED invited /\ released' \subseteq Users
    BY <1>3, TheTeam DEF ChangeInClerk
  <2> QED
    BY <1>1, <2>4, <2>5, <2>6, TheTeam, ReportsKeep DEF OwnersComeFromOwners
<1> QED
  BY <1>2, <1>3

LEMMA ApplyMembershipKeeps ==
    ASSUME OrgIInv, NEW e \in deliveries, ApplyMembership(e)
    PROVE  OrgIInv'
<1>1. /\ UNCHANGED <<clerk, invited, deliveries, emitted, org, onboarding, teamRequests, teamwork,
                     founders, blessed, released>>
      /\ e \in DeliveryRow
  BY TheTeam DEF ApplyMembership
<1>2. e.user \in Users /\ e.in \in BOOLEAN
  BY <1>1 DEF DeliveryRow
<1>3. PICK u \in Users : u = e.user
  BY <1>2
<1>4. member[u] \in MemberRow
  BY TheTeam
<1>5. PICK row \in MemberRow :
          /\ member' = [member EXCEPT ![u] = row]
          /\ member[u].role # NoRole => row.role # NoRole
          /\ row.role = "owner" => u \in founders \cup blessed
  <2>1. CASE e.in
    <3>1. PICK role \in Roles : role = Resolved(e)
      BY <1>1 DEF Resolved, DeliveryRow, PreludeRole, Roles, NoRole
    <3>2. role = "owner" => e.meta = "owner"
      BY <3>1 DEF Resolved, PreludeRole
    <3>3. role = "owner" => u \in blessed
      BY <1>3, <3>2, TheTeam DEF OwnersComeFromOwners
    <3> DEFINE row == [role |-> role, active |-> TRUE]
    <3>4. row \in MemberRow /\ row.role = role /\ role # NoRole
      BY DEF MemberRow, Roles, NoRole
    <3>5. member' = [member EXCEPT ![u] = row]
      BY <1>3, <2>1, <3>1 DEF ApplyMembership
    <3> QED
      BY <3>3, <3>4, <3>5
  <2>2. CASE ~e.in
    <3> DEFINE row == [member[u] EXCEPT !.active = FALSE]
    <3>1. row \in MemberRow /\ row.role = member[u].role
      BY <1>4 DEF MemberRow
    <3>2. member' = [member EXCEPT ![u] = row]
      BY <1>3, <2>2 DEF ApplyMembership
    <3> QED
      BY <3>1, <3>2, TheTeam DEF OwnersComeFromOwners
  <2> QED
    BY <1>2, <2>1, <2>2
<1>6. /\ member' \in [Users -> MemberRow] /\ member'[u] = row
      /\ \A v \in Users : v # u => member'[v] = member[v]
  BY <1>5, TheTeam
<1>7. OwnersComeFromOwners'
  BY <1>1, <1>5, <1>6, TheTeam DEF OwnersComeFromOwners
<1>8. \A v \in Users : member[v].role # NoRole => member'[v].role # NoRole
  BY <1>5, <1>6
<1> QED
  BY <1>1, <1>6, <1>7, <1>8, TheTeam, TeamStep

LEMMA AskingCounts ==
    ASSUME OrgIInv, Asks
    PROVE  teamRequests' \in 0 .. MaxRequests
  BY TheTeam, OrganizationsAssumption DEF Asks

LEMMA InvitationsKeep ==
    ASSUME OrgIInv, NEW a \in Users, NEW u \in Users, Invite(a, u) \/ RevokeInvitation(a, u)
    PROVE  OrgIInv'
<1>1. /\ UNCHANGED <<clerk, deliveries, emitted, org, member, onboarding, teamwork, founders,
                     released>>
      /\ teamRequests' \in 0 .. MaxRequests
  BY TheTeam, AskingCounts DEF Invite, RevokeInvitation
<1>2. PICK role \in Roles \cup {NoRole} :
          /\ invited' = [invited EXCEPT ![u] = role]
          /\ blessed \subseteq blessed' /\ blessed' \subseteq Users
          /\ role = "owner" => u \in blessed'
  <2>1. CASE Invite(a, u)
    <3>1. PICK role \in TeamRoles :
              /\ Assigns(member[a].role, role)
              /\ invited' = [invited EXCEPT ![u] = role]
              /\ blessed' = IF role = "owner" /\ member[a].role = "owner"
                            THEN blessed \cup {u} ELSE blessed
      BY <2>1 DEF Invite
    <3>2. role = "owner" => u \in blessed'
      BY <3>1 DEF Assigns
    <3> QED
      BY <3>1, <3>2, TheTeam, OrganizationsAssumption DEF Roles
  <2>2. CASE RevokeInvitation(a, u)
    <3>1. invited' = [invited EXCEPT ![u] = NoRole] /\ UNCHANGED blessed
      BY <2>2 DEF RevokeInvitation
    <3>2. NoRole \in Roles \cup {NoRole} /\ NoRole # "owner"
      BY DEF NoRole
    <3> QED
      BY <3>1, <3>2, TheTeam
  <2> QED
    BY <2>1, <2>2
<1>3. /\ invited' \in [Users -> Roles \cup {NoRole}] /\ invited'[u] = role
      /\ \A v \in Users : v # u => invited'[v] = invited[v]
  BY <1>2, TheTeam
<1>4. OwnersComeFromOwners'
  BY <1>1, <1>2, <1>3, TheTeam DEF OwnersComeFromOwners
<1> QED
  BY <1>1, <1>2, <1>3, <1>4, TheTeam, TeamStep

\* The step of a request to change the team that writes nothing yet.
LEMMA TeamworkGoes ==
    ASSUME OrgIInv, NEW a \in Users, NEW work \in TeamworkRow,
           teamwork' = [teamwork EXCEPT ![a] = work],
           UNCHANGED <<clerk, invited, deliveries, emitted, org, member, onboarding, founders>>,
           teamRequests' \in 0 .. MaxRequests,
           blessed \subseteq blessed', blessed' \subseteq Users, released' \subseteq Users,
           work.at = "write" /\ work.to = "owner" => work.on \in blessed'
    PROVE  OrgIInv'
<1>1. /\ teamwork' \in [Users -> TeamworkRow] /\ teamwork'[a] = work
      /\ \A b \in Users : b # a => teamwork'[b] = teamwork[b]
  BY TheTeam
<1>2. OwnersComeFromOwners'
  BY <1>1, TheTeam DEF OwnersComeFromOwners
<1> QED
  BY <1>1, <1>2, TheTeam, TeamStep

LEMMA BeginTeamworkKeeps ==
    ASSUME OrgIInv, NEW a \in Users, BeginTeamwork(a)
    PROVE  OrgIInv'
<1>1. PICK u \in Users, to \in TeamRoles \cup {NoRole} :
          teamwork' = [teamwork EXCEPT ![a] =
             [at |-> "check", role |-> member[a].role, on |-> u, to |-> to, left |-> {}]]
  BY DEF BeginTeamwork
<1>2. PICK role \in Roles \cup {NoRole} : role = member[a].role
  <2>1. member[a] \in MemberRow
    BY TheTeam
  <2> QED
    BY <2>1 DEF MemberRow
<1> DEFINE work == [at |-> "check", role |-> role, on |-> u, to |-> to, left |-> {}]
<1>3. work \in TeamworkRow /\ work.at = "check" /\ teamwork' = [teamwork EXCEPT ![a] = work]
  BY <1>1, <1>2, OrganizationsAssumption DEF TeamworkRow, Roles
<1>4. /\ UNCHANGED <<clerk, invited, deliveries, emitted, org, member, onboarding, founders,
                     blessed, released>>
      /\ teamRequests' \in 0 .. MaxRequests
  BY AskingCounts DEF BeginTeamwork
<1> HIDE DEF work
<1> QED
  BY <1>3, <1>4, TheTeam, TeamworkGoes

LEMMA CheckTargetKeeps ==
    ASSUME OrgIInv, NEW a \in Users, CheckTarget(a)
    PROVE  OrgIInv'
<1> DEFINE old == teamwork[a]
<1>1. /\ old \in TeamworkRow /\ blessed \subseteq Users /\ released \subseteq Users
      /\ teamRequests \in 0 .. MaxRequests
  BY TheTeam
<1>2. PICK allowed \in BOOLEAN :
          allowed = (clerk[old.on].in /\ MayDo(old.role, Resolved(clerk[old.on]), old.to))
  OBVIOUS
<1>3. /\ teamwork' = [teamwork EXCEPT ![a] =
            IF ~allowed THEN NoTeamwork
            ELSE [old EXCEPT !.at = "write", !.left = IF old.to = NoRole THEN {"remove"}
                                                      ELSE {"coarse", "meta"}]]
      /\ released' = IF allowed /\ old.role = "owner" THEN released \cup {old.on} ELSE released
      /\ blessed' = IF allowed /\ old.role = "owner" /\ old.to = "owner"
                    THEN blessed \cup {old.on} ELSE blessed
      /\ UNCHANGED <<clerk, invited, deliveries, emitted, org, member, onboarding, teamRequests,
                     founders>>
  BY <1>2 DEF CheckTarget
<1>4. allowed /\ old.to = "owner" => old.role = "owner"
  BY <1>2 DEF MayDo, Assigns, NoRole
<1>5. /\ old.on \in Users
      /\ blessed \subseteq blessed' /\ blessed' \subseteq Users /\ released' \subseteq Users
      /\ allowed /\ old.to = "owner" => old.on \in blessed'
  BY <1>1, <1>3, <1>4 DEF TeamworkRow
<1>6. CASE ~allowed
  <2>1. teamwork' = [teamwork EXCEPT ![a] = NoTeamwork]
    BY <1>3, <1>6
  <2> QED
    BY <1>1, <1>3, <1>5, <2>1, NothingUnderWay, TeamworkGoes
<1>7. CASE allowed
  <2>1. PICK left \in SUBSET {"coarse", "meta", "remove"} :
            left = IF old.to = NoRole THEN {"remove"} ELSE {"coarse", "meta"}
    OBVIOUS
  <2> DEFINE work == [old EXCEPT !.at = "write", !.left = left]
  <2>2. /\ work \in TeamworkRow /\ work.on = old.on /\ work.to = old.to
        /\ teamwork' = [teamwork EXCEPT ![a] = work]
    BY <1>1, <1>3, <1>7, <2>1 DEF TeamworkRow
  <2> HIDE DEF work
  <2>3. /\ UNCHANGED <<clerk, invited, deliveries, emitted, org, member, onboarding, founders>>
        /\ teamRequests' \in 0 .. MaxRequests
    BY <1>1, <1>3
  <2>4. work.to = "owner" => work.on \in blessed'
    BY <1>5, <1>7, <2>2
  <2> QED
    BY <1>5, <2>2, <2>3, <2>4, TeamworkGoes
<1> QED
  BY <1>6, <1>7

LEMMA WriteClerkKeeps ==
    ASSUME OrgIInv, NEW a \in Users, WriteClerk(a)
    PROVE  OrgIInv'
<1> DEFINE old == teamwork[a]
           target == clerk[old.on]
<1>1. /\ old \in TeamworkRow /\ old.at = "write"
      /\ teamRequests \in 0 .. MaxRequests /\ released \subseteq Users /\ blessed \subseteq Users
      /\ UNCHANGED <<invited, org, member, onboarding, teamRequests, founders, blessed, released>>
  BY TheTeam DEF WriteClerk
<1>2. old.on \in Users /\ old.to \in Roles \cup {NoRole} /\ target \in ClerkRow
  BY <1>1, TheTeam DEF TeamworkRow
<1>3. PICK write \in old.left :
        /\ teamwork' = [teamwork EXCEPT ![a] = IF old.left = {write} THEN NoTeamwork
                                               ELSE [old EXCEPT !.left = @ \ {write}]]
        /\ IF ~target.in THEN UNCHANGED <<clerk, deliveries, emitted>>
           ELSE Reports(old.on, CASE write = "remove" -> [target EXCEPT !.in = FALSE]
                                  [] write = "coarse" ->
                                        [target EXCEPT !.coarse = ClerkRole(old.to)]
                                  [] write = "meta" -> [target EXCEPT !.meta = old.to])
  BY DEF WriteClerk
<1>4. PICK work \in TeamworkRow :
          /\ teamwork' = [teamwork EXCEPT ![a] = work]
          /\ work.at = "write" => work.on = old.on /\ work.to = old.to
  <2>1. CASE old.left = {write}
    BY <1>3, <2>1, NothingUnderWay
  <2>2. CASE old.left # {write}
    <3> DEFINE work == [old EXCEPT !.left = @ \ {write}]
    <3>1. /\ work \in TeamworkRow /\ work.on = old.on /\ work.to = old.to
          /\ teamwork' = [teamwork EXCEPT ![a] = work]
      BY <1>1, <1>3, <2>2 DEF TeamworkRow
    <3> QED
      BY <3>1
  <2> QED
    BY <2>1, <2>2
<1>5. old.to = "owner" => old.on \in blessed
  BY <1>1, TheTeam DEF OwnersComeFromOwners
<1>6. CASE ~target.in
  <2>1. UNCHANGED <<clerk, deliveries, emitted>>
    BY <1>3, <1>6
  <2> QED
    BY <1>1, <1>4, <1>5, <2>1, TeamworkGoes
<1>7. CASE target.in
  <2>1. write \in {"coarse", "meta", "remove"}
    BY <1>1 DEF TeamworkRow
  <2>2. PICK c \in ClerkRow : /\ Reports(old.on, c)
                              /\ c.meta \in {target.meta, old.to}
    <3>1. CASE write = "remove"
      <4>1. Reports(old.on, [target EXCEPT !.in = FALSE])
        BY <1>3, <1>7, <3>1
      <4>2. [target EXCEPT !.in = FALSE] \in ClerkRow /\ [target EXCEPT !.in = FALSE].meta = target.meta
        BY <1>2 DEF ClerkRow
      <4> QED
        BY <4>1, <4>2
    <3>2. CASE write = "coarse"
      <4>1. PICK coarse \in {"org:admin", "org:member"} : coarse = ClerkRole(old.to)
        BY DEF ClerkRole
      <4>2. Reports(old.on, [target EXCEPT !.coarse = coarse])
        BY <1>3, <1>7, <3>2, <4>1
      <4>3. /\ [target EXCEPT !.coarse = coarse] \in ClerkRow
            /\ [target EXCEPT !.coarse = coarse].meta = target.meta
        BY <1>2 DEF ClerkRow
      <4> QED
        BY <4>2, <4>3
    <3>3. CASE write = "meta"
      <4>1. Reports(old.on, [target EXCEPT !.meta = old.to])
        BY <1>3, <1>7, <3>3
      <4>2. /\ [target EXCEPT !.meta = old.to] \in ClerkRow
            /\ [target EXCEPT !.meta = old.to].meta = old.to
        BY <1>2 DEF ClerkRow
      <4> QED
        BY <4>1, <4>2
    <3> QED
      BY <2>1, <3>1, <3>2, <3>3
  <2>3. c.meta = "owner" => old.on \in blessed
    BY <1>2, <1>5, <2>2, TheTeam DEF OwnersComeFromOwners
  <2>4. /\ teamwork' \in [Users -> TeamworkRow] /\ teamwork'[a] = work
        /\ \A b \in Users : b # a => teamwork'[b] = teamwork[b]
    BY <1>4, TheTeam
  <2>5. \A b \in Users : teamwork'[b].at = "write" /\ teamwork'[b].to = "owner" =>
            teamwork'[b].on \in blessed
    BY <1>4, <1>5, <2>4, TheTeam DEF OwnersComeFromOwners
  <2>6. invited' \in [Users -> Roles \cup {NoRole}]
        /\ \A v \in Users : invited'[v] = "owner" => v \in blessed
    BY <1>1, TheTeam DEF OwnersComeFromOwners
  <2> HIDE DEF old, target
  <2> QED
    BY <1>1, <1>2, <2>2, <2>3, <2>4, <2>5, <2>6, ReportsKeep
<1> QED
  BY <1>6, <1>7

LEMMA OrgKeepsInvariant == OrgIInv /\ [OrgNext]_orgVars => OrgIInv'
<1> SUFFICES ASSUME OrgIInv, [OrgNext]_orgVars PROVE OrgIInv'
  OBVIOUS
<1>1. CASE UNCHANGED orgVars
  <2>1. /\ UNCHANGED <<clerk, invited, deliveries, emitted, org, member, onboarding, teamRequests,
                       teamwork, founders, blessed, released>>
    BY <1>1 DEF orgVars
  <2>2. OwnersComeFromOwners'
    BY <2>1, TheTeam DEF OwnersComeFromOwners
  <2> QED
    BY <2>1, <2>2, TheTeam, TeamStep
<1>2. ASSUME NEW e \in deliveries, ApplyMembership(e) PROVE OrgIInv'
  BY <1>2, ApplyMembershipKeeps
<1>3. ASSUME NEW u \in Users,
             \/ AcceptInvitation(u) \/ ChangeInClerk(u)
             \/ BeginOnboarding(u) \/ ReadOrganization(u) \/ WriteOrganization(u)
             \/ CommitOnboarding(u)
             \/ BeginTeamwork(u) \/ CheckTarget(u) \/ WriteClerk(u)
      PROVE  OrgIInv'
  BY <1>3, ClerkChangesKeep, BeginOnboardingKeeps, ReadOrganizationKeeps, WriteOrganizationKeeps,
     CommitOnboardingKeeps, BeginTeamworkKeeps, CheckTargetKeeps, WriteClerkKeeps
<1>4. ASSUME NEW u \in Users, NEW v \in Users, Invite(u, v) \/ RevokeInvitation(u, v)
      PROVE  OrgIInv'
  BY <1>4, InvitationsKeep
<1> QED
  BY <1>1, <1>2, <1>3, <1>4 DEF OrgNext

\* organization-onboarding.ts, team-management.ts, clerk-webhook-store.ts: for
\* any number of users, with requests, onboardings and webhooks in any order and
\* repeated, one member at most is made owner by the onboarding, and nobody is an
\* owner, in the rows or in Clerk, but by it or by an owner.
THEOREM OwnersAreMadeByOwners == OrgSpec => []OrganizationInv
<1>1. OrgSpec => []OrgIInv
  BY OrgInitially, OrgKeepsInvariant, PTL DEF OrgSpec
<1> QED
  BY <1>1, OrganizationInvFollows, PTL

\* shouldSkipProgressUpdate: a save that commits over a row of the same user has
\* not been overtaken by a later save of his, nor by his completing it.
THEOREM SavesAreKept == OrgSpec => ProgressIsKept
<1>1. OrgSpec => []OrgIInv
  BY OrgInitially, OrgKeepsInvariant, PTL DEF OrgSpec
<1> DEFINE Kept ==
       \A u \in Users :
          onboarding[u].at = "commit" /\ onboarding[u].what = "save" /\ onboarding'[u] = NoTx
          /\ onboarding[u].write # "skip" /\ org.exists /\ org.by = u
          => ~org.completed /\ onboarding[u].revision >= org.revision
<1>2. OrgIInv => Kept
  <2> SUFFICES ASSUME OrgIInv, NEW u \in Users,
                      onboarding[u].at = "commit", onboarding[u].what = "save",
                      onboarding[u].write # "skip", org.exists, org.by = u
               PROVE  ~org.completed /\ onboarding[u].revision >= org.revision
    OBVIOUS
  <2>1. OnboardingFits(u, onboarding[u]) /\ onboarding[u] \in OnboardingRow
    BY TypesOfTheTeam DEF OrgIInv, OnboardingsFit
  <2>2. onboarding[u].write = "update"
    BY <2>1 DEF OnboardingFits, OnboardingRow
  <2> QED
    BY <2>1, <2>2 DEF OnboardingFits
<1>3. OrgSpec => [][Kept]_orgVars
  BY <1>1, <1>2, PTL
<1> QED
  BY <1>3 DEF ProgressIsKept

-----------------------------------------------------------------------------
(* The leads of the demo.  An event keeps its place and its kind; only     *)
(* grants are cancelled, and what is delivered was accepted.  So the       *)
(* withdrawal after the last grant is told once nothing is left.           *)

EventRow == [kind : {"setup_requested", "consent_granted", "consent_withdrawn"},
             status : {"pending", "processing", "delivered", "cancelled"}]

LeadRun == [at : {"none", "found", "cancel", "send", "record"}, event : 0 .. MaxLeadEvents + 2,
            copy : LeadRow, ok : BOOLEAN]

LeadRows ==
    /\ lead \in LeadRow
    /\ outbox \in Seq(EventRow) /\ Len(outbox) <= MaxLeadEvents + 2
    /\ lead.consent => Len(outbox) <= MaxLeadEvents + 1
    /\ leadRuns \in [LeadRuns -> LeadRun]
    /\ told \subseteq LeadEvents
    /\ heard \in BOOLEAN /\ mishaps \in 0 .. MaxFailures

\* What a row's status says, in any outbox and of anything told.
StatusIsTrue(box, accepted) ==
    \A e \in DOMAIN box : /\ box[e].status = "delivered" => e \in accepted
                          /\ box[e].status = "cancelled" => box[e].kind = "consent_granted"

RunIsTrue(run) ==
    /\ run.ok => run.at = "record"
    /\ run.event # 0 => /\ run.event \in LeadEvents
                        /\ run.at = "cancel" => outbox[run.event].kind = "consent_granted"
                        /\ run.ok => run.event \in told

WithdrawalIsAsked ==
    lead.withdrawn =>
       \E w \in LeadEvents :
          /\ outbox[w].kind = "consent_withdrawn"
          /\ \A e \in LeadEvents : outbox[e].kind = "consent_granted" => e < w

LeadsIInv ==
    /\ LeadRows /\ StatusIsTrue(outbox, told) /\ WithdrawalIsAsked
    /\ \A r \in LeadRuns : RunIsTrue(leadRuns[r])

LEMMA NoLeadYet ==
    /\ NoLead \in LeadRow /\ ~NoLead.withdrawn /\ ~NoLead.consent
    /\ NoLeadRun \in LeadRun /\ NoLeadRun.event = 0 /\ NoLeadRun.at = "none" /\ ~NoLeadRun.ok
<1>1. NoLead \in LeadRow /\ ~NoLead.withdrawn /\ ~NoLead.consent
  BY DEF NoLead, LeadRow
<1>2. 0 \in 0 .. MaxLeadEvents + 2
  BY LeadsAssumption
<1> QED
  BY <1>1, <1>2 DEF NoLeadRun, LeadRun

LEMMA LeadsInitially == LeadsInit => LeadsIInv
<1> SUFFICES ASSUME LeadsInit PROVE LeadsIInv
  OBVIOUS
<1>1. /\ lead = NoLead /\ outbox = << >> /\ told = {} /\ heard = FALSE /\ mishaps = 0
      /\ leadRuns = [r \in LeadRuns |-> NoLeadRun]
  BY DEF LeadsInit
<1>2. LeadRows
  <2>1. << >> \in Seq(EventRow) /\ Len(<< >>) = 0
    OBVIOUS
  <2>2. 0 <= MaxLeadEvents + 2 /\ 0 \in 0 .. MaxFailures
    BY LeadsAssumption
  <2> QED
    BY <1>1, <2>1, <2>2, NoLeadYet DEF LeadRows
<1>3. StatusIsTrue(outbox, told) /\ WithdrawalIsAsked
  BY <1>1, NoLeadYet DEF StatusIsTrue, WithdrawalIsAsked
<1>4. \A r \in LeadRuns : RunIsTrue(leadRuns[r])
  BY <1>1, NoLeadYet DEF RunIsTrue
<1> QED
  BY <1>2, <1>3, <1>4 DEF LeadsIInv

LEMMA TheOutbox ==
    ASSUME LeadRows
    PROVE  /\ LeadEvents = 1 .. Len(outbox) /\ Len(outbox) \in Nat
           /\ \A e \in LeadEvents : outbox[e] \in EventRow
  BY DEF LeadRows, LeadEvents

LEMMA LeadsInvFollows == LeadsIInv => LeadsInv
<1> SUFFICES ASSUME LeadsIInv PROVE LeadsInv
  OBVIOUS
<1>1. /\ LeadRows /\ StatusIsTrue(outbox, told) /\ WithdrawalIsAsked
      /\ \A e \in LeadEvents : outbox[e] \in EventRow
  BY TheOutbox DEF LeadsIInv
<1>2. LeadsTypeOK
  BY <1>1 DEF LeadsTypeOK, LeadRows, LeadRun, EventRow
<1>3. WithdrawalIsTold
  <2> SUFFICES ASSUME lead.withdrawn, NothingLeft
               PROVE  \E w \in told :
                         /\ outbox[w].kind = "consent_withdrawn"
                         /\ \A e \in LeadEvents : outbox[e].kind = "consent_granted" => e < w
    BY DEF WithdrawalIsTold
  <2>1. PICK w \in LeadEvents :
            /\ outbox[w].kind = "consent_withdrawn"
            /\ \A e \in LeadEvents : outbox[e].kind = "consent_granted" => e < w
    BY <1>1 DEF WithdrawalIsAsked
  <2>2. outbox[w].status \in {"delivered", "cancelled"}
    BY <1>1 DEF NothingLeft, Unsettled, EventRow
  <2>3. w \in told
    BY <1>1, <2>1, <2>2 DEF StatusIsTrue, LeadEvents
  <2> QED
    BY <2>1, <2>3
<1> QED
  BY <1>2, <1>3 DEF LeadsInv

\* A step that keeps the outbox, or adds to it.
LEMMA LeadsGo ==
    ASSUME LeadsIInv, lead' \in LeadRow, outbox' \in Seq(EventRow),
           Len(outbox) <= Len(outbox'), Len(outbox') <= MaxLeadEvents + 2,
           lead'.consent => Len(outbox') <= MaxLeadEvents + 1,
           \A e \in LeadEvents : outbox'[e].kind = outbox[e].kind,
           told \subseteq told', told' \subseteq LeadEvents',
           heard' \in BOOLEAN, mishaps' \in 0 .. MaxFailures,
           StatusIsTrue(outbox', told'),
           leadRuns' \in [LeadRuns -> LeadRun],
           \A r \in LeadRuns : leadRuns'[r] = leadRuns[r] \/ RunIsTrue(leadRuns[r])',
           WithdrawalIsAsked'
    PROVE  LeadsIInv'
<1>1. LeadEvents \subseteq LeadEvents'
  BY TheOutbox DEF LeadsIInv, LeadEvents
<1>2. LeadRows'
  BY DEF LeadRows
<1>3. ASSUME NEW r \in LeadRuns PROVE RunIsTrue(leadRuns[r])'
  <2>1. CASE leadRuns'[r] = leadRuns[r]
    BY <1>1, <2>1 DEF RunIsTrue, LeadsIInv
  <2> QED
    BY <2>1
<1> QED
  BY <1>2, <1>3 DEF LeadsIInv

\* A run's step: a row keeps its kind.
LEMMA LeadRunKeeps ==
    ASSUME LeadsIInv, NEW r \in LeadRuns, NEW run \in LeadRun, LeadRunGoes(r, run),
           NEW box, outbox' = box, box \in Seq(EventRow), Len(box) = Len(outbox),
           \A e \in LeadEvents : box[e].kind = outbox[e].kind,
           NEW accepted, told' = accepted, told \subseteq accepted, accepted \subseteq LeadEvents,
           heard' \in BOOLEAN, mishaps' \in 0 .. MaxFailures, UNCHANGED lead,
           StatusIsTrue(box, accepted), run.ok => run.at = "record",
           run.event # 0 => /\ run.event \in LeadEvents
                            /\ run.at = "cancel" => outbox[run.event].kind = "consent_granted"
                            /\ run.ok => run.event \in accepted
    PROVE  LeadsIInv'
<1>1. LeadRows /\ WithdrawalIsAsked /\ leadRuns \in [LeadRuns -> LeadRun]
  BY DEF LeadsIInv, LeadRows
<1>2. LeadEvents' = LeadEvents
  BY <1>1, TheOutbox DEF LeadEvents
<1>3. /\ leadRuns' \in [LeadRuns -> LeadRun] /\ leadRuns'[r] = run
      /\ \A q \in LeadRuns : q # r => leadRuns'[q] = leadRuns[q]
  BY <1>1 DEF LeadRunGoes
<1>4. RunIsTrue(leadRuns[r])'
  BY <1>2, <1>3 DEF RunIsTrue
<1>5. WithdrawalIsAsked'
  BY <1>1, <1>2 DEF WithdrawalIsAsked
<1>6. \A q \in LeadRuns : leadRuns'[q] = leadRuns[q] \/ RunIsTrue(leadRuns[q])'
  BY <1>3, <1>4
<1>7. Len(box) \in Nat /\ Len(box) <= MaxLeadEvents + 2
      /\ (lead.consent => Len(box) <= MaxLeadEvents + 1) /\ lead \in LeadRow
  BY <1>1, TheOutbox DEF LeadRows
<1>8. StatusIsTrue(outbox', told')
  OBVIOUS
<1> QED
  BY <1>2, <1>3, <1>5, <1>6, <1>7, <1>8, LeadsGo

LEMMA Appended ==
    ASSUME NEW S, NEW box \in Seq(S), NEW x \in S
    PROVE  /\ box \o <<x>> \in Seq(S) /\ Len(box \o <<x>>) = Len(box) + 1
           /\ \A e \in 1 .. Len(box) : (box \o <<x>>)[e] = box[e]
           /\ (box \o <<x>>)[Len(box) + 1] = x
  OBVIOUS

LEMMA PendingAppended ==
    ASSUME NEW box \in Seq(EventRow), NEW accepted, StatusIsTrue(box, accepted),
           NEW x \in EventRow, x.status = "pending"
    PROVE  StatusIsTrue(box \o <<x>>, accepted)
<1> DEFINE more == box \o <<x>>
<1>1. /\ more \in Seq(EventRow) /\ Len(more) = Len(box) + 1 /\ Len(box) \in Nat
      /\ \A e \in 1 .. Len(box) : more[e] = box[e]
      /\ more[Len(box) + 1] = x
  BY Appended
<1>2. DOMAIN more = 1 .. (Len(box) + 1) /\ DOMAIN box = 1 .. Len(box)
  BY <1>1
<1> HIDE DEF more
<1> SUFFICES ASSUME NEW e \in DOMAIN more
             PROVE  /\ more[e].status = "delivered" => e \in accepted
                    /\ more[e].status = "cancelled" => more[e].kind = "consent_granted"
  BY DEF StatusIsTrue, more
<1>3. CASE e \in 1 .. Len(box)
  BY <1>1, <1>2, <1>3 DEF StatusIsTrue
<1>4. CASE e = Len(box) + 1
  BY <1>1, <1>4
<1> QED
  BY <1>1, <1>2, <1>3, <1>4

\* A row whose status is written.
LEMMA StatusWritten ==
    ASSUME LeadsIInv, NEW e \in LeadEvents,
           NEW status \in {"pending", "processing", "delivered", "cancelled"},
           status = "delivered" => e \in told,
           status = "cancelled" => outbox[e].kind = "consent_granted"
    PROVE  LET box == [outbox EXCEPT ![e].status = status]
           IN  /\ box \in Seq(EventRow) /\ Len(box) = Len(outbox)
               /\ \A d \in LeadEvents : box[d].kind = outbox[d].kind
               /\ StatusIsTrue(box, told)
<1> DEFINE row == [outbox[e] EXCEPT !.status = status]
           box == [outbox EXCEPT ![e] = row]
<1>1. /\ outbox \in Seq(EventRow) /\ LeadEvents = 1 .. Len(outbox) /\ Len(outbox) \in Nat
      /\ outbox[e] \in EventRow /\ StatusIsTrue(outbox, told)
  BY TheOutbox DEF LeadsIInv, LeadRows
<1>2. row \in EventRow /\ row.status = status /\ row.kind = outbox[e].kind
  BY <1>1 DEF EventRow
<1> HIDE DEF row
<1>3. /\ box \in Seq(EventRow) /\ Len(box) = Len(outbox) /\ DOMAIN box = DOMAIN outbox
      /\ box[e] = row /\ \A d \in LeadEvents : d # e => box[d] = outbox[d]
  BY <1>1, <1>2 DEF LeadEvents
<1> HIDE DEF box
<1>4. \A d \in LeadEvents : box[d].kind = outbox[d].kind
  BY <1>2, <1>3
<1>5. StatusIsTrue(box, told)
  BY <1>1, <1>2, <1>3 DEF StatusIsTrue, LeadEvents
<1>6. box = [outbox EXCEPT ![e].status = status]
  BY DEF box, row
<1> QED
  BY <1>3, <1>4, <1>5, <1>6

LEMMA CaptureKeeps ==
    ASSUME LeadsIInv, Capture
    PROVE  LeadsIInv'
<1> DEFINE n == Len(outbox)
           asked == NewEvent("setup_requested")
           granted == NewEvent("consent_granted")
           box == outbox \o <<asked>>
<1>1. /\ LeadRows /\ StatusIsTrue(outbox, told) /\ WithdrawalIsAsked
      /\ outbox \in Seq(EventRow) /\ LeadEvents = 1 .. n /\ n \in Nat /\ n < MaxLeadEvents
      /\ UNCHANGED <<leadRuns, told, heard, mishaps>>
  BY TheOutbox DEF LeadsIInv, LeadRows, Capture
<1>2. /\ asked \in EventRow /\ asked.status = "pending" /\ asked.kind = "setup_requested"
      /\ granted \in EventRow /\ granted.status = "pending"
  BY DEF NewEvent, EventRow
<1> HIDE DEF asked, granted
<1>3. /\ box \in Seq(EventRow) /\ Len(box) = n + 1 /\ box[n + 1] = asked
      /\ \A e \in LeadEvents : box[e] = outbox[e]
      /\ StatusIsTrue(box, told)
  BY <1>1, <1>2, Appended, PendingAppended
<1>4. PICK consents \in BOOLEAN :
          /\ lead' = IF consents THEN [exists |-> TRUE, consent |-> TRUE, withdrawn |-> FALSE]
                     ELSE [lead EXCEPT !.exists = TRUE]
          /\ outbox' = box \o (IF consents THEN <<granted>> ELSE <<>>)
  BY DEF Capture, asked, granted
<1>5. /\ heard' \in BOOLEAN /\ mishaps' \in 0 .. MaxFailures /\ leadRuns' \in [LeadRuns -> LeadRun]
      /\ told \subseteq LeadEvents
  BY <1>1 DEF LeadRows
<1> HIDE DEF box
<1>6. CASE consents
  <2>1. lead' \in LeadRow /\ ~lead'.withdrawn /\ lead'.consent
    BY <1>4, <1>6 DEF LeadRow
  <2>2. outbox' = box \o <<granted>>
    BY <1>4, <1>6
  <2>3. /\ outbox' \in Seq(EventRow) /\ Len(outbox') = n + 2 /\ StatusIsTrue(outbox', told)
        /\ \A e \in 1 .. n + 1 : outbox'[e] = box[e]
    BY <1>1, <1>2, <1>3, <2>2, Appended, PendingAppended
  <2>4. LeadEvents' = 1 .. n + 2
    BY <2>3 DEF LeadEvents
  <2>5. LeadEvents \subseteq LeadEvents' /\ \A e \in LeadEvents : outbox'[e].kind = outbox[e].kind
    BY <1>1, <1>3, <2>3, <2>4
  <2>6. Len(outbox') <= MaxLeadEvents + 1 /\ Len(outbox) <= Len(outbox')
        /\ Len(outbox') <= MaxLeadEvents + 2
    BY <1>1, <2>3, LeadsAssumption
  <2>7. WithdrawalIsAsked'
    BY <2>1 DEF WithdrawalIsAsked
  <2> QED
    BY <1>1, <1>5, <2>1, <2>3, <2>5, <2>6, <2>7, LeadsGo
<1>7. CASE ~consents
  <2>1. lead' \in LeadRow /\ lead'.withdrawn = lead.withdrawn
    BY <1>1, <1>4, <1>7 DEF LeadRow, LeadRows
  <2>2. outbox' = box
    BY <1>3, <1>4, <1>7
  <2>3. LeadEvents' = 1 .. n + 1
    BY <1>1, <1>3, <2>2 DEF LeadEvents
  <2>4. LeadEvents \subseteq LeadEvents' /\ \A e \in LeadEvents : outbox'[e].kind = outbox[e].kind
    BY <1>1, <1>3, <2>2, <2>3
  <2>5. Len(outbox') <= MaxLeadEvents + 1 /\ Len(outbox) <= Len(outbox')
        /\ Len(outbox') <= MaxLeadEvents + 2
    BY <1>1, <1>3, <2>2, LeadsAssumption
  <2>6. WithdrawalIsAsked'
    <3> SUFFICES ASSUME lead.withdrawn
                 PROVE  \E w \in LeadEvents' :
                           /\ outbox'[w].kind = "consent_withdrawn"
                           /\ \A e \in LeadEvents' : outbox'[e].kind = "consent_granted" => e < w
      BY <2>1 DEF WithdrawalIsAsked
    <3>1. PICK w \in LeadEvents :
              /\ outbox[w].kind = "consent_withdrawn"
              /\ \A e \in LeadEvents : outbox[e].kind = "consent_granted" => e < w
      BY <1>1 DEF WithdrawalIsAsked
    <3>2. outbox'[n + 1].kind = "setup_requested"
      BY <1>2, <1>3, <2>2
    <3>3. \A e \in LeadEvents' : outbox'[e].kind = "consent_granted" => e \in LeadEvents
      BY <1>1, <2>3, <3>2
    <3> QED
      BY <2>4, <3>1, <3>3
  <2> QED
    BY <1>1, <1>3, <1>5, <2>1, <2>2, <2>4, <2>5, <2>6, LeadsGo
<1> QED
  BY <1>6, <1>7

LEMMA WithdrawKeeps ==
    ASSUME LeadsIInv, Withdraw
    PROVE  LeadsIInv'
<1> DEFINE n == Len(outbox)
           Cancelled(e) == IF outbox[e].kind = "consent_granted" /\ Unsettled(e)
                           THEN [outbox[e] EXCEPT !.status = "cancelled"] ELSE outbox[e]
           box == [e \in LeadEvents |-> Cancelled(e)]
           withdrawal == NewEvent("consent_withdrawn")
<1>1. /\ LeadRows /\ StatusIsTrue(outbox, told) /\ lead.consent
      /\ outbox \in Seq(EventRow) /\ LeadEvents = 1 .. n /\ n \in Nat /\ n <= MaxLeadEvents + 1
      /\ \A e \in LeadEvents : outbox[e] \in EventRow
      /\ UNCHANGED <<leadRuns, told, heard, mishaps>>
  BY TheOutbox DEF LeadsIInv, LeadRows, Withdraw
<1>2. /\ lead' = [lead EXCEPT !.consent = FALSE, !.withdrawn = TRUE]
      /\ outbox' = box \o <<withdrawal>>
  BY DEF Withdraw, Withdrawal
<1>3. /\ withdrawal \in EventRow /\ withdrawal.status = "pending"
      /\ withdrawal.kind = "consent_withdrawn"
  BY DEF NewEvent, EventRow
<1>4. ASSUME NEW e \in LeadEvents
      PROVE  /\ Cancelled(e) \in EventRow /\ Cancelled(e).kind = outbox[e].kind
             /\ Cancelled(e).status = outbox[e].status
                \/ (Cancelled(e).status = "cancelled" /\ outbox[e].kind = "consent_granted")
  <2>1. CASE outbox[e].kind = "consent_granted" /\ Unsettled(e)
    <3>1. Cancelled(e) = [outbox[e] EXCEPT !.status = "cancelled"]
      BY <2>1
    <3> QED
      BY <1>1, <2>1, <3>1 DEF EventRow
  <2>2. CASE ~(outbox[e].kind = "consent_granted" /\ Unsettled(e))
    <3>1. Cancelled(e) = outbox[e]
      BY <2>2
    <3> QED
      BY <1>1, <3>1
  <2> QED
    BY <2>1, <2>2
<1> HIDE DEF Cancelled, withdrawal
<1>5. /\ box \in Seq(EventRow) /\ Len(box) = n /\ DOMAIN box = LeadEvents
      /\ \A e \in LeadEvents : box[e] = Cancelled(e)
  BY <1>1, <1>4
<1> HIDE DEF box
<1>6. StatusIsTrue(box, told)
  BY <1>1, <1>4, <1>5 DEF StatusIsTrue, LeadEvents
<1>7. /\ outbox' \in Seq(EventRow) /\ Len(outbox') = n + 1 /\ StatusIsTrue(outbox', told)
      /\ outbox'[n + 1] = withdrawal
      /\ \A e \in LeadEvents : outbox'[e] = box[e]
  <2>1. /\ outbox' \in Seq(EventRow) /\ Len(outbox') = Len(box) + 1
        /\ \A e \in 1 .. Len(box) : outbox'[e] = box[e]
        /\ outbox'[Len(box) + 1] = withdrawal
    BY <1>2, <1>3, <1>5, Appended
  <2>2. StatusIsTrue(outbox', told)
    BY <1>2, <1>3, <1>5, <1>6, PendingAppended
  <2> QED
    BY <1>1, <1>5, <2>1, <2>2
<1>8. LeadEvents' = 1 .. n + 1
  BY <1>7 DEF LeadEvents
<1>9. LeadEvents \subseteq LeadEvents' /\ \A e \in LeadEvents : outbox'[e].kind = outbox[e].kind
  <2>1. LeadEvents \subseteq LeadEvents'
    BY <1>1, <1>8
  <2>2. ASSUME NEW e \in LeadEvents PROVE outbox'[e].kind = outbox[e].kind
    <3>1. outbox'[e] = Cancelled(e)
      BY <1>5, <1>7
    <3> QED
      BY <1>4, <3>1
  <2> QED
    BY <2>1, <2>2
<1>10. Len(outbox) <= Len(outbox') /\ Len(outbox') <= MaxLeadEvents + 2
  BY <1>1, <1>7, LeadsAssumption
<1>11. lead' \in LeadRow /\ ~lead'.consent
  BY <1>1, <1>2 DEF LeadRow, LeadRows
<1>12. WithdrawalIsAsked'
  <2>1. n + 1 \in LeadEvents' /\ \A e \in LeadEvents' : e < n + 1 \/ e = n + 1
    BY <1>1, <1>8
  <2>2. outbox'[n + 1].kind = "consent_withdrawn"
    BY <1>3, <1>7
  <2> QED
    BY <2>1, <2>2 DEF WithdrawalIsAsked
<1>13. /\ heard' \in BOOLEAN /\ mishaps' \in 0 .. MaxFailures /\ leadRuns' \in [LeadRuns -> LeadRun]
       /\ told \subseteq LeadEvents
  BY <1>1 DEF LeadRows
<1> QED
  BY <1>1, <1>7, <1>9, <1>10, <1>11, <1>12, <1>13, LeadsGo

LEMMA RemoveLeadKeeps ==
    ASSUME LeadsIInv, RemoveLead
    PROVE  LeadsIInv'
<1>1. /\ lead' = NoLead /\ outbox' = << >> /\ told' = {} /\ heard' = FALSE /\ UNCHANGED mishaps
      /\ leadRuns' = [r \in LeadRuns |-> IF leadRuns[r] = NoLeadRun THEN NoLeadRun
                                         ELSE [leadRuns[r] EXCEPT !.event = 0]]
  BY DEF RemoveLead
<1>2. LeadRows /\ leadRuns \in [LeadRuns -> LeadRun]
  BY DEF LeadsIInv, LeadRows
<1>3. 0 \in 0 .. MaxLeadEvents + 2 /\ 0 <= MaxLeadEvents + 2
  BY LeadsAssumption
<1>4. ASSUME NEW r \in LeadRuns
      PROVE  /\ leadRuns'[r] \in LeadRun /\ leadRuns'[r].event = 0
             /\ leadRuns'[r].ok => leadRuns'[r].at = "record"
  <2> DEFINE run == [leadRuns[r] EXCEPT !.event = 0]
  <2>1. /\ run \in LeadRun /\ run.event = 0
        /\ run.ok = leadRuns[r].ok /\ run.at = leadRuns[r].at
    BY <1>2, <1>3 DEF LeadRun
  <2>2. leadRuns[r].ok => leadRuns[r].at = "record"
    BY DEF LeadsIInv, RunIsTrue
  <2>3. leadRuns'[r] = NoLeadRun \/ leadRuns'[r] = run
    BY <1>1
  <2> HIDE DEF run
  <2> QED
    BY <2>1, <2>2, <2>3, NoLeadYet
<1>5. leadRuns' \in [LeadRuns -> LeadRun]
  BY <1>1, <1>4
<1>6. LeadRows'
  <2>1. << >> \in Seq(EventRow) /\ Len(<< >>) = 0
    OBVIOUS
  <2> QED
    BY <1>1, <1>2, <1>3, <1>5, <2>1, NoLeadYet DEF LeadRows
<1>7. StatusIsTrue(outbox, told)' /\ WithdrawalIsAsked'
  BY <1>1, NoLeadYet DEF StatusIsTrue, WithdrawalIsAsked
<1>8. \A r \in LeadRuns : RunIsTrue(leadRuns[r])'
  BY <1>4 DEF RunIsTrue
<1> QED
  BY <1>6, <1>7, <1>8 DEF LeadsIInv

LEMMA TheLeadRun ==
    ASSUME LeadsIInv, NEW r \in LeadRuns
    PROVE  /\ leadRuns[r] \in LeadRun /\ RunIsTrue(leadRuns[r])
           /\ leadRuns[r].event # 0 => leadRuns[r].event \in LeadEvents
           /\ outbox \in Seq(EventRow) /\ StatusIsTrue(outbox, told)
           /\ told \subseteq LeadEvents /\ heard \in BOOLEAN /\ mishaps \in 0 .. MaxFailures
           /\ lead \in LeadRow
           /\ LeadEvents \subseteq 0 .. MaxLeadEvents + 2 /\ 0 \notin LeadEvents
<1>1. /\ LeadRows /\ StatusIsTrue(outbox, told)
      /\ leadRuns[r] \in LeadRun /\ RunIsTrue(leadRuns[r])
  BY DEF LeadsIInv, LeadRows
<1>2. LeadEvents = 1 .. Len(outbox) /\ Len(outbox) \in Nat /\ Len(outbox) <= MaxLeadEvents + 2
  BY <1>1, TheOutbox DEF LeadRows
<1>3. LeadEvents \subseteq 0 .. MaxLeadEvents + 2 /\ 0 \notin LeadEvents
  BY <1>2, LeadsAssumption
<1>4. leadRuns[r].event # 0 => leadRuns[r].event \in LeadEvents
  BY <1>1 DEF RunIsTrue
<1> QED
  BY <1>1, <1>3, <1>4 DEF LeadRows

\* A run that ends, or fails, or has found an event, and writes no row.
LEMMA LeadRunsGo ==
    ASSUME LeadsIInv, NEW r \in LeadRuns, FindEvent(r) \/ Lost(r) \/ LeadRunDies(r)
    PROVE  LeadsIInv'
<1>1. UNCHANGED <<lead, outbox, told, heard>>
  BY DEF FindEvent, Lost, LeadRunDies
<1>2. mishaps' \in 0 .. MaxFailures
  <2>1. mishaps \in 0 .. MaxFailures /\ (mishaps' = mishaps \/ Mishap)
    BY TheLeadRun DEF FindEvent, Lost, LeadRunDies
  <2> QED
    BY <2>1, LeadsAssumption DEF Mishap
<1>3. PICK run \in LeadRun :
          /\ LeadRunGoes(r, run) /\ run.at \in {"none", "found"} /\ ~run.ok
          /\ run.event # 0 => run.event \in LeadEvents
  <2>1. CASE FindEvent(r)
    <3>1. PICK e \in LeadEvents :
              LeadRunGoes(r, [NoLeadRun EXCEPT !.at = "found", !.event = e, !.copy = lead])
      BY <2>1 DEF FindEvent
    <3> DEFINE run == [NoLeadRun EXCEPT !.at = "found", !.event = e, !.copy = lead]
    <3>2. e \in 0 .. MaxLeadEvents + 2 /\ lead \in LeadRow
      BY TheLeadRun
    <3>3. run \in LeadRun /\ run.at = "found" /\ run.event = e /\ ~run.ok
      BY <3>2, NoLeadYet DEF LeadRun
    <3> QED
      BY <3>1, <3>3
  <2>2. CASE Lost(r) \/ LeadRunDies(r)
    BY <2>2, NoLeadYet DEF Lost, LeadRunDies
  <2> QED
    BY <2>1, <2>2
<1> QED
  BY <1>1, <1>2, <1>3, TheLeadRun, LeadRunKeeps

LEMMA ClaimEventKeeps ==
    ASSUME LeadsIInv, NEW r \in LeadRuns, ClaimEvent(r)
    PROVE  LeadsIInv'
<1> DEFINE old == leadRuns[r]
<1>1. PICK e \in LeadEvents : e = old.event
  BY TheLeadRun DEF ClaimEvent
<1>2. PICK box : box = [outbox EXCEPT ![e].status = "processing"]
  OBVIOUS
<1>3. /\ outbox' = box
      /\ UNCHANGED <<lead, told, heard, mishaps>>
  BY <1>1, <1>2 DEF ClaimEvent
<1>4. PICK at \in {"cancel", "send"} :
          /\ LeadRunGoes(r, [old EXCEPT !.at = at])
          /\ at = "cancel" => outbox[e].kind = "consent_granted"
  BY <1>1 DEF ClaimEvent
<1> DEFINE run == [old EXCEPT !.at = at]
<1>5. run \in LeadRun /\ run.at = at /\ run.event = e /\ ~run.ok
  <2>1. old \in LeadRun /\ ~old.ok
    BY TheLeadRun DEF ClaimEvent, RunIsTrue
  <2> QED
    BY <1>1, <2>1 DEF LeadRun
<1>6. /\ box \in Seq(EventRow) /\ Len(box) = Len(outbox) /\ StatusIsTrue(box, told)
      /\ \A d \in LeadEvents : box[d].kind = outbox[d].kind
  BY <1>2, StatusWritten
<1> HIDE DEF run
<1>7. LeadRunGoes(r, run)
  BY <1>4 DEF run
<1> QED
  BY <1>3, <1>4, <1>5, <1>6, <1>7, TheLeadRun, LeadRunKeeps

\* A run that writes what has become of its event.
LEMMA SettlingKeeps ==
    ASSUME LeadsIInv, NEW r \in LeadRuns,
           NEW status \in {"pending", "delivered", "cancelled"}, SettleEvent(r, status),
           leadRuns[r].event # 0 =>
              /\ status = "delivered" => leadRuns[r].event \in told
              /\ status = "cancelled" => outbox[leadRuns[r].event].kind = "consent_granted",
           UNCHANGED <<lead, told, heard, mishaps>>
    PROVE  LeadsIInv'
<1>1. LeadRunGoes(r, NoLeadRun)
  BY DEF SettleEvent
<1>2. PICK box \in Seq(EventRow) :
          /\ outbox' = box /\ Len(box) = Len(outbox) /\ StatusIsTrue(box, told)
          /\ \A d \in LeadEvents : box[d].kind = outbox[d].kind
  <2>1. CASE leadRuns[r].event = 0
    BY <2>1, TheLeadRun DEF SettleEvent
  <2>2. CASE leadRuns[r].event # 0
    <3>1. PICK e \in LeadEvents : e = leadRuns[r].event
      BY <2>2, TheLeadRun
    <3>2. outbox' = [outbox EXCEPT ![e].status = status]
      BY <2>2, <3>1 DEF SettleEvent
    <3> QED
      BY <2>2, <3>1, <3>2, StatusWritten
  <2> QED
    BY <2>1, <2>2
<1> QED
  BY <1>1, <1>2, NoLeadYet, TheLeadRun, LeadRunKeeps

LEMMA SettlementsKeep ==
    ASSUME LeadsIInv, NEW r \in LeadRuns, CancelGrant(r) \/ RecordAnswer(r)
    PROVE  LeadsIInv'
<1>1. UNCHANGED <<lead, told, heard, mishaps>>
  BY DEF CancelGrant, RecordAnswer
<1>2. CASE CancelGrant(r)
  <2>1. SettleEvent(r, "cancelled") /\ leadRuns[r].at = "cancel"
    BY <1>2 DEF CancelGrant
  <2>2. leadRuns[r].event # 0 => outbox[leadRuns[r].event].kind = "consent_granted"
    BY <2>1, TheLeadRun DEF RunIsTrue
  <2> QED
    BY <1>1, <2>1, <2>2, SettlingKeeps
<1>3. CASE RecordAnswer(r)
  <2>1. PICK status \in {"delivered", "pending"} :
            status = IF leadRuns[r].ok THEN "delivered" ELSE "pending"
    OBVIOUS
  <2>2. SettleEvent(r, status) /\ leadRuns[r].at = "record"
    BY <1>3, <2>1 DEF RecordAnswer
  <2>3. leadRuns[r].event # 0 /\ status = "delivered" => leadRuns[r].event \in told
    BY <2>1, <2>2, TheLeadRun DEF RunIsTrue
  <2> QED
    BY <1>1, <2>2, <2>3, SettlingKeeps
<1> QED
  BY <1>2, <1>3

LEMMA SendKeeps ==
    ASSUME LeadsIInv, NEW r \in LeadRuns, Send(r)
    PROVE  LeadsIInv'
<1> DEFINE old == leadRuns[r]
<1>1. /\ old \in LeadRun /\ ~old.ok /\ UNCHANGED <<lead, outbox>>
      /\ old.event # 0 => old.event \in LeadEvents
  BY TheLeadRun DEF Send, RunIsTrue
<1>2. mishaps' \in 0 .. MaxFailures
  <2>1. mishaps \in 0 .. MaxFailures /\ (mishaps' = mishaps \/ Mishap)
    BY TheLeadRun DEF Send
  <2> QED
    BY <2>1, LeadsAssumption DEF Mishap
<1>3. PICK accepted :
          /\ told' = accepted /\ told \subseteq accepted /\ accepted \subseteq LeadEvents
          /\ heard' \in BOOLEAN
          /\ \E ok \in BOOLEAN : /\ LeadRunGoes(r, [old EXCEPT !.at = "record", !.ok = ok])
                                 /\ ok /\ old.event # 0 => old.event \in accepted
  <2>1. CASE /\ told' = told \cup ({old.event} \ {0})
             /\ heard' = (heard \/ (old.event # 0 /\ old.copy.consent))
    <3>1. /\ told \subseteq told' /\ told' \subseteq LeadEvents
          /\ old.event # 0 => old.event \in told'
      BY <1>1, <2>1, TheLeadRun
    <3>2. heard' \in BOOLEAN
      BY <2>1
    <3>3. \E ok \in BOOLEAN : LeadRunGoes(r, [old EXCEPT !.at = "record", !.ok = ok])
      <4>1. CASE LeadRunGoes(r, [old EXCEPT !.at = "record", !.ok = TRUE])
        BY <4>1
      <4>2. CASE LeadRunGoes(r, [old EXCEPT !.at = "record"])
        <5>1. [old EXCEPT !.at = "record"] = [old EXCEPT !.at = "record", !.ok = FALSE]
          BY <1>1 DEF LeadRun
        <5> QED
          BY <4>2, <5>1
      <4> QED
        BY <4>1, <4>2 DEF Send
    <3> QED
      BY <3>1, <3>2, <3>3
  <2>2. CASE UNCHANGED <<told, heard>> /\ LeadRunGoes(r, [old EXCEPT !.at = "record"])
    <3>1. [old EXCEPT !.at = "record"] = [old EXCEPT !.at = "record", !.ok = FALSE]
      BY <1>1 DEF LeadRun
    <3> QED
      BY <2>2, <3>1, TheLeadRun
  <2> QED
    BY <2>1, <2>2 DEF Send
<1>4. PICK ok \in BOOLEAN : /\ LeadRunGoes(r, [old EXCEPT !.at = "record", !.ok = ok])
                            /\ ok /\ old.event # 0 => old.event \in accepted
  BY <1>3
<1> DEFINE run == [old EXCEPT !.at = "record", !.ok = ok]
<1>5. run \in LeadRun /\ run.at = "record" /\ run.ok = ok /\ run.event = old.event
  BY <1>1 DEF LeadRun
<1>6. LeadRunGoes(r, run)
  BY <1>4
<1> HIDE DEF run
<1>7. StatusIsTrue(outbox, accepted)
  BY <1>3, TheLeadRun DEF StatusIsTrue
<1>8. outbox' = outbox
  BY <1>1
<1> QED
  BY <1>1, <1>2, <1>3, <1>4, <1>5, <1>6, <1>7, <1>8, TheLeadRun, LeadRunKeeps

LEMMA LeadsKeepInvariant == LeadsIInv /\ [LeadsNext]_leadVars => LeadsIInv'
<1> SUFFICES ASSUME LeadsIInv, [LeadsNext]_leadVars PROVE LeadsIInv'
  OBVIOUS
<1>1. CASE UNCHANGED leadVars
  <2>1. UNCHANGED <<lead, outbox, leadRuns, told, heard, mishaps>>
    BY <1>1 DEF leadVars
  <2>2. LeadEvents' = LeadEvents
    BY <2>1 DEF LeadEvents
  <2> QED
    BY <2>1, <2>2 DEF LeadsIInv, LeadRows, StatusIsTrue, WithdrawalIsAsked, RunIsTrue
<1>2. CASE Capture \/ Withdraw \/ RemoveLead
  BY <1>2, CaptureKeeps, WithdrawKeeps, RemoveLeadKeeps
<1>3. ASSUME NEW r \in LeadRuns,
             FindEvent(r) \/ Lost(r) \/ ClaimEvent(r) \/ CancelGrant(r) \/ Send(r)
                \/ RecordAnswer(r) \/ LeadRunDies(r)
      PROVE  LeadsIInv'
  BY <1>3, LeadRunsGo, ClaimEventKeeps, SettlementsKeep, SendKeeps
<1> QED
  BY <1>1, <1>2, <1>3 DEF LeadsNext

\* marketing-demo-leads.ts: for any number of runs, whose claims lapse while they
\* send, and for requests that fail or arrive all the same, a provider that heard
\* of a consent has been told of its withdrawal once nothing is left to deliver.
THEOREM AWithdrawalIsTold == LeadsSpec => []LeadsInv
<1>1. LeadsSpec => []LeadsIInv
  BY LeadsInitially, LeadsKeepInvariant, PTL DEF LeadsSpec
<1> QED
  BY <1>1, LeadsInvFollows, PTL
=============================================================================
