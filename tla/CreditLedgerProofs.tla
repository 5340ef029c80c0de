------------------------- MODULE CreditLedgerProofs -------------------------
(***************************************************************************)
(* Proofs about CreditLedger, for every finite set of sessions and         *)
(* payments and every value of the constants that LedgerAssumption allows. *)
(*                                                                         *)
(* The inductive invariant is a predicate on rows, Consistent(d).  Each    *)
(* in-transaction primitive is shown to turn consistent rows into          *)
(* consistent rows; an action commits a composition of primitives, so its  *)
(* step follows by citing their lemmas in the order of the code.           *)
(*                                                                         *)
(* What each action that sweeps establishes is a wallet reconcileWallet    *)
(* agrees with.  The audit compares counters kept by increments with sums  *)
(* over the lots that are open by the clock, so it can only agree when no  *)
(* open lot is past its date: on consistent rows that is the one thing     *)
(* missing, and it is what expireDueLotsInTx, the last primitive of each   *)
(* of these actions, establishes.                                          *)
(***************************************************************************)
EXTENDS CreditLedger, FiniteSetTheorems, TLAPS

-----------------------------------------------------------------------------
(* What the totals of module Totals do when their set or their function    *)
(* changes: the arithmetic every counter of the program rests on.          *)

\* A pair is a token of S exactly when its number is within the count of its
\* first component.
LEMMA UnitsMember ==
    ASSUME NEW S, NEW f, NEW x, NEW i
    PROVE  <<x, i>> \in Units(S, f) <=> x \in S /\ i \in 1 .. f[x]
  BY DEF Units

\* The tokens of one element are as many as its count.
LEMMA UnitsSingleton ==
    ASSUME NEW x, NEW f, f[x] \in Nat
    PROVE  /\ IsFiniteSet(Units({x}, f))
           /\ Total({x}, f) = f[x]
<1> DEFINE h == [i \in 1 .. f[x] |-> <<x, i>>]
<1>1. Units({x}, f) = {x} \X (1 .. f[x])
  BY DEF Units
<1>2. h \in Bijection(1 .. f[x], Units({x}, f))
  <2>1. h \in [1 .. f[x] -> Units({x}, f)]
    BY <1>1
  <2>2. ASSUME NEW a \in 1 .. f[x], NEW b \in 1 .. f[x], h[a] = h[b]
        PROVE  a = b
    BY <2>2
  <2>3. ASSUME NEW u \in Units({x}, f)
        PROVE  \E i \in 1 .. f[x] : h[i] = u
    <3>1. PICK i \in 1 .. f[x] : u = <<x, i>>
      BY <1>1
    <3>2. QED
      BY <3>1
  <2>4. QED
    <3>1. h \in Injection(1 .. f[x], Units({x}, f))
      BY <2>1, <2>2 DEF Injection, IsInjective
    <3>2. h \in Surjection(1 .. f[x], Units({x}, f))
      BY <2>1, <2>3 DEF Surjection
    <3>3. QED
      BY <3>1, <3>2 DEF Bijection
<1>3. IsFiniteSet(1 .. f[x]) /\ Cardinality(1 .. f[x]) = f[x]
  <2>1. IF 1 > f[x] THEN Cardinality(1 .. f[x]) = 0
                    ELSE Cardinality(1 .. f[x]) = f[x] - 1 + 1
    BY FS_Interval
  <2>2. IsFiniteSet(1 .. f[x])
    BY FS_Interval
  <2>3. QED
    BY <2>1, <2>2
<1>4. ExistsBijection(1 .. f[x], Units({x}, f))
  BY <1>2, Zenon DEF ExistsBijection
<1> HIDE DEF h
<1>5. IsFiniteSet(Units({x}, f)) /\ Cardinality(Units({x}, f)) = Cardinality(1 .. f[x])
  BY <1>3, <1>4, FS_Bijection, Zenon
<1>6. QED
  BY <1>3, <1>5, Zenon DEF Total

\* The tokens of a finite set are finitely many, so a total is a number.
LEMMA TotalType ==
    ASSUME NEW S, IsFiniteSet(S), NEW f, \A x \in S : f[x] \in Nat
    PROVE  /\ IsFiniteSet(Units(S, f))
           /\ Total(S, f) \in Nat
<1> DEFINE Parts == {{x} \X (1 .. f[x]) : x \in S}
           h == [x \in S |-> {x} \X (1 .. f[x])]
<1>1. IsFiniteSet(Parts)
  <2>1. h \in Surjection(S, Parts)
    BY DEF Surjection
  <2>2. QED
    BY <2>1, FS_Surjection
<1>2. ASSUME NEW P \in Parts
      PROVE  IsFiniteSet(P)
  <2>1. PICK x \in S : P = {x} \X (1 .. f[x])
    OBVIOUS
  <2>2. P = Units({x}, f)
    BY <2>1 DEF Units
  <2>3. QED
    BY <2>2, UnitsSingleton
<1>3. IsFiniteSet(UNION Parts)
  BY <1>1, <1>2, FS_UNION
<1>4. QED
  BY <1>3, FS_CardinalityType DEF Units, Total

\* Nothing sums to nothing.
LEMMA TotalEmpty ==
    ASSUME NEW f
    PROVE  Total({}, f) = 0
<1>1. Units({}, f) = {}
  BY DEF Units
<1>2. QED
  BY <1>1, FS_EmptySet DEF Total

\* Zeros sum to nothing.
LEMMA TotalZero ==
    ASSUME NEW S, NEW f, \A x \in S : f[x] = 0
    PROVE  Total(S, f) = 0
<1>1. \A x \in S : 1 .. f[x] = {}
  OBVIOUS
<1>2. Units(S, f) = {}
  BY <1>1 DEF Units
<1>3. QED
  BY <1>2, FS_EmptySet DEF Total

\* Only the values on S count.
LEMMA TotalSame ==
    ASSUME NEW S, NEW f, NEW g, \A x \in S : f[x] = g[x]
    PROVE  Total(S, f) = Total(S, g)
<1>1. Units(S, f) = Units(S, g)
  BY DEF Units
<1>2. QED
  BY <1>1 DEF Total

\* The total over two disjoint sets is the sum of the totals.
LEMMA TotalUnion ==
    ASSUME NEW S, NEW T, IsFiniteSet(S), IsFiniteSet(T), S \cap T = {},
           NEW f, \A x \in S \cup T : f[x] \in Nat
    PROVE  Total(S \cup T, f) = Total(S, f) + Total(T, f)
<1>1. /\ IsFiniteSet(Units(S, f)) /\ IsFiniteSet(Units(T, f))
      /\ Total(S, f) \in Nat /\ Total(T, f) \in Nat
  BY TotalType
<1>2. Units(S \cup T, f) = Units(S, f) \cup Units(T, f)
  BY DEF Units
<1>3. Units(S, f) \cap Units(T, f) = {}
  BY DEF Units
<1>4. Cardinality(Units(S, f) \cap Units(T, f)) = 0
  BY <1>3, FS_EmptySet
<1>5. Cardinality(Units(S, f) \cup Units(T, f)) =
        Cardinality(Units(S, f)) + Cardinality(Units(T, f))
          - Cardinality(Units(S, f) \cap Units(T, f))
  BY <1>1, FS_Union
<1>6. /\ Total(S, f) = Cardinality(Units(S, f))
      /\ Total(T, f) = Cardinality(Units(T, f))
      /\ Total(S \cup T, f) = Cardinality(Units(S, f) \cup Units(T, f))
  BY <1>2, Zenon DEF Total
<1>7. QED
  BY <1>1, <1>4, <1>5, <1>6

\* Changing the value at one element changes the total by the difference.
LEMMA TotalPoint ==
    ASSUME NEW S, IsFiniteSet(S), NEW x \in S,
           NEW f, NEW g, \A y \in S : f[y] \in Nat /\ g[y] \in Nat,
           \A y \in S \ {x} : g[y] = f[y]
    PROVE  Total(S, g) = Total(S, f) - f[x] + g[x]
<1> DEFINE R == S \ {x}
<1>1. R \cap {x} = {} /\ R \cup {x} = S
  OBVIOUS
<1>2. IsFiniteSet(R) /\ IsFiniteSet({x})
  BY FS_RemoveElement, FS_Singleton, Zenon
<1> HIDE DEF R
<1>3. ASSUME NEW e, \A y \in S : e[y] \in Nat
      PROVE  Total(S, e) = Total(R, e) + e[x]
  <2>1. Total(R \cup {x}, e) = Total(R, e) + Total({x}, e)
    BY <1>1, <1>2, <1>3, TotalUnion
  <2>2. Total({x}, e) = e[x]
    BY <1>3, UnitsSingleton
  <2>3. QED
    BY <1>1, <2>1, <2>2
<1>4. Total(R, g) = Total(R, f)
  BY TotalSame DEF R
<1>5. Total(R, f) \in Nat
  BY <1>1, <1>2, TotalType
<1>6. Total(S, f) = Total(R, f) + f[x] /\ Total(S, g) = Total(R, g) + g[x]
  BY <1>3
<1>7. QED
  BY <1>4, <1>5, <1>6

\* The total of a pointwise sum is the sum of the totals.
LEMMA TotalSum ==
    ASSUME NEW S, IsFiniteSet(S),
           NEW f, NEW g, NEW h,
           \A x \in S : f[x] \in Nat /\ g[x] \in Nat /\ h[x] = f[x] + g[x]
    PROVE  Total(S, h) = Total(S, f) + Total(S, g)
<1> DEFINE F == Units(S, f)
           G == Units(S, g)
           H == Units(S, h)
           shift == [u \in G |-> <<u[1], f[u[1]] + u[2]>>]
<1>1. \A x \in S : h[x] \in Nat
  OBVIOUS
<1>2. IsFiniteSet(F) /\ IsFiniteSet(G) /\ IsFiniteSet(H)
  BY <1>1, TotalType
<1>3. F \subseteq H
  <2> SUFFICES ASSUME NEW u \in F PROVE u \in H
    OBVIOUS
  <2>1. PICK x, i : x \in S /\ i \in 1 .. f[x] /\ u = <<x, i>>
    BY DEF Units
  <2>2. i \in 1 .. h[x]
    BY <2>1
  <2>3. QED
    BY <2>1, <2>2, UnitsMember
<1>4. shift \in Bijection(G, H \ F)
  <2>1. ASSUME NEW u \in G
        PROVE  shift[u] \in H \ F
    <3>1. PICK x, i : x \in S /\ i \in 1 .. g[x] /\ u = <<x, i>>
      BY DEF Units
    <3>2. f[x] + i \in 1 .. h[x] /\ f[x] + i \notin 1 .. f[x]
      BY <3>1
    <3>3. shift[u] = <<x, f[x] + i>>
      BY <3>1
    <3>4. QED
      BY <3>1, <3>2, <3>3, UnitsMember
  <2>2. ASSUME NEW u \in G, NEW v \in G, shift[u] = shift[v]
        PROVE  u = v
    <3>1. PICK x, i : x \in S /\ i \in 1 .. g[x] /\ u = <<x, i>>
      BY DEF Units
    <3>2. PICK y, j : y \in S /\ j \in 1 .. g[y] /\ v = <<y, j>>
      BY DEF Units
    <3>3. x = y /\ f[x] + i = f[y] + j
      BY <2>2, <3>1, <3>2
    <3>4. i = j
      BY <3>1, <3>2, <3>3
    <3>5. QED
      BY <3>1, <3>2, <3>3, <3>4
  <2>3. ASSUME NEW w \in H \ F
        PROVE  \E u \in G : shift[u] = w
    <3>1. PICK x, i : x \in S /\ i \in 1 .. h[x] /\ w = <<x, i>>
      BY DEF Units
    <3>2. i \notin 1 .. f[x]
      BY <3>1, UnitsMember
    <3>3. i - f[x] \in 1 .. g[x] /\ f[x] + (i - f[x]) = i
      BY <3>1, <3>2
    <3>4. <<x, i - f[x]>> \in G
      BY <3>1, <3>3, UnitsMember
    <3>5. shift[<<x, i - f[x]>>] = w
      BY <3>1, <3>3, <3>4
    <3>6. QED
      BY <3>4, <3>5
  <2>4. shift \in [G -> H \ F]
    BY <2>1
  <2>5. QED
    BY <2>2, <2>3, <2>4 DEF Bijection, Injection, IsInjective, Surjection
<1>5. Cardinality(H \ F) = Cardinality(G)
  BY <1>2, <1>4, FS_Bijection, Zenon DEF ExistsBijection
<1>6. H \cap F = F
  BY <1>3
<1>7. Cardinality(H \ F) = Cardinality(H) - Cardinality(F)
  <2>1. Cardinality(H \ F) = Cardinality(H) - Cardinality(H \cap F)
    BY <1>2, FS_Difference
  <2>2. QED
    BY <1>6, <2>1
<1>8. Cardinality(F) \in Nat /\ Cardinality(G) \in Nat /\ Cardinality(H) \in Nat
  BY <1>2, FS_CardinalityType
<1>9. QED
  BY <1>5, <1>7, <1>8 DEF Total

\* Counting a finite set by a classification of its elements.
LEMMA TotalOfClasses ==
    ASSUME NEW D, IsFiniteSet(D), NEW S, NEW C,
           \A x \in S : C[x] \subseteq D,
           \A d \in D : \E x \in S : d \in C[x],
           \A x, y \in S : x # y => C[x] \cap C[y] = {},
           NEW n, \A x \in S : n[x] = Cardinality(C[x])
    PROVE  Total(S, n) = Cardinality(D)
<1> DEFINE U == Units(S, n)
           b == [x \in S |-> CHOOSE h \in Bijection(1 .. n[x], C[x]) : TRUE]
           number == [u \in U |-> b[u[1]][u[2]]]
<1>1. ASSUME NEW x \in S
      PROVE  n[x] \in Nat /\ b[x] \in Bijection(1 .. n[x], C[x])
  <2>1. IsFiniteSet(C[x])
    BY FS_Subset
  <2>2. n[x] = Cardinality(C[x])
    OBVIOUS
  <2>3. n[x] \in Nat /\ ExistsBijection(1 .. n[x], C[x])
    BY <2>1, <2>2, FS_CardinalityType
  <2>4. \E h : h \in Bijection(1 .. n[x], C[x])
    BY <2>3 DEF ExistsBijection
  <2>5. QED
    BY <2>3, <2>4
<1>2. ASSUME NEW x \in S
      PROVE  /\ \A i \in 1 .. n[x] : b[x][i] \in C[x]
             /\ \A i, j \in 1 .. n[x] : b[x][i] = b[x][j] => i = j
             /\ \A d \in C[x] : \E i \in 1 .. n[x] : b[x][i] = d
  <2> DEFINE e == b[x]
  <2>1. e \in Bijection(1 .. n[x], C[x])
    BY <1>1
  <2> HIDE DEF e, b
  <2>2. /\ e \in [1 .. n[x] -> C[x]]
        /\ \A i, j \in 1 .. n[x] : e[i] = e[j] => i = j
        /\ \A d \in C[x] : \E i \in 1 .. n[x] : e[i] = d
    BY <2>1 DEF Bijection, Injection, IsInjective, Surjection
  <2>3. QED
    BY <2>2 DEF e
<1> HIDE DEF b
<1>3. number \in Bijection(U, D)
  <2>1. ASSUME NEW u \in U
        PROVE  number[u] \in D
    <3>1. PICK x, i : x \in S /\ i \in 1 .. n[x] /\ u = <<x, i>>
      BY DEF Units
    <3>2. QED
      BY <1>2, <3>1
  <2>2. ASSUME NEW u \in U, NEW v \in U, number[u] = number[v]
        PROVE  u = v
    <3>1. PICK x, i : x \in S /\ i \in 1 .. n[x] /\ u = <<x, i>>
      BY DEF Units
    <3>2. PICK y, j : y \in S /\ j \in 1 .. n[y] /\ v = <<y, j>>
      BY DEF Units
    <3>3. b[x][i] = b[y][j]
      BY <2>2, <3>1, <3>2
    <3>4. x = y
      BY <1>2, <3>1, <3>2, <3>3
    <3>5. i = j
      BY <1>2, <3>1, <3>2, <3>3, <3>4
    <3>6. QED
      BY <3>1, <3>2, <3>4, <3>5
  <2>3. ASSUME NEW d \in D
        PROVE  \E u \in U : number[u] = d
    <3>1. PICK x \in S : d \in C[x]
      OBVIOUS
    <3>2. PICK i \in 1 .. n[x] : b[x][i] = d
      BY <1>2, <3>1
    <3>3. <<x, i>> \in U
      BY <3>2, UnitsMember
    <3>4. number[<<x, i>>] = d
      BY <3>2, <3>3
    <3>5. QED
      BY <3>3, <3>4
  <2>4. number \in [U -> D]
    BY <2>1
  <2>5. QED
    BY <2>2, <2>3, <2>4 DEF Bijection, Injection, IsInjective, Surjection
<1>4. IsFiniteSet(U)
  <2>1. number \in Injection(U, D)
    BY <1>3 DEF Bijection
  <2>2. QED
    BY <2>1, FS_Injection
<1>5. QED
  BY <1>3, <1>4, FS_Bijection, Zenon DEF ExistsBijection, Total

-----------------------------------------------------------------------------
(* The inductive invariant.                                                *)

\* Without a wallet there is nothing; a lot that was never granted is empty.
AbsentRows(d) ==
    /\ \A l \in Lots : d.lots[l].status = "none" => d.lots[l] = NoLot
    /\ ~d.wallet.exists =>
          d.wallet.available = 0 /\ \A l \in Lots : d.lots[l].status = "none"

Consistent(d) ==
    /\ d \in Rows
    /\ CountersMatch(d)
    /\ LedgerMatches(d)
    /\ WalletMatches(d)
    /\ SpentWhenExhausted(d)
    /\ AbsentRows(d)

IInv == Consistent(db) /\ clock \in Nat

-----------------------------------------------------------------------------
(* Facts every proof below uses.                                           *)

\* The sessions counted are finitely many.
LEMMA FiniteSessions ==
    ASSUME NEW d, NEW l
    PROVE  /\ IsFiniteSet(Reserved(d, l)) /\ Cardinality(Reserved(d, l)) \in Nat
           /\ IsFiniteSet(Captured(d, l)) /\ Cardinality(Captured(d, l)) \in Nat
           /\ IsFiniteSet(Held(d)) /\ Cardinality(Held(d)) \in Nat
<1>1. IsFiniteSet(Sessions)
  BY LedgerAssumption
<1>2. /\ Reserved(d, l) \in SUBSET Sessions
      /\ Captured(d, l) \in SUBSET Sessions
      /\ Held(d) \in SUBSET Sessions
  BY DEF Reserved, Captured, Held
<1>3. IsFiniteSet(Reserved(d, l)) /\ IsFiniteSet(Captured(d, l)) /\ IsFiniteSet(Held(d))
  BY <1>1, <1>2, FS_Subset
<1>4. QED
  BY <1>3, FS_CardinalityType

\* So are the lots.
LEMMA FiniteLots == IsFiniteSet(Lots)
<1>1. Lots = Payments \cup {FreeLot}
  BY DEF Lots
<1>2. QED
  BY <1>1, LedgerAssumption, FS_AddElement

\* Rows are a record of functions of records: the field types, once.
LEMMA RowTypes ==
    ASSUME NEW d \in Rows
    PROVE  /\ d.wallet \in WalletRow
           /\ d.lots \in [Lots -> LotRow]
           /\ d.reservations \in [Sessions -> ReservationRow]
           /\ d.ledger \in [Lots -> Nat]
           /\ d = [wallet |-> d.wallet, lots |-> d.lots,
                   reservations |-> d.reservations, ledger |-> d.ledger]
  BY DEF Rows

-----------------------------------------------------------------------------
(* The primitives keep rows consistent.                                    *)

\* Releasing any set of live holds, the sweep's or a single one.
LEMMA ReleaseKeepsConsistent ==
    ASSUME NEW d, Consistent(d), NEW S \in SUBSET Held(d)
    PROVE  /\ Consistent(releaseReservationRow(d, S))
           /\ \A s \in Sessions :
                 d.reservations[s].status # "held" =>
                    releaseReservationRow(d, S).reservations[s] = d.reservations[s]
<1> DEFINE e == releaseReservationRow(d, S)
           n(l) == Cardinality(HeldOn(d, S, l))
           back == [l \in Lots |-> ReturnedTo(d, S, l)]
<1>1. /\ d \in Rows /\ CountersMatch(d) /\ LedgerMatches(d) /\ WalletMatches(d)
      /\ SpentWhenExhausted(d) /\ AbsentRows(d)
  BY DEF Consistent
<1>2. /\ d.wallet \in WalletRow /\ d.lots \in [Lots -> LotRow]
      /\ d.reservations \in [Sessions -> ReservationRow] /\ d.ledger \in [Lots -> Nat]
  BY <1>1, RowTypes
<1>3. /\ S \subseteq Sessions /\ IsFiniteSet(S) /\ Cardinality(S) \in Nat
      /\ Cardinality(S) <= Cardinality(Held(d))
  <2>1. IsFiniteSet(Held(d)) /\ Held(d) \subseteq Sessions
    BY FiniteSessions DEF Held
  <2>2. QED
    BY <2>1, FS_Subset, FS_CardinalityType
<1>4. ASSUME NEW l \in Lots
      PROVE  /\ HeldOn(d, S, l) \subseteq Reserved(d, l)
             /\ IsFiniteSet(HeldOn(d, S, l))
             /\ n(l) \in Nat /\ n(l) <= Cardinality(Reserved(d, l))
  <2>1. HeldOn(d, S, l) \in SUBSET Reserved(d, l)
    BY <1>3 DEF HeldOn, Reserved
  <2>2. IsFiniteSet(Reserved(d, l))
    BY FiniteSessions
  <2>3. QED
    BY <2>1, <2>2, FS_Subset, FS_CardinalityType
<1>5. /\ e.wallet = [d.wallet EXCEPT !.available = @ + Cardinality(Spendable(d, S)),
                                     !.reserved = @ - Cardinality(S)]
      /\ e.lots = [l \in Lots |-> [d.lots[l] EXCEPT !.reserved = @ - n(l)]]
      /\ e.reservations = [s \in Sessions |->
             IF s \in S THEN [d.reservations[s] EXCEPT !.status = "released"]
                        ELSE d.reservations[s]]
      /\ e.ledger = [l \in Lots |-> d.ledger[l] + ReturnedTo(d, S, l)]
      /\ e = [wallet |-> e.wallet, lots |-> e.lots,
              reservations |-> e.reservations, ledger |-> e.ledger]
  BY DEF releaseReservationRow
<1> HIDE DEF e
<1>6. ASSUME NEW l \in Lots
      PROVE  /\ e.lots[l].status = d.lots[l].status
             /\ e.lots[l].granted = d.lots[l].granted
             /\ e.lots[l].consumed = d.lots[l].consumed
             /\ e.lots[l].expiresAt = d.lots[l].expiresAt
             /\ e.lots[l].reserved = d.lots[l].reserved - n(l)
             /\ e.lots[l] \in LotRow
  <2>1. d.lots[l] \in LotRow /\ d.lots[l].reserved = Cardinality(Reserved(d, l))
    BY <1>1, <1>2 DEF CountersMatch
  <2>2. e.lots[l] = [d.lots[l] EXCEPT !.reserved = @ - n(l)]
    BY <1>5
  <2>3. d.lots[l].reserved - n(l) \in Nat
    BY <1>4, <2>1 DEF LotRow
  <2>4. QED
    BY <2>1, <2>2, <2>3 DEF LotRow
<1>7. CountersMatch(e)
  <2> SUFFICES ASSUME NEW l \in Lots
               PROVE  /\ e.lots[l].reserved = Cardinality(Reserved(e, l))
                      /\ e.lots[l].consumed = Cardinality(Captured(e, l))
                      /\ availableInLot(e.lots[l]) >= 0
    BY DEF CountersMatch
  <2>1. /\ d.lots[l].reserved = Cardinality(Reserved(d, l))
        /\ d.lots[l].consumed = Cardinality(Captured(d, l))
        /\ availableInLot(d.lots[l]) >= 0
        /\ d.lots[l] \in LotRow
    BY <1>1, <1>2 DEF CountersMatch
  <2>2. Reserved(e, l) = Reserved(d, l) \ HeldOn(d, S, l)
    BY <1>2, <1>3, <1>5 DEF Reserved, HeldOn, ReservationRow
  <2>3. Captured(e, l) = Captured(d, l)
    BY <1>2, <1>3, <1>5 DEF Captured, Held, ReservationRow
  <2>4. Reserved(d, l) \cap HeldOn(d, S, l) = HeldOn(d, S, l)
    BY <1>4
  <2>5. Cardinality(Reserved(d, l) \ HeldOn(d, S, l)) = Cardinality(Reserved(d, l)) - n(l)
    <3>1. IsFiniteSet(Reserved(d, l))
      BY FiniteSessions
    <3>2. QED
      BY <2>4, <3>1, FS_Difference
  <2>6. QED
    BY <1>4, <1>6, <2>1, <2>2, <2>3, <2>5 DEF availableInLot, LotRow
<1>8. \A l \in Lots : back[l] \in Nat /\ e.ledger[l] = d.ledger[l] + back[l]
  BY <1>2, <1>4, <1>5 DEF ReturnedTo
<1>9. LedgerMatches(e)
  <2> SUFFICES ASSUME NEW l \in Lots
               PROVE  e.ledger[l] = LotBalance(e.lots[l])
    BY DEF LedgerMatches
  <2>1. d.ledger[l] = LotBalance(d.lots[l]) /\ d.lots[l] \in LotRow
    BY <1>1, <1>2 DEF LedgerMatches
  <2>2. CASE d.lots[l].status = "active"
    BY <1>4, <1>6, <1>8, <2>1, <2>2 DEF LotBalance, availableInLot, ReturnedTo, LotRow
  <2>3. CASE d.lots[l].status = "exhausted"
    <3>1. n(l) = 0
      <4>1. d.lots[l].reserved = 0
        BY <1>1, <2>1, <2>3 DEF SpentWhenExhausted, CountersMatch, availableInLot, LotRow
      <4>2. QED
        BY <1>1, <1>4, <4>1 DEF CountersMatch
    <3>2. QED
      BY <1>6, <1>8, <2>1, <2>3, <3>1 DEF LotBalance, availableInLot, ReturnedTo, LotRow
  <2>4. CASE d.lots[l].status \notin {"active", "exhausted"}
    BY <1>6, <1>8, <2>1, <2>4 DEF LotBalance, ReturnedTo
  <2>5. QED
    BY <2>2, <2>3, <2>4
<1>10. Total(Lots, e.ledger) = Total(Lots, d.ledger) + Cardinality(Spendable(d, S))
  <2> DEFINE D == Spendable(d, S)
             C == [l \in Lots |-> {s \in D : d.reservations[s].lot = l}]
  <2>1. D \subseteq S /\ IsFiniteSet(D)
    <3>1. D \in SUBSET S
      BY DEF Spendable
    <3>2. QED
      BY <1>3, <3>1, FS_Subset
  <2>2. ASSUME NEW l \in Lots
        PROVE  back[l] = Cardinality(C[l])
    <3>1. CASE d.lots[l].status = "active"
      <4>1. HeldOn(d, S, l) = C[l]
        BY <1>3, <3>1 DEF HeldOn, Spendable, Held
      <4>2. QED
        BY <3>1, <4>1 DEF ReturnedTo
    <3>2. CASE d.lots[l].status # "active"
      <4>1. C[l] = {}
        BY <1>3, <2>1, <3>2 DEF Spendable
      <4>2. QED
        BY <3>2, <4>1, FS_EmptySet DEF ReturnedTo
    <3>3. QED
      BY <3>1, <3>2
  <2>3. /\ \A l \in Lots : C[l] \subseteq D
        /\ \A s \in D : \E l \in Lots : s \in C[l]
        /\ \A l, m \in Lots : l # m => C[l] \cap C[m] = {}
    BY <1>2, <1>3, <2>1 DEF ReservationRow
  <2>4. Total(Lots, back) = Cardinality(D)
    <3> HIDE DEF D, C, back
    <3>1. QED
      BY <2>1, <2>2, <2>3, TotalOfClasses
  <2>5. Total(Lots, e.ledger) = Total(Lots, d.ledger) + Total(Lots, back)
    <3>1. \A l \in Lots : d.ledger[l] \in Nat
      BY <1>2
    <3> HIDE DEF back
    <3>2. QED
      BY <1>8, <3>1, FiniteLots, TotalSum
  <2>6. QED
    BY <2>4, <2>5
<1>11. WalletMatches(e)
  <2>1. Held(e) = Held(d) \ S
    BY <1>2, <1>3, <1>5 DEF Held, ReservationRow
  <2>2. Held(d) \cap S = S
    OBVIOUS
  <2>3. Cardinality(Held(e)) = Cardinality(Held(d)) - Cardinality(S)
    <3>1. IsFiniteSet(Held(d))
      BY FiniteSessions
    <3>2. QED
      BY <2>1, <2>2, <3>1, FS_Difference
  <2>4. /\ e.wallet.available = d.wallet.available + Cardinality(Spendable(d, S))
        /\ e.wallet.reserved = d.wallet.reserved - Cardinality(S)
    BY <1>2, <1>5 DEF WalletRow
  <2>5. QED
    BY <1>1, <1>10, <2>3, <2>4 DEF WalletMatches
<1>12. e \in Rows
  <2>1. e.reservations \in [Sessions -> ReservationRow]
    <3>1. ASSUME NEW s \in Sessions
          PROVE  e.reservations[s] \in ReservationRow
      <4>1. d.reservations[s] \in ReservationRow
        BY <1>2
      <4>2. e.reservations[s] \in {d.reservations[s],
                                  [d.reservations[s] EXCEPT !.status = "released"]}
        BY <1>5
      <4>3. QED
        BY <4>1, <4>2 DEF ReservationRow, ReservationStatus
    <3>2. QED
      BY <1>5, <3>1
  <2>2. e.ledger \in [Lots -> Nat]
    BY <1>2, <1>5, <1>8
  <2>3. e.lots \in [Lots -> LotRow]
    BY <1>5, <1>6
  <2>4. e.wallet \in WalletRow
    <3>1. IsFiniteSet(Spendable(d, S)) /\ Cardinality(Spendable(d, S)) \in Nat
      <4>1. Spendable(d, S) \in SUBSET S
        BY DEF Spendable
      <4>2. QED
        BY <1>3, <4>1, FS_Subset, FS_CardinalityType
    <3>2. d.wallet.reserved - Cardinality(S) \in Nat
      BY <1>1, <1>2, <1>3 DEF WalletMatches, WalletRow
    <3>3. d.wallet.available + Cardinality(Spendable(d, S)) \in Nat
      BY <1>2, <3>1 DEF WalletRow
    <3>4. QED
      BY <1>2, <1>5, <3>2, <3>3 DEF WalletRow
  <2>5. QED
    BY <1>5, <2>1, <2>2, <2>3, <2>4 DEF Rows
<1>13. SpentWhenExhausted(e)
  BY <1>1, <1>6 DEF SpentWhenExhausted
<1>14. AbsentRows(e)
  <2>1. ASSUME NEW l \in Lots, d.lots[l].status = "none"
        PROVE  e.lots[l] = NoLot
    <3>1. d.lots[l] = NoLot
      BY <1>1, <2>1 DEF AbsentRows
    <3>2. n(l) = 0
      BY <1>1, <1>4, <3>1 DEF CountersMatch, NoLot
    <3>3. e.lots[l] = [d.lots[l] EXCEPT !.reserved = @ - n(l)]
      BY <1>5
    <3>4. QED
      BY <3>1, <3>2, <3>3 DEF NoLot
  <2>2. ASSUME ~d.wallet.exists
        PROVE  Cardinality(Spendable(d, S)) = 0
    <3>1. Spendable(d, S) = {}
      BY <1>1, <1>2, <1>3, <2>2 DEF AbsentRows, Spendable, ReservationRow
    <3>2. QED
      BY <3>1, FS_EmptySet
  <2>3. e.wallet.exists = d.wallet.exists /\ d.wallet.exists \in BOOLEAN
    BY <1>2, <1>5 DEF WalletRow
  <2>4. e.wallet.available = d.wallet.available + Cardinality(Spendable(d, S))
    BY <1>2, <1>5 DEF WalletRow
  <2>5. QED
    BY <1>1, <1>6, <2>1, <2>2, <2>3, <2>4 DEF AbsentRows
<1>15. QED
  BY <1>3, <1>5, <1>7, <1>9, <1>11, <1>12, <1>13, <1>14 DEF Consistent, e, Held

\* Writing off every open lot past its date.
LEMMA ExpireKeepsConsistent ==
    ASSUME NEW d, Consistent(d), NEW t
    PROVE  /\ Consistent(expireDueLotsInTx(d, t))
           /\ expireDueLotsInTx(d, t).reservations = d.reservations
<1> DEFINE e == expireDueLotsInTx(d, t)
           due == DueLots(d, t)
           remaining == [l \in Lots |-> availableInLot(d.lots[l])]
<1>1. /\ d \in Rows /\ CountersMatch(d) /\ LedgerMatches(d) /\ WalletMatches(d)
      /\ SpentWhenExhausted(d) /\ AbsentRows(d)
  BY DEF Consistent
<1>2. /\ d.wallet \in WalletRow /\ d.lots \in [Lots -> LotRow]
      /\ d.reservations \in [Sessions -> ReservationRow] /\ d.ledger \in [Lots -> Nat]
  BY <1>1, RowTypes
<1>3. /\ e.wallet = [d.wallet EXCEPT !.available = @ - Total(due, remaining)]
      /\ e.lots = [l \in Lots |->
             IF l \in due THEN [d.lots[l] EXCEPT !.status = "expired"] ELSE d.lots[l]]
      /\ e.reservations = d.reservations
      /\ e.ledger = [l \in Lots |->
             IF l \in due THEN d.ledger[l] - remaining[l] ELSE d.ledger[l]]
      /\ e = [wallet |-> e.wallet, lots |-> e.lots,
              reservations |-> e.reservations, ledger |-> e.ledger]
  BY DEF expireDueLotsInTx
<1>4. due \subseteq Lots /\ IsFiniteSet(due) /\ IsFiniteSet(Lots \ due)
  <2>1. due \in SUBSET Lots /\ Lots \ due \in SUBSET Lots
    BY DEF DueLots
  <2>2. QED
    BY <2>1, FiniteLots, FS_Subset
<1>5. ASSUME NEW l \in due
      PROVE  /\ d.lots[l].status = "active"
             /\ d.ledger[l] = remaining[l] /\ remaining[l] \in Nat /\ e.ledger[l] = 0
  <2>1. d.lots[l].status = "active" /\ l \in Lots /\ d.lots[l] \in LotRow
    BY <1>2 DEF DueLots
  <2>2. d.ledger[l] = availableInLot(d.lots[l]) /\ d.ledger[l] \in Nat
    BY <1>1, <1>2, <2>1 DEF LedgerMatches, LotBalance
  <2>3. QED
    BY <1>3, <2>1, <2>2
<1> HIDE DEF e, due, remaining
<1>6. ASSUME NEW l \in Lots
      PROVE  /\ e.lots[l] \in LotRow
             /\ l \notin due => e.lots[l] = d.lots[l] /\ e.ledger[l] = d.ledger[l]
             /\ l \in due => e.lots[l].status = "expired"
             /\ e.lots[l].granted = d.lots[l].granted
             /\ e.lots[l].consumed = d.lots[l].consumed
             /\ e.lots[l].reserved = d.lots[l].reserved
  <2>1. d.lots[l] \in LotRow
    BY <1>2
  <2>2. QED
    BY <1>3, <2>1 DEF LotRow, LotStatus
<1>7. CountersMatch(e)
  <2>1. \A l : Reserved(e, l) = Reserved(d, l) /\ Captured(e, l) = Captured(d, l)
    BY <1>3 DEF Reserved, Captured
  <2>2. QED
    BY <1>1, <1>6, <2>1 DEF CountersMatch, availableInLot
<1>8. LedgerMatches(e)
  BY <1>1, <1>5, <1>6 DEF LedgerMatches, LotBalance
<1>9. Total(Lots, e.ledger) = Total(Lots, d.ledger) - Total(due, remaining)
      /\ Total(Lots, e.ledger) \in Nat
  <2>1. \A l \in Lots : d.ledger[l] \in Nat /\ e.ledger[l] \in Nat
    BY <1>2, <1>5, <1>6
  <2>2. due \cap (Lots \ due) = {} /\ due \cup (Lots \ due) = Lots
    BY <1>4
  <2>3. Total(Lots, d.ledger) = Total(due, d.ledger) + Total(Lots \ due, d.ledger)
    BY <1>4, <2>1, <2>2, TotalUnion
  <2>4. Total(Lots, e.ledger) = Total(due, e.ledger) + Total(Lots \ due, e.ledger)
    BY <1>4, <2>1, <2>2, TotalUnion
  <2>5. Total(due, d.ledger) = Total(due, remaining)
    BY <1>5, TotalSame
  <2>6. Total(Lots \ due, e.ledger) = Total(Lots \ due, d.ledger)
    BY <1>6, TotalSame
  <2>7. Total(due, e.ledger) = 0
    BY <1>4, <1>5, TotalZero
  <2>8. Total(Lots \ due, d.ledger) \in Nat /\ Total(due, remaining) \in Nat
    BY <1>4, <1>5, <2>1, TotalType
  <2>9. QED
    BY <2>3, <2>4, <2>5, <2>6, <2>7, <2>8
<1>10. WalletMatches(e)
  <2>1. Held(e) = Held(d)
    BY <1>3 DEF Held
  <2>2. /\ e.wallet.available = d.wallet.available - Total(due, remaining)
        /\ e.wallet.reserved = d.wallet.reserved
    BY <1>2, <1>3 DEF WalletRow
  <2>3. QED
    BY <1>1, <1>9, <2>1, <2>2 DEF WalletMatches
<1>11. e \in Rows
  <2>1. e.lots \in [Lots -> LotRow]
    BY <1>3, <1>6
  <2>2. e.ledger \in [Lots -> Nat]
    <3>1. \A l \in Lots : e.ledger[l] \in Nat
      BY <1>2, <1>5, <1>6
    <3>2. QED
      BY <1>3, <3>1
  <2>3. e.wallet \in WalletRow
    <3>1. d.wallet.available - Total(due, remaining) \in Nat
      BY <1>1, <1>9 DEF WalletMatches
    <3>2. QED
      BY <1>2, <1>3, <3>1 DEF WalletRow
  <2>4. QED
    BY <1>2, <1>3, <2>1, <2>2, <2>3 DEF Rows
<1>12. SpentWhenExhausted(e)
  BY <1>1, <1>6 DEF SpentWhenExhausted
<1>13. AbsentRows(e)
  <2>1. e.wallet.exists = d.wallet.exists
    BY <1>2, <1>3 DEF WalletRow
  <2>2. \A l \in Lots : e.lots[l].status = "none" => e.lots[l] = NoLot
    BY <1>1, <1>6 DEF AbsentRows
  <2>3. ASSUME ~d.wallet.exists
        PROVE  e.wallet.available = 0 /\ \A l \in Lots : e.lots[l].status = "none"
    <3>1. d.wallet.available = 0 /\ \A l \in Lots : d.lots[l].status = "none"
      BY <1>1, <2>3 DEF AbsentRows
    <3>2. due = {}
      BY <1>4, <1>5, <3>1
    <3>3. e.wallet.available = d.wallet.available - Total(due, remaining)
      BY <1>2, <1>3 DEF WalletRow
    <3>4. QED
      BY <1>6, <3>1, <3>2, <3>3, TotalEmpty
  <2>4. QED
    BY <2>1, <2>2, <2>3 DEF AbsentRows
<1>14. QED
  BY <1>3, <1>7, <1>8, <1>10, <1>11, <1>12, <1>13 DEF Consistent, e

\* e differs from d in one lot, in the ledger balance that lot calls for, in
\* the wallet that follows and in the reservations of that lot.
OneLotChange(d, e, l) ==
    /\ e \in Rows
    /\ e.wallet.exists
    /\ \A m \in Lots \ {l} : /\ e.lots[m] = d.lots[m]
                             /\ e.ledger[m] = d.ledger[m]
                             /\ Reserved(e, m) = Reserved(d, m)
                             /\ Captured(e, m) = Captured(d, m)
    /\ e.lots[l].reserved = Cardinality(Reserved(e, l))
    /\ e.lots[l].consumed = Cardinality(Captured(e, l))
    /\ availableInLot(e.lots[l]) >= 0
    /\ e.lots[l].status # "none"
    /\ e.lots[l].status = "exhausted" => e.lots[l].consumed = e.lots[l].granted
    /\ e.ledger[l] = LotBalance(e.lots[l])
    /\ e.wallet.available = d.wallet.available - d.ledger[l] + e.ledger[l]
    /\ e.wallet.reserved = Cardinality(Held(e))

\* A change to one lot that fits with the ledger and the wallet keeps rows consistent.
LEMMA OneLotKeepsConsistent ==
    ASSUME NEW d, Consistent(d), NEW e, NEW l \in Lots, OneLotChange(d, e, l)
    PROVE  Consistent(e)
<1>1. /\ d \in Rows /\ CountersMatch(d) /\ LedgerMatches(d) /\ WalletMatches(d)
      /\ SpentWhenExhausted(d) /\ AbsentRows(d)
  BY DEF Consistent
<1>2. e \in Rows /\ e.wallet.exists
  BY DEF OneLotChange
<1>3. CountersMatch(e)
  BY <1>1 DEF CountersMatch, OneLotChange
<1>4. LedgerMatches(e)
  BY <1>1 DEF LedgerMatches, OneLotChange
<1>5. WalletMatches(e)
  <2>1. Total(Lots, e.ledger) = Total(Lots, d.ledger) - d.ledger[l] + e.ledger[l]
    <3> DEFINE f == d.ledger
               g == e.ledger
    <3>1. \A m \in Lots : f[m] \in Nat /\ g[m] \in Nat
      BY <1>1, <1>2, RowTypes
    <3>2. \A m \in Lots \ {l} : g[m] = f[m]
      BY DEF OneLotChange
    <3> HIDE DEF f, g
    <3>3. Total(Lots, g) = Total(Lots, f) - f[l] + g[l]
      BY <3>1, <3>2, FiniteLots, TotalPoint
    <3>4. QED
      BY <3>3 DEF f, g
  <2>2. QED
    BY <1>1, <2>1 DEF WalletMatches, OneLotChange
<1>6. SpentWhenExhausted(e)
  BY <1>1 DEF SpentWhenExhausted, OneLotChange
<1>7. AbsentRows(e)
  BY <1>1, <1>2 DEF AbsentRows, OneLotChange
<1>8. QED
  BY <1>2, <1>3, <1>4, <1>5, <1>6, <1>7 DEF Consistent

\* The row types, parts and finite sets of consistent rows, in one citation.
LEMMA ConsistentParts ==
    ASSUME NEW d, Consistent(d)
    PROVE  /\ d.wallet \in WalletRow /\ d.lots \in [Lots -> LotRow]
           /\ d.reservations \in [Sessions -> ReservationRow]
           /\ d.ledger \in [Lots -> Nat]
           /\ d = [wallet |-> d.wallet, lots |-> d.lots,
                   reservations |-> d.reservations, ledger |-> d.ledger]
           /\ d.wallet.available = Total(Lots, d.ledger)
           /\ d.wallet.reserved = Cardinality(Held(d))
           /\ \A l \in Lots :
                 /\ d.lots[l] \in LotRow
                 /\ d.ledger[l] = LotBalance(d.lots[l])
                 /\ d.lots[l].reserved = Cardinality(Reserved(d, l))
                 /\ d.lots[l].consumed = Cardinality(Captured(d, l))
                 /\ availableInLot(d.lots[l]) \in Nat
                 /\ d.lots[l].status # "none" => d.wallet.exists
<1>1. /\ d \in Rows /\ CountersMatch(d) /\ LedgerMatches(d) /\ WalletMatches(d)
      /\ AbsentRows(d)
  BY DEF Consistent
<1>2. ASSUME NEW l \in Lots
      PROVE  d.lots[l] \in LotRow /\ availableInLot(d.lots[l]) \in Nat
  <2>1. d.lots[l] \in LotRow
    BY <1>1, RowTypes
  <2>2. QED
    BY <1>1, <2>1 DEF CountersMatch, availableInLot, LotRow
<1>3. QED
  BY <1>1, <1>2, RowTypes DEF CountersMatch, LedgerMatches, WalletMatches, AbsentRows

\* What leaving one lot out of the ledger total leaves: never less than zero.
LEMMA BalanceWithinTotal ==
    ASSUME NEW d, Consistent(d), NEW l \in Lots
    PROVE  d.wallet.available - d.ledger[l] \in Nat
<1> DEFINE R == Lots \ {l}
           f == d.ledger
<1>1. R \cap {l} = {} /\ R \cup {l} = Lots
  OBVIOUS
<1>2. IsFiniteSet(R) /\ IsFiniteSet({l})
  BY FiniteLots, FS_RemoveElement, FS_Singleton, Zenon
<1>3. \A x \in R \cup {l} : f[x] \in Nat
  BY ConsistentParts
<1>4. Total({l}, f) = f[l] /\ Total(R, f) \in Nat
  BY <1>2, <1>3, UnitsSingleton, TotalType
<1>5. f[l] \in Nat /\ d.wallet.available = Total(Lots, f)
  BY <1>3, ConsistentParts
<1> HIDE DEF R, f
<1>6. Total(R \cup {l}, f) = Total(R, f) + Total({l}, f)
  BY <1>1, <1>2, <1>3, TotalUnion
<1>7. Total(Lots, f) = Total(R, f) + Total({l}, f)
  <2>1. Total(R \cup {l}, f) = Total(Lots, f)
    BY <1>1, Zenon
  <2>2. QED
    BY <1>6, <2>1
<1>8. d.wallet.available - f[l] \in Nat
  BY <1>4, <1>5, <1>7
<1>9. QED
  BY <1>8 DEF f

\* Opening the wallet with its free lot.
LEMMA EnsureWalletKeepsConsistent ==
    ASSUME NEW d, Consistent(d), ~d.wallet.exists, NEW t \in Nat, NEW ttl \in Nat
    PROVE  Consistent(ensureWallet(d, t, ttl))
<1> DEFINE e == ensureWallet(d, t, ttl)
           row == NewLot(FIRST_FIVE_CREDITS, t + ttl)
<1>1. FIRST_FIVE_CREDITS \in Nat /\ FreeLot \in Lots
  BY LedgerAssumption DEF Lots
<1>2. /\ row \in LotRow /\ LotBalance(row) = FIRST_FIVE_CREDITS
      /\ row.reserved = 0 /\ row.consumed = 0 /\ row.status = "active"
      /\ availableInLot(row) >= 0
  BY <1>1 DEF NewLot, LotRow, LotStatus, LotBalance, availableInLot
<1>3. /\ e.wallet = [d.wallet EXCEPT !.exists = TRUE, !.available = FIRST_FIVE_CREDITS]
      /\ e.lots = [d.lots EXCEPT ![FreeLot] = row]
      /\ e.reservations = d.reservations
      /\ e.ledger = [d.ledger EXCEPT ![FreeLot] = FIRST_FIVE_CREDITS]
      /\ e = [wallet |-> e.wallet, lots |-> e.lots,
              reservations |-> e.reservations, ledger |-> e.ledger]
  BY DEF ensureWallet
<1> HIDE DEF e, row
<1>4. /\ d.wallet \in WalletRow /\ d.lots \in [Lots -> LotRow]
      /\ d.reservations \in [Sessions -> ReservationRow] /\ d.ledger \in [Lots -> Nat]
      /\ d.wallet.reserved = Cardinality(Held(d))
  BY ConsistentParts
<1>5. /\ e.wallet \in WalletRow /\ e.wallet.exists
      /\ e.wallet.available = FIRST_FIVE_CREDITS /\ e.wallet.reserved = d.wallet.reserved
  BY <1>1, <1>3, <1>4 DEF WalletRow
<1>6. /\ \A m : Reserved(e, m) = Reserved(d, m) /\ Captured(e, m) = Captured(d, m)
      /\ Held(e) = Held(d)
  BY <1>3 DEF Reserved, Captured, Held
<1>7. d.wallet.available = 0 /\ d.lots[FreeLot] = NoLot
  BY <1>1 DEF Consistent, AbsentRows
<1>8. /\ d.ledger[FreeLot] = 0
      /\ Cardinality(Reserved(d, FreeLot)) = 0 /\ Cardinality(Captured(d, FreeLot)) = 0
  BY <1>1, <1>7, ConsistentParts DEF NoLot, LotBalance
<1>9. e \in Rows
  BY <1>1, <1>2, <1>3, <1>4, <1>5 DEF Rows
<1>10. OneLotChange(d, e, FreeLot)
  BY <1>1, <1>2, <1>3, <1>4, <1>5, <1>6, <1>7, <1>8, <1>9 DEF OneLotChange
<1>11. Consistent(e)
  BY <1>1, <1>10, OneLotKeepsConsistent
<1>12. QED
  BY <1>11 DEF e

\* Crediting a payment that has no lot yet.
LEMMA GrantKeepsConsistent ==
    ASSUME NEW d, Consistent(d), d.wallet.exists, NEW t \in Nat, NEW p \in Payments,
           CanGrant(d, p)
    PROVE  Consistent(grantPurchasedCreditLot(d, p, t))
<1> DEFINE e == grantPurchasedCreditLot(d, p, t)
           row == NewLot(PackCredits[p], t + PAID_CREDIT_EXPIRY_DAYS)
           credits == PackCredits[p]
<1>1. /\ credits \in Nat /\ PAID_CREDIT_EXPIRY_DAYS \in Nat
      /\ Currency[p] \in Currencies /\ p \in Lots
  BY LedgerAssumption DEF Lots
<1>2. /\ row \in LotRow /\ LotBalance(row) = credits
      /\ row.reserved = 0 /\ row.consumed = 0 /\ row.status = "active"
      /\ availableInLot(row) >= 0
  BY <1>1 DEF NewLot, LotRow, LotStatus, LotBalance, availableInLot
<1>3. /\ e.wallet = [d.wallet EXCEPT !.settlementCurrency = Currency[p],
                                     !.available = @ + credits]
      /\ e.lots = [d.lots EXCEPT ![p] = row]
      /\ e.reservations = d.reservations
      /\ e.ledger = [d.ledger EXCEPT ![p] = @ + credits]
      /\ e = [wallet |-> e.wallet, lots |-> e.lots,
              reservations |-> e.reservations, ledger |-> e.ledger]
  BY DEF grantPurchasedCreditLot
<1> HIDE DEF e, row, credits
<1>4. /\ d.wallet \in WalletRow /\ d.lots \in [Lots -> LotRow]
      /\ d.reservations \in [Sessions -> ReservationRow] /\ d.ledger \in [Lots -> Nat]
      /\ d.wallet.reserved = Cardinality(Held(d))
  BY ConsistentParts
<1>5. /\ e.wallet \in WalletRow /\ e.wallet.exists
      /\ e.wallet.available = d.wallet.available + credits
      /\ e.wallet.reserved = d.wallet.reserved
  <2>1. d.wallet.available \in Nat /\ d.wallet.available + credits \in Nat
    BY <1>1, <1>4 DEF WalletRow
  <2>2. e.wallet = [exists |-> d.wallet.exists,
                    available |-> d.wallet.available + credits,
                    reserved |-> d.wallet.reserved,
                    settlementCurrency |-> Currency[p]]
    BY <1>3, <1>4 DEF WalletRow
  <2>3. d.wallet.exists \in BOOLEAN /\ d.wallet.reserved \in Nat
    BY <1>4 DEF WalletRow
  <2>4. e.wallet \in WalletRow
    BY <1>1, <2>1, <2>2, <2>3 DEF WalletRow
  <2>5. QED
    BY <2>2, <2>4
<1>6. /\ \A m : Reserved(e, m) = Reserved(d, m) /\ Captured(e, m) = Captured(d, m)
      /\ Held(e) = Held(d)
  BY <1>3 DEF Reserved, Captured, Held
<1>7. d.lots[p] = NoLot
  BY <1>1 DEF Consistent, AbsentRows, CanGrant, PaidLots
<1>8. /\ d.ledger[p] = 0 /\ e.ledger[p] = credits
      /\ Cardinality(Reserved(d, p)) = 0 /\ Cardinality(Captured(d, p)) = 0
  <2>1. /\ d.ledger[p] = 0
        /\ Cardinality(Reserved(d, p)) = 0 /\ Cardinality(Captured(d, p)) = 0
    BY <1>1, <1>7, ConsistentParts DEF NoLot, LotBalance
  <2>2. QED
    BY <1>1, <1>3, <1>4, <2>1
<1>9. e \in Rows
  <2>1. e.ledger \in [Lots -> Nat]
    BY <1>1, <1>3, <1>4
  <2>2. QED
    BY <1>1, <1>2, <1>3, <1>4, <1>5, <2>1 DEF Rows
<1>10. e.wallet.available = d.wallet.available - d.ledger[p] + e.ledger[p]
  BY <1>1, <1>4, <1>5, <1>8 DEF WalletRow
<1>11. OneLotChange(d, e, p)
  BY <1>1, <1>2, <1>3, <1>4, <1>5, <1>6, <1>8, <1>9, <1>10 DEF OneLotChange
<1>12. Consistent(e)
  BY <1>1, <1>11, OneLotKeepsConsistent
<1>13. QED
  BY <1>12 DEF e

\* Changing the status of a lot with live counters, and the balance with it:
\* freezing, revoking and unfreezing all have this shape.
LEMMA StatusKeepsConsistent ==
    ASSUME NEW d, Consistent(d), NEW l \in Lots, d.lots[l].status # "none",
           NEW status \in {"active", "frozen", "revoked"},
           NEW balance \in Nat, NEW e,
           balance = IF status = "active" THEN availableInLot(d.lots[l]) ELSE 0,
           e = [wallet |-> [d.wallet EXCEPT !.available = @ - d.ledger[l] + balance],
                lots |-> [d.lots EXCEPT ![l].status = status],
                reservations |-> d.reservations,
                ledger |-> [d.ledger EXCEPT ![l] = balance]]
    PROVE  Consistent(e)
<1>1. /\ d.wallet \in WalletRow /\ d.lots \in [Lots -> LotRow]
      /\ d.reservations \in [Sessions -> ReservationRow] /\ d.ledger \in [Lots -> Nat]
      /\ d.wallet.reserved = Cardinality(Held(d)) /\ d.wallet.exists
      /\ d.lots[l] \in LotRow /\ availableInLot(d.lots[l]) \in Nat
      /\ d.lots[l].reserved = Cardinality(Reserved(d, l))
      /\ d.lots[l].consumed = Cardinality(Captured(d, l))
  BY ConsistentParts
<1>2. /\ e.wallet = [d.wallet EXCEPT !.available = @ - d.ledger[l] + balance]
      /\ e.lots = [d.lots EXCEPT ![l].status = status]
      /\ e.reservations = d.reservations
      /\ e.ledger = [d.ledger EXCEPT ![l] = balance]
  OBVIOUS
<1>3. /\ e.lots[l] \in LotRow /\ e.lots[l].status = status
      /\ e.lots[l].reserved = d.lots[l].reserved /\ e.lots[l].consumed = d.lots[l].consumed
      /\ availableInLot(e.lots[l]) = availableInLot(d.lots[l])
      /\ e.lots \in [Lots -> LotRow]
  BY <1>1, <1>2 DEF LotRow, LotStatus, availableInLot
<1>4. /\ \A m \in Lots \ {l} : e.lots[m] = d.lots[m] /\ e.ledger[m] = d.ledger[m]
      /\ e.ledger[l] = balance /\ e.ledger \in [Lots -> Nat]
  BY <1>1, <1>2
<1>5. /\ \A m : Reserved(e, m) = Reserved(d, m) /\ Captured(e, m) = Captured(d, m)
      /\ Held(e) = Held(d)
  BY <1>2 DEF Reserved, Captured, Held
<1>6. /\ e.wallet \in WalletRow /\ e.wallet.exists
      /\ e.wallet.reserved = d.wallet.reserved
      /\ e.wallet.available = d.wallet.available - d.ledger[l] + balance
  <2>1. d.wallet.available - d.ledger[l] \in Nat
    BY BalanceWithinTotal
  <2>2. d.wallet.available - d.ledger[l] + balance \in Nat
    BY <2>1
  <2>3. QED
    BY <1>1, <1>2, <2>2 DEF WalletRow
<1>7. e \in Rows
  BY <1>1, <1>2, <1>3, <1>4, <1>6 DEF Rows
<1>8. e.ledger[l] = LotBalance(e.lots[l])
  BY <1>3, <1>4 DEF LotBalance
<1>9. OneLotChange(d, e, l)
  <2>1. /\ e.lots[l].reserved = Cardinality(Reserved(e, l))
        /\ e.lots[l].consumed = Cardinality(Captured(e, l))
        /\ e.wallet.reserved = Cardinality(Held(e))
    BY <1>1, <1>3, <1>5, <1>6
  <2>2. availableInLot(e.lots[l]) >= 0 /\ e.lots[l].status # "none"
    BY <1>1, <1>3
  <2>3. e.lots[l].status = "exhausted" => e.lots[l].consumed = e.lots[l].granted
    BY <1>1, <1>3
  <2>4. e.wallet.available = d.wallet.available - d.ledger[l] + e.ledger[l]
    BY <1>4, <1>6
  <2>5. QED
    BY <1>4, <1>5, <1>6, <1>7, <1>8, <2>1, <2>2, <2>3, <2>4 DEF OneLotChange
<1>10. QED
  BY <1>9, OneLotKeepsConsistent

\* Holding a credit of an eligible lot for a session that has no live hold.
LEMMA HoldKeepsConsistent ==
    ASSUME NEW d, Consistent(d), NEW s \in Sessions, NEW l \in Lots, NEW t \in Nat,
           d.reservations[s].status \notin {"held", "captured"},
           isLotEligible(d.lots[l], t)
    PROVE  Consistent(Hold(d, s, l, t))
<1> DEFINE e == Hold(d, s, l, t)
           hold == [status |-> "held", lot |-> l, expiresAt |-> t + RESERVATION_TTL_HOURS]
<1>1. /\ d.wallet \in WalletRow /\ d.lots \in [Lots -> LotRow]
      /\ d.reservations \in [Sessions -> ReservationRow] /\ d.ledger \in [Lots -> Nat]
      /\ d.wallet.reserved = Cardinality(Held(d))
      /\ d.lots[l] \in LotRow
      /\ d.lots[l].reserved = Cardinality(Reserved(d, l))
      /\ d.lots[l].consumed = Cardinality(Captured(d, l))
      /\ d.ledger[l] = LotBalance(d.lots[l])
  BY ConsistentParts
<1>2. /\ d.lots[l].status = "active" /\ d.wallet.exists
      /\ availableInLot(d.lots[l]) > 0 /\ d.ledger[l] = availableInLot(d.lots[l])
  BY <1>1, ConsistentParts DEF isLotEligible, isLotClockActive, LotBalance
<1>3. hold \in ReservationRow /\ hold.status = "held" /\ hold.lot = l
  BY LedgerAssumption DEF ReservationRow, ReservationStatus
<1>4. /\ e.wallet = [d.wallet EXCEPT !.available = @ - 1, !.reserved = @ + 1]
      /\ e.lots = [d.lots EXCEPT ![l].reserved = @ + 1]
      /\ e.reservations = [d.reservations EXCEPT ![s] = hold]
      /\ e.ledger = [d.ledger EXCEPT ![l] = @ - 1]
      /\ e = [wallet |-> e.wallet, lots |-> e.lots,
              reservations |-> e.reservations, ledger |-> e.ledger]
  BY DEF Hold
<1> HIDE DEF e, hold
<1>5. /\ e.lots[l] \in LotRow /\ e.lots[l].status = "active"
      /\ e.lots[l].reserved = d.lots[l].reserved + 1
      /\ e.lots[l].consumed = d.lots[l].consumed
      /\ availableInLot(e.lots[l]) = availableInLot(d.lots[l]) - 1
      /\ e.lots \in [Lots -> LotRow]
  BY <1>1, <1>2, <1>4 DEF LotRow, availableInLot
<1>6. /\ \A m \in Lots \ {l} : e.lots[m] = d.lots[m] /\ e.ledger[m] = d.ledger[m]
      /\ e.ledger[l] = d.ledger[l] - 1 /\ e.ledger[l] \in Nat
      /\ e.ledger \in [Lots -> Nat]
  <2>1. d.ledger[l] - 1 \in Nat
    BY <1>1, <1>2 DEF availableInLot, LotRow
  <2>2. QED
    BY <1>1, <1>4, <2>1
<1>7. /\ e.reservations \in [Sessions -> ReservationRow] /\ e.reservations[s] = hold
      /\ \A r \in Sessions \ {s} : e.reservations[r] = d.reservations[r]
  BY <1>1, <1>3, <1>4
<1>8. /\ \A m \in Lots \ {l} : Reserved(e, m) = Reserved(d, m)
      /\ \A m : Captured(e, m) = Captured(d, m)
      /\ Reserved(e, l) = Reserved(d, l) \cup {s} /\ s \notin Reserved(d, l)
      /\ Held(e) = Held(d) \cup {s} /\ s \notin Held(d)
  BY <1>3, <1>7 DEF Reserved, Captured, Held
<1>9. /\ Cardinality(Reserved(e, l)) = Cardinality(Reserved(d, l)) + 1
      /\ Cardinality(Held(e)) = Cardinality(Held(d)) + 1
  <2>1. IsFiniteSet(Reserved(d, l)) /\ IsFiniteSet(Held(d))
    BY FiniteSessions
  <2>2. Cardinality(Reserved(d, l) \cup {s}) = Cardinality(Reserved(d, l)) + 1
    BY <1>8, <2>1, FS_AddElement
  <2>3. Cardinality(Held(d) \cup {s}) = Cardinality(Held(d)) + 1
    BY <1>8, <2>1, FS_AddElement
  <2>4. QED
    BY <1>8, <2>2, <2>3
<1>10. /\ e.wallet \in WalletRow /\ e.wallet.exists
       /\ e.wallet.available = d.wallet.available - 1
       /\ e.wallet.reserved = d.wallet.reserved + 1
  <2>1. d.wallet.available - d.ledger[l] \in Nat
    BY BalanceWithinTotal
  <2>2. d.wallet.available - 1 \in Nat
    BY <1>1, <1>6, <2>1 DEF WalletRow
  <2>3. d.wallet.reserved + 1 \in Nat
    BY <1>1 DEF WalletRow
  <2>4. e.wallet = [exists |-> d.wallet.exists,
                    available |-> d.wallet.available - 1,
                    reserved |-> d.wallet.reserved + 1,
                    settlementCurrency |-> d.wallet.settlementCurrency]
    BY <1>1, <1>4 DEF WalletRow
  <2>5. /\ d.wallet.exists \in BOOLEAN
        /\ d.wallet.settlementCurrency \in Currencies \cup {NoCurrency}
    BY <1>1 DEF WalletRow
  <2>6. e.wallet \in WalletRow
    BY <2>2, <2>3, <2>4, <2>5 DEF WalletRow
  <2>7. QED
    BY <1>1, <1>2, <2>4, <2>6
<1>11. e \in Rows
  BY <1>4, <1>5, <1>6, <1>7, <1>10 DEF Rows
<1>12. e.ledger[l] = LotBalance(e.lots[l])
  BY <1>2, <1>5, <1>6 DEF LotBalance
<1>13. e.wallet.available = d.wallet.available - d.ledger[l] + e.ledger[l]
  BY <1>1, <1>6, <1>10 DEF WalletRow
<1>14. availableInLot(e.lots[l]) >= 0
  BY <1>1, <1>2, <1>5 DEF availableInLot, LotRow
<1>15. OneLotChange(d, e, l)
  BY <1>1, <1>5, <1>6, <1>8, <1>9, <1>10, <1>11, <1>12, <1>13, <1>14 DEF OneLotChange
<1>16. Consistent(e)
  BY <1>15, OneLotKeepsConsistent
<1>17. QED
  BY <1>16 DEF e

\* A live hold renewed.
LEMMA RenewKeepsConsistent ==
    ASSUME NEW d, Consistent(d), NEW s \in Sessions, NEW t \in Nat
    PROVE  Consistent(Renew(d, s, t))
<1> DEFINE e == Renew(d, s, t)
<1>1. /\ d \in Rows /\ d.wallet \in WalletRow /\ d.lots \in [Lots -> LotRow]
      /\ d.reservations \in [Sessions -> ReservationRow] /\ d.ledger \in [Lots -> Nat]
      /\ d = [wallet |-> d.wallet, lots |-> d.lots,
              reservations |-> d.reservations, ledger |-> d.ledger]
  BY RowTypes DEF Consistent
<1>2. /\ e.wallet = d.wallet /\ e.lots = d.lots /\ e.ledger = d.ledger
      /\ e.reservations =
            [d.reservations EXCEPT ![s].expiresAt = t + RESERVATION_TTL_HOURS]
      /\ e = [wallet |-> e.wallet, lots |-> e.lots,
              reservations |-> e.reservations, ledger |-> e.ledger]
  BY <1>1 DEF Renew
<1> HIDE DEF e
<1>3. RESERVATION_TTL_HOURS \in Nat
  BY LedgerAssumption
<1>4. ASSUME NEW r \in Sessions
      PROVE  /\ e.reservations[r] \in ReservationRow
             /\ e.reservations[r].status = d.reservations[r].status
             /\ e.reservations[r].lot = d.reservations[r].lot
  <2>1. d.reservations[r] \in ReservationRow
    BY <1>1
  <2>2. QED
    BY <1>1, <1>2, <1>3, <2>1 DEF ReservationRow
<1>5. /\ \A m : Reserved(e, m) = Reserved(d, m) /\ Captured(e, m) = Captured(d, m)
      /\ Held(e) = Held(d)
  BY <1>4 DEF Reserved, Captured, Held
<1>6. e.reservations \in [Sessions -> ReservationRow]
  BY <1>1, <1>2, <1>4
<1>7. e \in Rows
  BY <1>1, <1>2, <1>6 DEF Rows
<1>8. Consistent(e)
  BY <1>2, <1>5, <1>7 DEF Consistent, CountersMatch, LedgerMatches, WalletMatches,
                          SpentWhenExhausted, AbsentRows
<1>9. QED
  BY <1>8 DEF e

\* A live hold turned into a charge.
LEMMA CaptureKeepsConsistent ==
    ASSUME NEW d, Consistent(d), NEW s \in Sessions, d.reservations[s].status = "held"
    PROVE  Consistent(captureReservationForSession(d, s))
<1> DEFINE e == captureReservationForSession(d, s)
           l == d.reservations[s].lot
           old == d.lots[l]
           new == Consume(old)
<1>1. /\ d.wallet \in WalletRow /\ d.lots \in [Lots -> LotRow]
      /\ d.reservations \in [Sessions -> ReservationRow] /\ d.ledger \in [Lots -> Nat]
      /\ d.wallet.reserved = Cardinality(Held(d))
      /\ SpentWhenExhausted(d) /\ AbsentRows(d)
  BY ConsistentParts DEF Consistent
<1>2. l \in Lots /\ d.reservations[s] \in ReservationRow
  BY <1>1 DEF ReservationRow
<1>3. /\ old \in LotRow
      /\ old.reserved = Cardinality(Reserved(d, l))
      /\ old.consumed = Cardinality(Captured(d, l))
      /\ d.ledger[l] = LotBalance(old) /\ availableInLot(old) \in Nat
      /\ old.status # "none" => d.wallet.exists
      /\ old.status = "none" => old = NoLot
      /\ old.status = "exhausted" => old.consumed = old.granted
  BY <1>1, <1>2, ConsistentParts DEF AbsentRows, SpentWhenExhausted
<1>4. /\ e.wallet = [d.wallet EXCEPT !.reserved = @ - 1]
      /\ e.lots = [d.lots EXCEPT ![l] = new]
      /\ e.reservations = [d.reservations EXCEPT ![s].status = "captured"]
      /\ e.ledger = d.ledger
      /\ e = [wallet |-> e.wallet, lots |-> e.lots,
              reservations |-> e.reservations, ledger |-> e.ledger]
  BY DEF captureReservationForSession
<1> HIDE DEF e, l, old, new
<1>5. /\ s \in Reserved(d, l) /\ s \notin Captured(d, l) /\ s \in Held(d)
      /\ \A m \in Lots \ {l} : s \notin Reserved(d, m)
  BY DEF Reserved, Captured, Held, l
<1>6. /\ e.reservations \in [Sessions -> ReservationRow]
      /\ e.reservations[s].status = "captured" /\ e.reservations[s].lot = l
      /\ \A r \in Sessions \ {s} : e.reservations[r] = d.reservations[r]
  BY <1>1, <1>2, <1>4 DEF ReservationRow, ReservationStatus, l
<1>7. /\ \A m \in Lots \ {l} : Reserved(e, m) = Reserved(d, m) /\ Captured(e, m) = Captured(d, m)
      /\ Reserved(e, l) = Reserved(d, l) \ {s}
      /\ Captured(e, l) = Captured(d, l) \cup {s}
      /\ Held(e) = Held(d) \ {s}
  BY <1>5, <1>6 DEF Reserved, Captured, Held
<1>8. /\ Cardinality(Reserved(e, l)) = Cardinality(Reserved(d, l)) - 1
      /\ Cardinality(Captured(e, l)) = Cardinality(Captured(d, l)) + 1
      /\ Cardinality(Held(e)) = Cardinality(Held(d)) - 1
      /\ Cardinality(Held(e)) \in Nat /\ Cardinality(Reserved(e, l)) \in Nat
  <2>1. /\ IsFiniteSet(Reserved(d, l)) /\ IsFiniteSet(Captured(d, l)) /\ IsFiniteSet(Held(d))
        /\ Cardinality(Held(e)) \in Nat /\ Cardinality(Reserved(e, l)) \in Nat
    BY FiniteSessions
  <2>2. Cardinality(Reserved(e, l)) = Cardinality(Reserved(d, l)) - 1
    <3>1. s \in Reserved(d, l) /\ Reserved(e, l) = Reserved(d, l) \ {s}
      BY <1>5, <1>7
    <3>2. Cardinality(Reserved(d, l) \ {s}) = Cardinality(Reserved(d, l)) - 1
      BY <2>1, <3>1, FS_RemoveElement
    <3>3. QED
      BY <3>1, <3>2
  <2>3. Cardinality(Captured(e, l)) = Cardinality(Captured(d, l)) + 1
    BY <1>5, <1>7, <2>1, FS_AddElement
  <2>4. Cardinality(Held(e)) = Cardinality(Held(d)) - 1
    BY <1>5, <1>7, <2>1, FS_RemoveElement
  <2>5. QED
    BY <2>1, <2>2, <2>3, <2>4
<1>9. old.reserved - 1 \in Nat /\ old.consumed + 1 \in Nat /\ old.reserved # 0
  BY <1>3, <1>8 DEF LotRow
<1>10. /\ new.granted = old.granted
       /\ new.consumed = old.consumed + 1 /\ new.reserved = old.reserved - 1
       /\ new.status = IF old.status = "active" /\ old.consumed + 1 >= old.granted
                       THEN "exhausted" ELSE old.status
       /\ new \in LotRow
  BY <1>3, <1>9 DEF Consume, IsSpent, LotRow, LotStatus, new
<1>11. availableInLot(new) = availableInLot(old) /\ availableInLot(new) >= 0
  BY <1>3, <1>9, <1>10 DEF availableInLot, LotRow
<1>12. new.status # "none"
  <2>1. old.status # "none"
    BY <1>3, <1>9 DEF NoLot
  <2>2. QED
    BY <1>10, <2>1
<1>13. new.status = "exhausted" => new.consumed = new.granted
  BY <1>3, <1>9, <1>10, <1>11 DEF availableInLot, LotRow
<1>14. d.ledger[l] = LotBalance(new)
  BY <1>3, <1>10, <1>11 DEF LotBalance
<1>15. /\ e.lots[l] = new /\ \A m \in Lots \ {l} : e.lots[m] = d.lots[m]
       /\ e.lots \in [Lots -> LotRow]
  BY <1>1, <1>2, <1>4, <1>10
<1>16. /\ e.wallet \in WalletRow /\ e.wallet.exists
       /\ e.wallet.available = d.wallet.available
       /\ e.wallet.reserved = d.wallet.reserved - 1
  <2>1. d.wallet.reserved - 1 \in Nat
    BY <1>1, <1>8
  <2>2. d.wallet.exists
    BY <1>3, <1>10, <1>12
  <2>3. QED
    BY <1>1, <1>4, <2>1, <2>2 DEF WalletRow
<1>17. e \in Rows
  BY <1>1, <1>4, <1>6, <1>15, <1>16 DEF Rows
<1>18. e.wallet.available = d.wallet.available - d.ledger[l] + e.ledger[l]
  BY <1>1, <1>2, <1>4, <1>16 DEF WalletRow
<1>19. OneLotChange(d, e, l)
  BY <1>1, <1>3, <1>4, <1>7, <1>8, <1>10, <1>11, <1>12, <1>13, <1>14, <1>15, <1>16,
     <1>17, <1>18 DEF OneLotChange
<1>20. Consistent(e)
  BY <1>2, <1>19, OneLotKeepsConsistent
<1>21. QED
  BY <1>20 DEF e

\* Closing an open lot and taking what is left of it off the wallet.
LEMMA WriteOffKeepsConsistent ==
    ASSUME NEW d, Consistent(d), NEW p \in Lots, d.lots[p].status = "active",
           NEW status \in {"frozen", "revoked"}
    PROVE  Consistent(WriteOff(d, p, status))
<1> DEFINE e == WriteOff(d, p, status)
<1>1. /\ d.wallet \in WalletRow /\ d.ledger \in [Lots -> Nat] /\ d.ledger[p] \in Nat
      /\ WrittenOff(d.lots[p]) = d.ledger[p]
  BY ConsistentParts DEF WrittenOff, LotBalance
<1>2. /\ d.wallet.available \in Nat
      /\ d.wallet.available - d.ledger[p] + 0 = d.wallet.available - d.ledger[p]
      /\ d.ledger[p] - d.ledger[p] = 0
  BY <1>1 DEF WalletRow
<1>3. e = [wallet |-> [d.wallet EXCEPT !.available = @ - d.ledger[p] + 0],
           lots |-> [d.lots EXCEPT ![p].status = status],
           reservations |-> d.reservations,
           ledger |-> [d.ledger EXCEPT ![p] = 0]]
  BY <1>1, <1>2 DEF WriteOff
<1> HIDE DEF e
<1>4. Consistent(e)
  BY <1>3, StatusKeepsConsistent
<1>5. QED
  BY <1>4 DEF e

\* Reopening a frozen lot, and closing it for good.
LEMMA UnfreezeKeepsConsistent ==
    ASSUME NEW d, Consistent(d), NEW p \in Lots, d.lots[p].status = "frozen"
    PROVE  /\ Consistent(Unfreeze(d, p))
           /\ Consistent(Revoke(d, p))
           /\ Unfreeze(d, p).reservations = d.reservations
           /\ Revoke(d, p).reservations = d.reservations
<1> DEFINE e == Unfreeze(d, p)
           r == Revoke(d, p)
           left == availableInLot(d.lots[p])
<1>1. /\ d.wallet \in WalletRow /\ d.ledger \in [Lots -> Nat]
      /\ d.ledger[p] = 0 /\ left \in Nat
      /\ d = [wallet |-> d.wallet, lots |-> d.lots,
              reservations |-> d.reservations, ledger |-> d.ledger]
  BY ConsistentParts DEF LotBalance
<1>2. d.wallet.available \in Nat
  BY <1>1 DEF WalletRow
<1>3. e = [wallet |-> [d.wallet EXCEPT !.available = @ + left],
           lots |-> [d.lots EXCEPT ![p].status = "active"],
           reservations |-> d.reservations,
           ledger |-> [d.ledger EXCEPT ![p] = @ + left]]
  BY DEF Unfreeze
<1>4. r = [wallet |-> d.wallet, lots |-> [d.lots EXCEPT ![p].status = "revoked"],
           reservations |-> d.reservations, ledger |-> d.ledger]
  BY <1>1 DEF Revoke
<1> HIDE DEF e, r, left
<1>5. e = [wallet |-> [d.wallet EXCEPT !.available = @ - d.ledger[p] + left],
           lots |-> [d.lots EXCEPT ![p].status = "active"],
           reservations |-> d.reservations,
           ledger |-> [d.ledger EXCEPT ![p] = left]]
  BY <1>1, <1>2, <1>3
<1>6. r = [wallet |-> [d.wallet EXCEPT !.available = @ - d.ledger[p] + 0],
           lots |-> [d.lots EXCEPT ![p].status = "revoked"],
           reservations |-> d.reservations,
           ledger |-> [d.ledger EXCEPT ![p] = 0]]
  <2>1. [d.wallet EXCEPT !.available = @ - d.ledger[p] + 0] = d.wallet
    BY <1>1, <1>2 DEF WalletRow
  <2>2. [d.ledger EXCEPT ![p] = 0] = d.ledger
    BY <1>1
  <2>3. QED
    BY <1>4, <2>1, <2>2
<1>7. Consistent(e)
  BY <1>1, <1>5, StatusKeepsConsistent DEF left
<1>8. Consistent(r)
  BY <1>6, StatusKeepsConsistent
<1>9. QED
  BY <1>3, <1>4, <1>7, <1>8 DEF e, r

\* What a request that sweeps first works on.
LEMMA SweepKeepsConsistent ==
    ASSUME NEW d, Consistent(d), NEW t
    PROVE  /\ Consistent(Sweep(d, t))
           /\ \A s \in Sessions :
                 d.reservations[s].status # "held" =>
                    Sweep(d, t).reservations[s] = d.reservations[s]
<1> DEFINE e == releaseReservationRow(d, DueHolds(d, t))
<1>1. DueHolds(d, t) \in SUBSET Held(d)
  BY DEF DueHolds, Held
<1>2. /\ Consistent(e)
      /\ \A s \in Sessions :
            d.reservations[s].status # "held" => e.reservations[s] = d.reservations[s]
  BY <1>1, ReleaseKeepsConsistent
<1>3. Sweep(d, t) = expireDueLotsInTx(e, t)
  BY DEF Sweep, releaseExpiredReservationsInTx
<1> HIDE DEF e
<1>4. QED
  BY <1>2, <1>3, ExpireKeepsConsistent

-----------------------------------------------------------------------------
(* The inductive invariant.                                                *)

\* The rows the system starts from are consistent.
LEMMA LegacyIsConsistent == Consistent(Fresh) /\ Consistent(Legacy)
<1> DEFINE zero == [l \in Lots |-> 0]
           packs == LegacyBalance
<1>1. /\ FIRST_FIVE_CREDITS \in Nat /\ PAID_CREDIT_EXPIRY_DAYS \in Nat
      /\ LegacyPayments \subseteq Payments /\ PackCredits \in [Payments -> Nat]
      /\ FreeLot \in Lots /\ FreeLot \notin LegacyPayments /\ FreeLot \notin Payments
      /\ \A p \in LegacyPayments : PackCredits[p] # 0
  BY LedgerAssumption DEF Lots
<1>2. /\ zero \in [Lots -> Nat] /\ packs \in [Lots -> Nat]
      /\ Total(Lots, zero) = 0 /\ Total(Lots, packs) \in Nat
  <2>1. zero \in [Lots -> Nat] /\ packs \in [Lots -> Nat]
    BY <1>1 DEF LegacyBalance
  <2>2. \A x \in Lots : zero[x] = 0
    OBVIOUS
  <2>3. \A x \in Lots : packs[x] \in Nat
    BY <2>1
  <2> HIDE DEF zero, packs
  <2>4. QED
    BY <2>1, <2>2, <2>3, FiniteLots, TotalZero, TotalType
<1>3. NoReservation \in ReservationRow /\ NoLot \in LotRow
  BY <1>1 DEF NoReservation, ReservationRow, ReservationStatus, NoLot, LotRow, LotStatus
<1>4. ASSUME NEW d, d \in {Fresh, Legacy}
      PROVE  /\ \A l : Cardinality(Reserved(d, l)) = 0 /\ Cardinality(Captured(d, l)) = 0
             /\ Cardinality(Held(d)) = 0
             /\ d.reservations \in [Sessions -> ReservationRow]
  <2>1. d.reservations = [s \in Sessions |-> NoReservation]
    <3>1. /\ Fresh.reservations = [s \in Sessions |-> NoReservation]
          /\ Legacy.reservations = [s \in Sessions |-> NoReservation]
      BY DEF Fresh, Legacy
    <3>2. QED
      BY <1>4, <3>1
  <2>2. Held(d) = {} /\ \A l : Reserved(d, l) = {} /\ Captured(d, l) = {}
    BY <2>1 DEF Held, Reserved, Captured, NoReservation
  <2>3. QED
    BY <1>3, <2>1, <2>2, FS_EmptySet
<1>5. Consistent(Fresh)
  <2> DEFINE d == Fresh
  <2>1. /\ d.wallet \in WalletRow /\ ~d.wallet.exists
        /\ d.wallet.available = 0 /\ d.wallet.reserved = 0
        /\ d.lots = [l \in Lots |-> NoLot] /\ d.ledger = zero
        /\ d = [wallet |-> d.wallet, lots |-> d.lots,
                reservations |-> d.reservations, ledger |-> d.ledger]
    BY DEF Fresh, WalletRow
  <2>2. /\ \A l : Cardinality(Reserved(d, l)) = 0 /\ Cardinality(Captured(d, l)) = 0
        /\ Cardinality(Held(d)) = 0
        /\ d.reservations \in [Sessions -> ReservationRow]
    BY <1>4
  <2> HIDE DEF d
  <2>3. \A l \in Lots : d.lots[l] = NoLot /\ d.ledger[l] = 0
    BY <2>1
  <2>4. /\ NoLot.status = "none" /\ availableInLot(NoLot) = 0 /\ LotBalance(NoLot) = 0
        /\ NoLot.reserved = 0 /\ NoLot.consumed = 0
    BY DEF NoLot, availableInLot, LotBalance
  <2>5. d \in Rows
    BY <1>2, <1>3, <2>1, <2>2 DEF Rows
  <2>6. CountersMatch(d) /\ LedgerMatches(d) /\ SpentWhenExhausted(d) /\ AbsentRows(d)
    BY <2>1, <2>2, <2>3, <2>4 DEF CountersMatch, LedgerMatches, SpentWhenExhausted, AbsentRows
  <2>7. WalletMatches(d)
    BY <1>2, <2>1, <2>2 DEF WalletMatches
  <2>8. Consistent(d)
    BY <2>5, <2>6, <2>7 DEF Consistent
  <2>9. QED
    BY <2>8 DEF d
<1>6. Consistent(Legacy)
  <2> DEFINE d == Legacy
             old == [NewLot(FIRST_FIVE_CREDITS, 0) EXCEPT !.status = "expired"]
             paid(p) == NewLot(PackCredits[p], PAID_CREDIT_EXPIRY_DAYS)
  <2>1. /\ d.wallet.exists /\ d.wallet.available = Total(Lots, packs)
        /\ d.wallet.reserved = 0 /\ d.wallet.settlementCurrency = NoCurrency
        /\ d.wallet = [exists |-> TRUE, available |-> Total(Lots, packs),
                       reserved |-> 0, settlementCurrency |-> NoCurrency]
        /\ d.ledger = packs
        /\ d.lots = [l \in Lots |-> CASE l = FreeLot          -> old
                                      [] l \in LegacyPayments -> paid(l)
                                      [] OTHER                -> NoLot]
        /\ d = [wallet |-> d.wallet, lots |-> d.lots,
                reservations |-> d.reservations, ledger |-> d.ledger]
    BY DEF Legacy
  <2>2. /\ \A l : Cardinality(Reserved(d, l)) = 0 /\ Cardinality(Captured(d, l)) = 0
        /\ Cardinality(Held(d)) = 0
        /\ d.reservations \in [Sessions -> ReservationRow]
    BY <1>4
  <2>3. d.wallet \in WalletRow
    BY <1>2, <2>1 DEF WalletRow
  <2> HIDE DEF d, packs
  <2>4. ASSUME NEW l \in Lots
        PROVE  /\ d.lots[l] \in LotRow /\ d.lots[l].reserved = 0 /\ d.lots[l].consumed = 0
               /\ availableInLot(d.lots[l]) \in Nat
               /\ d.ledger[l] = LotBalance(d.lots[l])
               /\ d.lots[l].status # "exhausted"
               /\ d.lots[l].status = "none" => d.lots[l] = NoLot
    <3>1. CASE l = FreeLot
      <4>1. d.lots[l] = old /\ d.ledger[l] = 0
        BY <1>1, <2>1, <3>1 DEF packs, LegacyBalance
      <4>2. QED
        BY <1>1, <4>1 DEF NewLot, LotRow, LotStatus, availableInLot, LotBalance
    <3>2. CASE l \in LegacyPayments
      <4>1. d.lots[l] = paid(l) /\ d.ledger[l] = PackCredits[l] /\ PackCredits[l] \in Nat
        BY <1>1, <2>1, <3>2 DEF packs, LegacyBalance
      <4>2. QED
        BY <1>1, <4>1 DEF NewLot, LotRow, LotStatus, availableInLot, LotBalance
    <3>3. CASE l # FreeLot /\ l \notin LegacyPayments
      <4>1. d.lots[l] = NoLot /\ d.ledger[l] = 0
        BY <2>1, <3>3 DEF packs, LegacyBalance
      <4>2. QED
        BY <1>3, <4>1 DEF NoLot, availableInLot, LotBalance
    <3>4. QED
      BY <3>1, <3>2, <3>3
  <2>5. d.lots \in [Lots -> LotRow]
    BY <2>1, <2>4
  <2>6. d \in Rows
    BY <1>2, <2>1, <2>2, <2>3, <2>5 DEF Rows
  <2>7. CountersMatch(d) /\ LedgerMatches(d) /\ SpentWhenExhausted(d) /\ AbsentRows(d)
    BY <2>1, <2>2, <2>4 DEF CountersMatch, LedgerMatches, SpentWhenExhausted, AbsentRows
  <2>8. WalletMatches(d)
    BY <2>1, <2>2 DEF WalletMatches
  <2>9. Consistent(d)
    BY <2>6, <2>7, <2>8 DEF Consistent
  <2>10. QED
    BY <2>9 DEF d
<1>7. QED
  BY <1>5, <1>6

\* The first state.
LEMMA InitInvariant == Init => IInv
  BY LegacyIsConsistent DEF Init, IInv

\* Every request, with any clock its caller may have read.
LEMMA StepInvariant ==
    ASSUME IInv, NEW t \in RecentClocks, LedgerStep(t)
    PROVE  IInv'
<1>1. Consistent(db) /\ clock \in Nat /\ t \in Nat
  BY DEF IInv, RecentClocks
<1>2. FIRST_FIVE_EXPIRY_DAYS \in Nat /\ PAID_CREDIT_EXPIRY_DAYS \in Nat
      /\ Payments \subseteq Lots /\ db.lots \in [Lots -> LotRow]
      /\ db.reservations \in [Sessions -> ReservationRow]
  BY <1>1, ConsistentParts, LedgerAssumption DEF Lots
<1>3. SUFFICES ASSUME TRUE PROVE \E d : Consistent(d) /\ Commit(d)
  BY <1>1 DEF Commit, IInv
<1>4. ASSUME NEW ttl \in {FIRST_FIVE_EXPIRY_DAYS, PAID_CREDIT_EXPIRY_DAYS}, OpenWallet(t, ttl)
      PROVE  \E d : Consistent(d) /\ Commit(d)
  <2>1. ttl \in Nat /\ ~db.wallet.exists
    BY <1>2, <1>4 DEF OpenWallet
  <2>2. Consistent(ensureWallet(db, t, ttl))
    BY <1>1, <2>1, EnsureWalletKeepsConsistent
  <2>3. QED
    BY <1>4, <2>2 DEF OpenWallet
<1>5. ASSUME NEW p \in Payments, GrantPurchasedCreditLot(p, t)
      PROVE  \E d : Consistent(d) /\ Commit(d)
  <2>1. Consistent(grantPurchasedCreditLot(db, p, t))
    BY <1>1, <1>5, GrantKeepsConsistent DEF GrantPurchasedCreditLot
  <2>2. QED
    BY <1>5, <2>1 DEF GrantPurchasedCreditLot
<1>6. ASSUME NEW p \in Payments, FreezeLotForDispute(p)
      PROVE  \E d : Consistent(d) /\ Commit(d)
  <2>1. /\ Commit(WriteOff(db, p, "frozen"))
        /\ FreezeOutcome(db, p) = "applied"
    BY <1>6 DEF FreezeLotForDispute, freezeLotForDispute
  <2>2. db.lots[p].status = "active"
    BY <2>1 DEF FreezeOutcome
  <2>3. Consistent(WriteOff(db, p, "frozen"))
    BY <1>1, <1>2, <2>2, WriteOffKeepsConsistent
  <2>4. QED
    BY <2>1, <2>3
<1>7. ASSUME NEW p \in Payments, NEW disposition \in {"won", "lost"},
             ResolveDisputeOnLot(p, disposition, t)
      PROVE  \E d : Consistent(d) /\ Commit(d)
  <2>1. ResolveOutcome(db, p) = "applied" /\ Commit(resolveDisputeOnLot(db, p, disposition, t))
    BY <1>7 DEF ResolveDisputeOnLot
  <2>2. db.lots[p].status = "frozen"
    BY <2>1 DEF ResolveOutcome
  <2>3. Consistent(Unfreeze(db, p)) /\ Consistent(Revoke(db, p))
    BY <1>1, <1>2, <2>2, UnfreezeKeepsConsistent
  <2>4. Consistent(expireDueLotsInTx(Unfreeze(db, p), t))
    BY <2>3, ExpireKeepsConsistent
  <2>5. resolveDisputeOnLot(db, p, disposition, t)
           \in {Revoke(db, p), expireDueLotsInTx(Unfreeze(db, p), t)}
    BY <2>1 DEF resolveDisputeOnLot
  <2>6. QED
    BY <2>1, <2>3, <2>4, <2>5
<1>8. ASSUME NEW p \in Payments, NEW amount \in RefundAmounts, RevokeUnconsumedLot(p, amount)
      PROVE  \E d : Consistent(d) /\ Commit(d)
  <2>1. /\ Commit(WriteOff(db, p, "revoked"))
        /\ RevokeOutcome(db, p, amount) = "applied"
    BY <1>8 DEF RevokeUnconsumedLot, revokeUnconsumedLot
  <2>2. db.lots[p].status = "active"
    BY <2>1 DEF RevokeOutcome
  <2>3. Consistent(WriteOff(db, p, "revoked"))
    BY <1>1, <1>2, <2>2, WriteOffKeepsConsistent
  <2>4. QED
    BY <2>1, <2>3
<1>9. ASSUME NEW s \in Sessions, RenewHold(s, t)
      PROVE  \E d : Consistent(d) /\ Commit(d)
  BY <1>1, <1>9, RenewKeepsConsistent DEF RenewHold
<1>10. ASSUME NEW s \in Sessions, ReserveCreditForSession(s, t)
       PROVE  \E d : Consistent(d) /\ Commit(d)
  <2> DEFINE swept == Sweep(db, t)
  <2>1. /\ db.reservations[s].status \in {"none", "released"}
        /\ \/ \E l \in selectLotForReservation(swept, t) : Commit(Hold(swept, s, l, t))
           \/ Commit(swept)
    BY <1>10 DEF ReserveCreditForSession
  <2>2. Consistent(swept) /\ swept.reservations[s] = db.reservations[s]
    BY <1>1, <2>1, SweepKeepsConsistent
  <2> HIDE DEF swept
  <2>3. ASSUME NEW l \in selectLotForReservation(swept, t)
        PROVE  Consistent(Hold(swept, s, l, t))
    <3>1. l \in Lots /\ isLotEligible(swept.lots[l], t)
      BY DEF selectLotForReservation, EligibleLots
    <3>2. swept.reservations[s].status \notin {"held", "captured"}
      BY <2>1, <2>2
    <3>3. QED
      BY <1>1, <2>2, <3>1, <3>2, HoldKeepsConsistent
  <2>4. QED
    BY <2>1, <2>2, <2>3
<1>11. ASSUME NEW s \in Sessions, CaptureReservationForSession(s)
       PROVE  \E d : Consistent(d) /\ Commit(d)
  BY <1>1, <1>11, CaptureKeepsConsistent DEF CaptureReservationForSession
<1>12. ASSUME NEW s \in Sessions, ReleaseReservationForSession(s, t)
       PROVE  \E d : Consistent(d) /\ Commit(d)
  <2>1. {s} \in SUBSET Held(db)
    BY <1>12 DEF ReleaseReservationForSession, Held
  <2>2. Consistent(releaseReservationRow(db, {s}))
    BY <1>1, <2>1, ReleaseKeepsConsistent
  <2>3. Consistent(releaseReservationForSession(db, s, t))
    BY <2>2, ExpireKeepsConsistent DEF releaseReservationForSession
  <2>4. QED
    BY <1>12, <2>3 DEF ReleaseReservationForSession
<1>13. ASSUME ReleaseExpiredReservations(t)
       PROVE  \E d : Consistent(d) /\ Commit(d)
  BY <1>1, <1>13, SweepKeepsConsistent DEF ReleaseExpiredReservations
<1>14. ASSUME ExpireDueLots(t)
       PROVE  \E d : Consistent(d) /\ Commit(d)
  BY <1>1, <1>14, ExpireKeepsConsistent DEF ExpireDueLots
<1>15. QED
  BY <1>4, <1>5, <1>6, <1>7, <1>8, <1>9, <1>10, <1>11, <1>12, <1>13, <1>14 DEF LedgerStep

\* Every step keeps the invariant.
LEMMA NextInvariant == IInv /\ [Next]_vars => IInv'
<1> SUFFICES ASSUME IInv, [Next]_vars PROVE IInv'
  OBVIOUS
<1>1. CASE Tick
  BY <1>1 DEF Tick, IInv
<1>2. CASE \E t \in RecentClocks : LedgerStep(t)
  BY <1>2, StepInvariant
<1>3. CASE UNCHANGED vars
  BY <1>3 DEF vars, IInv
<1>4. QED
  BY <1>1, <1>2, <1>3 DEF Next

-----------------------------------------------------------------------------
(* The theorems.                                                           *)

\* IInv holds in every reachable state.
THEOREM Invariance == Spec => []IInv
  BY InitInvariant, NextInvariant, PTL DEF Spec

\* The rows are always well formed; above all, no counter of the wallet, of a
\* lot or of the ledger is ever negative, whatever the interleaving of holds,
\* charges, refunds, disputes and expiries.
THEOREM TypeCorrect == Spec => []TypeOK
<1>1. IInv => TypeOK
  BY DEF IInv, Consistent, TypeOK
<1>2. QED
  BY <1>1, Invariance, PTL

\* A lot's two counters are the live holds and the charges on it, and never
\* exceed its grant: no interview is charged to a credit that was not bought.
THEOREM CountersAreSessions == Spec => []CountersMatchSessions
<1>1. IInv => CountersMatchSessions
  BY DEF IInv, Consistent, CountersMatchSessions
<1>2. QED
  BY <1>1, Invariance, PTL

\* The ledger entries of a lot sum to what it can still spend, the wallet is the sum
\* of its ledger and the number of live holds, and a lot marked exhausted was charged
\* to its last credit.
THEOREM BooksAlwaysBalance == Spec => []BooksBalance
<1>1. IInv => BooksBalance
  BY DEF IInv, Consistent, BooksBalance
<1>2. QED
  BY <1>1, Invariance, PTL

-----------------------------------------------------------------------------
(* What no step may undo: a charged session stays charged, a granted lot   *)
(* keeps its grant and its date, and the purchases of an organization stay *)
(* in one currency.  The argument is a relation between the rows a         *)
(* transaction finds and the rows it commits.  It is transitive, each      *)
(* primitive satisfies it, and an action composes primitives.              *)

ChargedStayCharged(d, e) ==
    \A s \in Sessions :
        d.reservations[s].status = "captured" => e.reservations[s] = d.reservations[s]

\* Settled things stay settled from d to e.
Continues(d, e) ==
    /\ ChargedStayCharged(d, e)
    /\ \A l \in Lots :
          d.lots[l].status # "none" =>
              /\ e.lots[l].status # "none"
              /\ e.lots[l].granted = d.lots[l].granted
              /\ e.lots[l].expiresAt = d.lots[l].expiresAt
              /\ e.lots[l].consumed >= d.lots[l].consumed

\* From d to e nothing was bought.
SamePurchases(d, e) ==
    /\ e.wallet.settlementCurrency = d.wallet.settlementCurrency
    /\ PaidLots(e) = PaidLots(d)

-----------------------------------------------------------------------------
(* The relation and the primitives.                                        *)

\* Two changes that keep what was settled do so one after the other.
LEMMA ContinuesFurther ==
    ASSUME NEW d, NEW e, NEW f, Consistent(d), Consistent(e), Consistent(f),
           Continues(d, e), Continues(e, f)
    PROVE  Continues(d, f)
<1>1. \A l \in Lots : /\ d.lots[l].consumed \in Int
                      /\ e.lots[l].consumed \in Int
                      /\ f.lots[l].consumed \in Int
  BY ConsistentParts DEF LotRow
<1>2. QED
  BY <1>1 DEF Continues, ChargedStayCharged

\* Releasing holds.
LEMMA ReleaseContinues ==
    ASSUME NEW d, Consistent(d), NEW S \in SUBSET Held(d)
    PROVE  LET e == releaseReservationRow(d, S)
           IN Continues(d, e) /\ SamePurchases(d, e)
<1> DEFINE e == releaseReservationRow(d, S)
<1>1. /\ d.lots \in [Lots -> LotRow] /\ d.wallet \in WalletRow
      /\ Payments \subseteq Lots
  BY ConsistentParts DEF Lots
<1>2. /\ e.wallet = [d.wallet EXCEPT !.available = @ + Cardinality(Spendable(d, S)),
                                     !.reserved = @ - Cardinality(S)]
      /\ e.lots = [l \in Lots |->
             [d.lots[l] EXCEPT !.reserved = @ - Cardinality(HeldOn(d, S, l))]]
  BY DEF releaseReservationRow
<1>3. \A s \in Sessions :
         d.reservations[s].status # "held" => e.reservations[s] = d.reservations[s]
  BY ReleaseKeepsConsistent
<1> HIDE DEF e
<1>4. \A l \in Lots : /\ e.lots[l].status = d.lots[l].status
                      /\ e.lots[l].granted = d.lots[l].granted
                      /\ e.lots[l].expiresAt = d.lots[l].expiresAt
                      /\ e.lots[l].consumed = d.lots[l].consumed
                      /\ d.lots[l].consumed \in Int
  BY <1>1, <1>2 DEF LotRow
<1>5. e.wallet.settlementCurrency = d.wallet.settlementCurrency
  BY <1>1, <1>2 DEF WalletRow
<1>6. Continues(d, e)
  BY <1>3, <1>4 DEF Continues, ChargedStayCharged
<1>7. SamePurchases(d, e)
  BY <1>1, <1>4, <1>5 DEF SamePurchases, PaidLots
<1>8. QED
  BY <1>6, <1>7 DEF e

\* Writing off the lots that are due.
LEMMA ExpireContinues ==
    ASSUME NEW d, Consistent(d), NEW t
    PROVE  LET e == expireDueLotsInTx(d, t)
           IN Continues(d, e) /\ SamePurchases(d, e)
<1> DEFINE e == expireDueLotsInTx(d, t)
           off == Total(DueLots(d, t), [l \in Lots |-> availableInLot(d.lots[l])])
<1>1. /\ d.lots \in [Lots -> LotRow] /\ d.wallet \in WalletRow
      /\ Payments \subseteq Lots
  BY ConsistentParts DEF Lots
<1>2. /\ e.wallet = [d.wallet EXCEPT !.available = @ - off]
      /\ e.lots = [l \in Lots |->
            IF l \in DueLots(d, t) THEN [d.lots[l] EXCEPT !.status = "expired"] ELSE d.lots[l]]
      /\ e.reservations = d.reservations
  BY DEF expireDueLotsInTx
<1> HIDE DEF e, off
<1>3. \A l \in Lots : /\ e.lots[l].status = "none" <=> d.lots[l].status = "none"
                      /\ e.lots[l].granted = d.lots[l].granted
                      /\ e.lots[l].expiresAt = d.lots[l].expiresAt
                      /\ e.lots[l].consumed = d.lots[l].consumed
                      /\ d.lots[l].consumed \in Int
  BY <1>1, <1>2 DEF LotRow, DueLots
<1>4. e.wallet.settlementCurrency = d.wallet.settlementCurrency
  BY <1>1, <1>2 DEF WalletRow
<1>5. Continues(d, e)
  BY <1>2, <1>3 DEF Continues, ChargedStayCharged
<1>6. SamePurchases(d, e)
  BY <1>1, <1>3, <1>4 DEF SamePurchases, PaidLots
<1>7. QED
  BY <1>5, <1>6 DEF e

\* Both, as the sweep does them.
LEMMA SweepContinues ==
    ASSUME NEW d, Consistent(d), NEW t
    PROVE  Continues(d, Sweep(d, t)) /\ SamePurchases(d, Sweep(d, t))
<1> DEFINE e == releaseReservationRow(d, DueHolds(d, t))
<1>1. DueHolds(d, t) \in SUBSET Held(d)
  BY DEF DueHolds, Held
<1>2. Consistent(e) /\ Continues(d, e) /\ SamePurchases(d, e)
  BY <1>1, ReleaseKeepsConsistent, ReleaseContinues
<1>3. Sweep(d, t) = expireDueLotsInTx(e, t)
  BY DEF Sweep, releaseExpiredReservationsInTx
<1> HIDE DEF e
<1>4. /\ Consistent(expireDueLotsInTx(e, t))
      /\ Continues(e, expireDueLotsInTx(e, t)) /\ SamePurchases(e, expireDueLotsInTx(e, t))
  BY <1>2, ExpireKeepsConsistent, ExpireContinues
<1>5. QED
  BY <1>2, <1>3, <1>4, ContinuesFurther DEF SamePurchases

\* Freezing, revoking, unfreezing, holding and charging change one lot that
\* exists, and no reservation that is charged.
LEMMA OneLotContinues ==
    ASSUME NEW d, Consistent(d), NEW e, NEW l \in Lots, NEW row \in LotRow,
           e.lots = [d.lots EXCEPT ![l] = row],
           d.lots[l].status # "none", row.status # "none",
           row.granted = d.lots[l].granted, row.expiresAt = d.lots[l].expiresAt,
           row.consumed >= d.lots[l].consumed,
           e.wallet.settlementCurrency = d.wallet.settlementCurrency,
           ChargedStayCharged(d, e)
    PROVE  Continues(d, e) /\ SamePurchases(d, e)
<1>1. d.lots \in [Lots -> LotRow] /\ Payments \subseteq Lots
  BY ConsistentParts DEF Lots
<1>2. \A m \in Lots : /\ e.lots[m] = IF m = l THEN row ELSE d.lots[m]
                      /\ d.lots[m].consumed \in Int
  BY <1>1 DEF LotRow
<1>3. Continues(d, e)
  BY <1>2 DEF Continues, ChargedStayCharged
<1>4. PaidLots(e) = PaidLots(d)
  BY <1>1, <1>2 DEF PaidLots
<1>5. QED
  BY <1>3, <1>4 DEF SamePurchases

\* The status of a lot that exists, all else in it left alone.
LEMMA StatusRow ==
    ASSUME NEW lot \in LotRow, NEW status \in LotStatus
    PROVE  LET row == [lot EXCEPT !.status = status]
           IN /\ row \in LotRow /\ row.status = status /\ row.granted = lot.granted
              /\ row.expiresAt = lot.expiresAt /\ row.consumed >= lot.consumed
  BY DEF LotRow

\* Freezing or revoking an active lot.
LEMMA WriteOffContinues ==
    ASSUME NEW d, Consistent(d), NEW p \in Payments, d.lots[p].status = "active",
           NEW status \in {"frozen", "revoked"}
    PROVE  LET e == WriteOff(d, p, status)
           IN Continues(d, e) /\ SamePurchases(d, e)
<1> DEFINE e == WriteOff(d, p, status)
           row == [d.lots[p] EXCEPT !.status = status]
<1>1. d.lots[p] \in LotRow /\ d.wallet \in WalletRow /\ p \in Lots
  BY ConsistentParts DEF Lots
<1>2. /\ row \in LotRow /\ row.status = status /\ row.granted = d.lots[p].granted
      /\ row.expiresAt = d.lots[p].expiresAt /\ row.consumed >= d.lots[p].consumed
  <2>1. status \in LotStatus
    BY DEF LotStatus
  <2>2. QED
    BY <1>1, <2>1, StatusRow
<1>3. /\ e.lots = [d.lots EXCEPT ![p] = row]
      /\ e.reservations = d.reservations
      /\ e.wallet = [d.wallet EXCEPT !.available = @ - WrittenOff(d.lots[p])]
  BY DEF WriteOff
<1> HIDE DEF e, row
<1>4. e.wallet.settlementCurrency = d.wallet.settlementCurrency
  BY <1>1, <1>3 DEF WalletRow
<1>5. ChargedStayCharged(d, e)
  BY <1>3 DEF ChargedStayCharged
<1>6. Continues(d, e) /\ SamePurchases(d, e)
  BY <1>1, <1>2, <1>3, <1>4, <1>5, OneLotContinues
<1>7. QED
  BY <1>6 DEF e

\* Giving a frozen lot back, or taking it for good.
LEMMA ResolveContinues ==
    ASSUME NEW d, Consistent(d), NEW p \in Payments, d.lots[p].status = "frozen"
    PROVE  /\ Continues(d, Unfreeze(d, p)) /\ SamePurchases(d, Unfreeze(d, p))
           /\ Continues(d, Revoke(d, p)) /\ SamePurchases(d, Revoke(d, p))
<1>1. d.lots[p] \in LotRow /\ d.wallet \in WalletRow /\ p \in Lots
      /\ {"active", "revoked"} \subseteq LotStatus
      /\ d = [wallet |-> d.wallet, lots |-> d.lots,
              reservations |-> d.reservations, ledger |-> d.ledger]
  BY ConsistentParts DEF Lots, LotStatus
<1>2. ASSUME NEW e, NEW status \in {"active", "revoked"},
             e.lots = [d.lots EXCEPT ![p].status = status],
             e.reservations = d.reservations,
             e.wallet.settlementCurrency = d.wallet.settlementCurrency
      PROVE  Continues(d, e) /\ SamePurchases(d, e)
  <2> DEFINE row == [d.lots[p] EXCEPT !.status = status]
  <2>1. /\ row \in LotRow /\ row.status = status /\ row.granted = d.lots[p].granted
        /\ row.expiresAt = d.lots[p].expiresAt /\ row.consumed >= d.lots[p].consumed
    BY <1>1, StatusRow
  <2>2. e.lots = [d.lots EXCEPT ![p] = row]
    BY <1>2
  <2> HIDE DEF row
  <2>3. ChargedStayCharged(d, e)
    BY <1>2 DEF ChargedStayCharged
  <2>4. QED
    BY <1>1, <1>2, <2>1, <2>2, <2>3, OneLotContinues
<1>3. /\ Unfreeze(d, p).lots = [d.lots EXCEPT ![p].status = "active"]
      /\ Unfreeze(d, p).reservations = d.reservations
      /\ Unfreeze(d, p).wallet.settlementCurrency = d.wallet.settlementCurrency
  BY <1>1 DEF Unfreeze, WalletRow
<1>4. /\ Revoke(d, p).lots = [d.lots EXCEPT ![p].status = "revoked"]
      /\ Revoke(d, p).reservations = d.reservations
      /\ Revoke(d, p).wallet.settlementCurrency = d.wallet.settlementCurrency
  BY <1>1 DEF Revoke
<1>5. QED
  BY <1>2, <1>3, <1>4

\* Holding a credit of a lot.
LEMMA HoldContinues ==
    ASSUME NEW d, Consistent(d), NEW s \in Sessions, NEW l \in Lots, NEW t,
           d.reservations[s].status # "captured", d.lots[l].status # "none"
    PROVE  Continues(d, Hold(d, s, l, t)) /\ SamePurchases(d, Hold(d, s, l, t))
<1> DEFINE e == Hold(d, s, l, t)
           row == [d.lots[l] EXCEPT !.reserved = @ + 1]
<1>1. d.lots[l] \in LotRow /\ d.wallet \in WalletRow
  BY ConsistentParts
<1>2. /\ row \in LotRow /\ row.status = d.lots[l].status
      /\ row.granted = d.lots[l].granted /\ row.expiresAt = d.lots[l].expiresAt
      /\ row.consumed >= d.lots[l].consumed
  BY <1>1 DEF LotRow
<1>3. /\ e.lots = [d.lots EXCEPT ![l] = row]
      /\ \A r \in Sessions : r # s => e.reservations[r] = d.reservations[r]
      /\ e.wallet = [d.wallet EXCEPT !.available = @ - 1, !.reserved = @ + 1]
  BY ConsistentParts DEF Hold
<1> HIDE DEF e, row
<1>4. e.wallet.settlementCurrency = d.wallet.settlementCurrency
  BY <1>1, <1>3 DEF WalletRow
<1>5. ChargedStayCharged(d, e)
  BY <1>3 DEF ChargedStayCharged
<1>6. row.status # "none"
  BY <1>2
<1>7. Continues(d, e) /\ SamePurchases(d, e)
  BY <1>2, <1>3, <1>4, <1>5, <1>6, OneLotContinues
<1>8. QED
  BY <1>7 DEF e

\* Charging a hold.
LEMMA CaptureContinues ==
    ASSUME NEW d, Consistent(d), NEW s \in Sessions, d.reservations[s].status = "held"
    PROVE  LET e == captureReservationForSession(d, s)
           IN Continues(d, e) /\ SamePurchases(d, e)
<1> DEFINE e == captureReservationForSession(d, s)
           l == d.reservations[s].lot
           old == d.lots[l]
           row == Consume(old)
<1>1. l \in Lots /\ d.lots[l] \in LotRow /\ d.wallet \in WalletRow
  BY ConsistentParts DEF ReservationRow
<1>2. d.lots[l].reserved > 0 /\ d.lots[l].status # "none"
  <2>1. s \in Reserved(d, l) /\ IsFiniteSet(Reserved(d, l))
    BY FiniteSessions DEF Reserved
  <2>2. Cardinality(Reserved(d, l)) > 0
    BY <2>1, FS_EmptySet, FS_CardinalityType
  <2>3. d.lots[l].reserved > 0
    BY <1>1, <2>2, ConsistentParts
  <2>4. d.lots[l].status = "none" => d.lots[l].reserved = 0
    BY <1>1 DEF Consistent, AbsentRows, NoLot
  <2>5. QED
    BY <2>3, <2>4
<1>3. /\ old \in LotRow /\ old.reserved - 1 \in Nat /\ old.consumed + 1 \in Nat
      /\ old.status # "none"
  BY <1>1, <1>2 DEF LotRow
<1> HIDE DEF old
<1>4. /\ row \in LotRow
       /\ row.granted = old.granted /\ row.expiresAt = old.expiresAt
       /\ row.consumed = old.consumed + 1
       /\ row.status = IF old.status = "active" /\ old.consumed + 1 >= old.granted
                       THEN "exhausted" ELSE old.status
  <2> DEFINE status == IF old.status = "active" /\ old.consumed + 1 >= old.granted
                       THEN "exhausted" ELSE old.status
  <2>1. row = [old EXCEPT !.consumed = @ + 1, !.reserved = @ - 1, !.status = status]
    BY <1>3 DEF Consume, IsSpent, LotRow
  <2>2. status \in LotStatus /\ old.status \in LotStatus
    BY <1>3 DEF LotRow, LotStatus
  <2> HIDE DEF row, status
  <2>3. row = [status |-> status, granted |-> old.granted,
               consumed |-> old.consumed + 1, reserved |-> old.reserved - 1,
               expiresAt |-> old.expiresAt]
    BY <1>3, <2>1 DEF LotRow
  <2>4. row \in LotRow
    BY <1>3, <2>2, <2>3 DEF LotRow
  <2>5. QED
    BY <2>3, <2>4 DEF status
<1>5. /\ row.status # "none" /\ row.consumed >= d.lots[l].consumed
       /\ row.granted = d.lots[l].granted /\ row.expiresAt = d.lots[l].expiresAt
  <2>1. old = d.lots[l] /\ old.consumed \in Nat
    BY <1>3 DEF LotRow, old
  <2> HIDE DEF row
  <2>2. row.status # "none" /\ row.consumed >= old.consumed
    BY <1>3, <1>4, <2>1
  <2>3. QED
    BY <1>4, <2>1, <2>2
<1>6. /\ e.lots = [d.lots EXCEPT ![l] = row]
      /\ \A r \in Sessions : r # s => e.reservations[r] = d.reservations[r]
      /\ e.wallet = [d.wallet EXCEPT !.reserved = @ - 1]
  BY ConsistentParts DEF captureReservationForSession, old
<1> HIDE DEF e, row
<1>7. e.wallet.settlementCurrency = d.wallet.settlementCurrency
  BY <1>1, <1>6 DEF WalletRow
<1>8. ChargedStayCharged(d, e)
  BY <1>6 DEF ChargedStayCharged
<1> HIDE DEF l
<1>9. Continues(d, e) /\ SamePurchases(d, e)
  BY <1>1, <1>2, <1>4, <1>5, <1>6, <1>7, <1>8, OneLotContinues
<1>10. QED
  BY <1>9 DEF e

\* Renewing a hold.
LEMMA RenewContinues ==
    ASSUME NEW d, Consistent(d), NEW s \in Sessions, NEW t,
           d.reservations[s].status = "held"
    PROVE  Continues(d, Renew(d, s, t)) /\ SamePurchases(d, Renew(d, s, t))
<1> DEFINE e == Renew(d, s, t)
<1>1. /\ e.lots = d.lots /\ e.wallet = d.wallet
      /\ \A r \in Sessions : r # s => e.reservations[r] = d.reservations[r]
  BY ConsistentParts DEF Renew
<1>2. \A l \in Lots : d.lots[l].consumed \in Int
  BY ConsistentParts DEF LotRow
<1> HIDE DEF e
<1>3. Continues(d, e) /\ SamePurchases(d, e)
  BY <1>1, <1>2 DEF Continues, ChargedStayCharged, SamePurchases, PaidLots
<1>4. QED
  BY <1>3 DEF e

\* Opening the wallet.
LEMMA EnsureWalletContinues ==
    ASSUME NEW d, Consistent(d), ~d.wallet.exists, NEW t, NEW ttl
    PROVE  LET e == ensureWallet(d, t, ttl)
           IN Continues(d, e) /\ SamePurchases(d, e)
<1> DEFINE e == ensureWallet(d, t, ttl)
           row == NewLot(FIRST_FIVE_CREDITS, t + ttl)
<1>1. /\ e.lots = [d.lots EXCEPT ![FreeLot] = row]
      /\ e.wallet = [d.wallet EXCEPT !.exists = TRUE, !.available = FIRST_FIVE_CREDITS]
      /\ e.reservations = d.reservations
  BY DEF ensureWallet
<1>2. /\ d.wallet \in WalletRow /\ d.lots \in [Lots -> LotRow]
      /\ FreeLot \notin Payments /\ Payments \subseteq Lots
  BY ConsistentParts, LedgerAssumption DEF Lots
<1>3. \A l \in Lots : d.lots[l].status = "none"
  BY DEF Consistent, AbsentRows
<1> HIDE DEF e, row
<1>4. Continues(d, e)
  BY <1>1, <1>3 DEF Continues, ChargedStayCharged
<1>5. PaidLots(e) = PaidLots(d)
  BY <1>1, <1>2 DEF PaidLots
<1>6. e.wallet.settlementCurrency = d.wallet.settlementCurrency
  BY <1>1, <1>2 DEF WalletRow
<1>7. QED
  BY <1>4, <1>5, <1>6 DEF SamePurchases, e

\* A purchase adds its lot and, if it is the first, its currency.
LEMMA GrantContinues ==
    ASSUME NEW d, Consistent(d), NEW p \in Payments, CanGrant(d, p), NEW t
    PROVE  LET e == grantPurchasedCreditLot(d, p, t)
           IN /\ Continues(d, e)
              /\ PaidLots(e) = PaidLots(d) \cup {p}
              /\ e.wallet.settlementCurrency = Currency[p]
<1> DEFINE e == grantPurchasedCreditLot(d, p, t)
           row == NewLot(PackCredits[p], t + PAID_CREDIT_EXPIRY_DAYS)
<1>1. /\ e.lots = [d.lots EXCEPT ![p] = row]
      /\ e.reservations = d.reservations
      /\ e.wallet = [d.wallet EXCEPT !.settlementCurrency = Currency[p],
                                     !.available = @ + PackCredits[p]]
  BY DEF grantPurchasedCreditLot
<1>2. row.status = "active"
  BY DEF NewLot
<1>3. /\ d.wallet \in WalletRow /\ d.lots \in [Lots -> LotRow]
      /\ Payments \subseteq Lots /\ d.lots[p].status = "none"
      /\ \A l \in Lots : d.lots[l].consumed \in Int
  <2>1. d.wallet \in WalletRow /\ d.lots \in [Lots -> LotRow]
    BY ConsistentParts
  <2>2. \A l \in Lots : d.lots[l].consumed \in Int
    BY <2>1 DEF LotRow
  <2>3. d.lots[p].status = "none"
    BY DEF CanGrant, PaidLots
  <2>4. QED
    BY <2>1, <2>2, <2>3 DEF Lots
<1> HIDE DEF e, row
<1>4. \A l \in Lots : e.lots[l] = IF l = p THEN row ELSE d.lots[l]
  BY <1>1, <1>3
<1>5. Continues(d, e)
  BY <1>1, <1>3, <1>4 DEF Continues, ChargedStayCharged
<1>6. PaidLots(e) = PaidLots(d) \cup {p}
  BY <1>2, <1>3, <1>4 DEF PaidLots
<1>7. e.wallet.settlementCurrency = Currency[p]
  BY <1>1, <1>3 DEF WalletRow
<1>8. QED
  BY <1>5, <1>6, <1>7 DEF e

-----------------------------------------------------------------------------
(* The steps.                                                              *)

\* The purchase of p, from d to e.
Buys(d, e, p) ==
    /\ CanGrant(d, p)
    /\ PaidLots(e) = PaidLots(d) \cup {p}
    /\ e.wallet.settlementCurrency = Currency[p]

Follows(d, e) ==
    /\ Continues(d, e)
    /\ SamePurchases(d, e) \/ \E p \in Payments : Buys(d, e, p)

\* Every request, with any clock its caller may have read.
LEMMA StepContinues ==
    ASSUME IInv, NEW t \in RecentClocks, LedgerStep(t)
    PROVE  Follows(db, db')
<1>1. Consistent(db) /\ Payments \subseteq Lots
  BY DEF IInv, Lots
<1>2. SUFFICES ASSUME TRUE PROVE \E d : Follows(db, d) /\ Commit(d)
  BY DEF Commit
<1>3. ASSUME NEW ttl \in {FIRST_FIVE_EXPIRY_DAYS, PAID_CREDIT_EXPIRY_DAYS}, OpenWallet(t, ttl)
      PROVE  \E d : Follows(db, d) /\ Commit(d)
  BY <1>1, <1>3, EnsureWalletContinues DEF OpenWallet, Follows
<1>4. ASSUME NEW p \in Payments, GrantPurchasedCreditLot(p, t)
      PROVE  \E d : Follows(db, d) /\ Commit(d)
  <2>1. CanGrant(db, p) /\ Commit(grantPurchasedCreditLot(db, p, t))
    BY <1>4 DEF GrantPurchasedCreditLot
  <2>2. /\ Continues(db, grantPurchasedCreditLot(db, p, t))
        /\ Buys(db, grantPurchasedCreditLot(db, p, t), p)
    BY <1>1, <2>1, GrantContinues DEF Buys
  <2>3. QED
    BY <2>1, <2>2 DEF Follows
<1>5. ASSUME NEW p \in Payments, FreezeLotForDispute(p)
      PROVE  \E d : Follows(db, d) /\ Commit(d)
  <2>1. /\ Commit(WriteOff(db, p, "frozen"))
        /\ FreezeOutcome(db, p) = "applied"
    BY <1>5 DEF FreezeLotForDispute, freezeLotForDispute
  <2>2. db.lots[p].status = "active"
    BY <2>1 DEF FreezeOutcome
  <2>3. QED
    BY <1>1, <2>1, <2>2, WriteOffContinues DEF Follows
<1>6. ASSUME NEW p \in Payments, NEW disposition \in {"won", "lost"},
             ResolveDisputeOnLot(p, disposition, t)
      PROVE  \E d : Follows(db, d) /\ Commit(d)
  <2> DEFINE u == Unfreeze(db, p)
  <2>1. ResolveOutcome(db, p) = "applied" /\ Commit(resolveDisputeOnLot(db, p, disposition, t))
    BY <1>6 DEF ResolveDisputeOnLot
  <2>2. db.lots[p].status = "frozen"
    BY <2>1 DEF ResolveOutcome
  <2>3. /\ Continues(db, u) /\ SamePurchases(db, u)
        /\ Continues(db, Revoke(db, p)) /\ SamePurchases(db, Revoke(db, p))
    BY <1>1, <2>2, ResolveContinues
  <2>4. Consistent(u)
    BY <1>1, <2>2, UnfreezeKeepsConsistent
  <2>5. resolveDisputeOnLot(db, p, disposition, t) \in {Revoke(db, p), expireDueLotsInTx(u, t)}
    BY DEF resolveDisputeOnLot
  <2> HIDE DEF u
  <2>6. /\ Consistent(expireDueLotsInTx(u, t))
        /\ Continues(u, expireDueLotsInTx(u, t)) /\ SamePurchases(u, expireDueLotsInTx(u, t))
    BY <2>4, ExpireKeepsConsistent, ExpireContinues
  <2>7. Continues(db, expireDueLotsInTx(u, t)) /\ SamePurchases(db, expireDueLotsInTx(u, t))
    BY <1>1, <2>3, <2>4, <2>6, ContinuesFurther DEF SamePurchases
  <2>8. QED
    BY <2>1, <2>3, <2>5, <2>7 DEF Follows
<1>7. ASSUME NEW p \in Payments, NEW amount \in RefundAmounts, RevokeUnconsumedLot(p, amount)
      PROVE  \E d : Follows(db, d) /\ Commit(d)
  <2>1. /\ Commit(WriteOff(db, p, "revoked"))
        /\ RevokeOutcome(db, p, amount) = "applied"
    BY <1>7 DEF RevokeUnconsumedLot, revokeUnconsumedLot
  <2>2. db.lots[p].status = "active"
    BY <2>1 DEF RevokeOutcome
  <2>3. QED
    BY <1>1, <2>1, <2>2, WriteOffContinues DEF Follows
<1>8. ASSUME NEW s \in Sessions, RenewHold(s, t)
      PROVE  \E d : Follows(db, d) /\ Commit(d)
  BY <1>1, <1>8, RenewContinues DEF RenewHold, Follows
<1>9. ASSUME NEW s \in Sessions, ReserveCreditForSession(s, t)
      PROVE  \E d : Follows(db, d) /\ Commit(d)
  <2> DEFINE swept == Sweep(db, t)
  <2>1. /\ db.reservations[s].status \in {"none", "released"}
        /\ \/ \E l \in selectLotForReservation(swept, t) : Commit(Hold(swept, s, l, t))
           \/ Commit(swept)
    BY <1>9 DEF ReserveCreditForSession
  <2>2. /\ Consistent(swept) /\ swept.reservations[s] = db.reservations[s]
        /\ Continues(db, swept) /\ SamePurchases(db, swept)
    BY <1>1, <2>1, SweepKeepsConsistent, SweepContinues
  <2> HIDE DEF swept
  <2>3. ASSUME NEW l \in selectLotForReservation(swept, t)
        PROVE  /\ Continues(db, Hold(swept, s, l, t))
               /\ SamePurchases(db, Hold(swept, s, l, t))
    <3>1. l \in Lots /\ isLotEligible(swept.lots[l], t)
      BY DEF selectLotForReservation, EligibleLots
    <3>2. swept.reservations[s].status \notin {"held", "captured"}
      BY <2>1, <2>2
    <3>3. swept.lots[l].status # "none"
      BY <3>1 DEF isLotEligible, isLotClockActive
    <3>4. t \in Nat
      BY DEF RecentClocks
    <3>5. Consistent(Hold(swept, s, l, t))
      BY <2>2, <3>1, <3>2, <3>4, HoldKeepsConsistent
    <3>6. Continues(swept, Hold(swept, s, l, t)) /\ SamePurchases(swept, Hold(swept, s, l, t))
      BY <2>2, <3>1, <3>2, <3>3, HoldContinues
    <3>7. QED
      BY <1>1, <2>2, <3>5, <3>6, ContinuesFurther DEF SamePurchases
  <2>4. QED
    BY <2>1, <2>2, <2>3 DEF Follows
<1>10. ASSUME NEW s \in Sessions, CaptureReservationForSession(s)
       PROVE  \E d : Follows(db, d) /\ Commit(d)
  BY <1>1, <1>10, CaptureContinues DEF CaptureReservationForSession, Follows
<1>11. ASSUME NEW s \in Sessions, ReleaseReservationForSession(s, t)
       PROVE  \E d : Follows(db, d) /\ Commit(d)
  <2> DEFINE r == releaseReservationRow(db, {s})
  <2>1. {s} \in SUBSET Held(db)
    BY <1>11 DEF ReleaseReservationForSession, Held
  <2>2. Consistent(r) /\ Continues(db, r) /\ SamePurchases(db, r)
    BY <1>1, <2>1, ReleaseKeepsConsistent, ReleaseContinues
  <2>3. Commit(expireDueLotsInTx(r, t))
    BY <1>11 DEF ReleaseReservationForSession, releaseReservationForSession
  <2> HIDE DEF r
  <2>4. /\ Consistent(expireDueLotsInTx(r, t))
        /\ Continues(r, expireDueLotsInTx(r, t)) /\ SamePurchases(r, expireDueLotsInTx(r, t))
    BY <2>2, ExpireKeepsConsistent, ExpireContinues
  <2>5. Continues(db, expireDueLotsInTx(r, t)) /\ SamePurchases(db, expireDueLotsInTx(r, t))
    BY <1>1, <2>2, <2>4, ContinuesFurther DEF SamePurchases
  <2>6. QED
    BY <2>3, <2>5 DEF Follows
<1>12. ASSUME ReleaseExpiredReservations(t)
       PROVE  \E d : Follows(db, d) /\ Commit(d)
  BY <1>1, <1>12, SweepContinues DEF ReleaseExpiredReservations, Follows
<1>13. ASSUME ExpireDueLots(t)
       PROVE  \E d : Follows(db, d) /\ Commit(d)
  BY <1>1, <1>13, ExpireContinues DEF ExpireDueLots, Follows
<1>14. QED
  BY <1>3, <1>4, <1>5, <1>6, <1>7, <1>8, <1>9, <1>10, <1>11, <1>12, <1>13 DEF LedgerStep

\* Every step of the ledger, a tick of the clock included.
LEMMA NextContinues ==
    ASSUME IInv, [Next]_vars
    PROVE  Follows(db, db') \/ UNCHANGED db
<1>1. CASE Tick
  BY <1>1 DEF Tick
<1>2. CASE \E t \in RecentClocks : LedgerStep(t)
  BY <1>2, StepContinues
<1>3. CASE UNCHANGED vars
  BY <1>3 DEF vars
<1>4. QED
  BY <1>1, <1>2, <1>3 DEF Next

-----------------------------------------------------------------------------
(* The theorems.                                                           *)

\* A charged session is charged for good and a granted lot keeps its grant and
\* its date: no replay of a capture, a release or a purchase, in any order,
\* changes what was settled.
THEOREM SettledStaysSettled == Spec => SettledForGood
<1> DEFINE Settled ==
        /\ \A s \in Sessions :
              db.reservations[s].status = "captured" =>
                  db'.reservations[s] = db.reservations[s]
        /\ \A l \in Lots :
              db.lots[l].status # "none" =>
                  /\ db'.lots[l].status # "none"
                  /\ db'.lots[l].granted = db.lots[l].granted
                  /\ db'.lots[l].expiresAt = db.lots[l].expiresAt
                  /\ db'.lots[l].consumed >= db.lots[l].consumed
<1>1. ASSUME IInv, [Next]_vars PROVE [Settled]_vars
  <2>1. CASE Follows(db, db')
    BY <2>1 DEF Follows, Continues, ChargedStayCharged
  <2>2. CASE UNCHANGED db
    <3>1. \A l \in Lots : db.lots[l].consumed \in Int
      BY <1>1, ConsistentParts DEF IInv, LotRow
    <3>2. QED
      BY <2>2, <3>1
  <2>3. QED
    BY <1>1, <2>1, <2>2, NextContinues
<1> HIDE DEF Settled
<1>2. Spec => [][Settled]_vars
  BY <1>1, Invariance, PTL DEF Spec
<1>3. QED
  BY <1>2 DEF Settled, SettledForGood

\* Whatever an older version of the program granted and in whatever order
\* purchases arrive, the paid lots of a wallet with a settlement currency are
\* all in that currency.
THEOREM PurchasesShareACurrency == Spec => []OneSettlementCurrency
<1>1. Init => OneSettlementCurrency
  BY DEF Init, Fresh, Legacy, OneSettlementCurrency
<1>2. ASSUME OneSettlementCurrency, IInv, [Next]_vars PROVE OneSettlementCurrency'
  <2>1. CASE UNCHANGED db
    BY <1>2, <2>1 DEF OneSettlementCurrency, PaidLots
  <2>2. CASE SamePurchases(db, db')
    BY <1>2, <2>2 DEF OneSettlementCurrency, SamePurchases
  <2>3. ASSUME NEW p \in Payments, Buys(db, db', p) PROVE OneSettlementCurrency'
    BY <1>2, <2>3 DEF OneSettlementCurrency, Buys, CanGrant, CurrencyAccepted
  <2>4. QED
    BY <1>2, <2>1, <2>2, <2>3, NextContinues DEF Follows
<1>3. QED
  BY <1>1, <1>2, Invariance, PTL DEF Spec

-----------------------------------------------------------------------------
(* Sweeps and the audit.                                                   *)

\* The live holds, lot by lot, are all the live holds.
LEMMA HoldsByLot ==
    ASSUME NEW d, Consistent(d)
    PROVE  Total(Lots, [l \in Lots |-> d.lots[l].reserved]) = d.wallet.reserved
<1> DEFINE C == [l \in Lots |-> Reserved(d, l)]
           n == [l \in Lots |-> d.lots[l].reserved]
<1>1. IsFiniteSet(Held(d))
  BY FiniteSessions
<1>2. \A s \in Sessions : d.reservations[s].lot \in Lots
  BY ConsistentParts DEF ReservationRow
<1>3. /\ \A l \in Lots : C[l] \subseteq Held(d)
      /\ \A s \in Held(d) : \E l \in Lots : s \in C[l]
      /\ \A l, m \in Lots : l # m => C[l] \cap C[m] = {}
  BY <1>2 DEF Reserved, Held
<1>4. \A l \in Lots : n[l] = Cardinality(C[l])
  BY ConsistentParts
<1> HIDE DEF C, n
<1>5. Total(Lots, n) = Cardinality(Held(d))
  BY <1>1, <1>3, <1>4, TotalOfClasses
<1>6. d.wallet.reserved = Cardinality(Held(d))
  BY ConsistentParts
<1>7. QED
  BY <1>5, <1>6 DEF n

\* What the ledger says of a lot is what the clock says of it, if none is due.
LEMMA ConsistentReconciles ==
    ASSUME NEW d, Consistent(d), NEW t \in Nat, DueLots(d, t) = {}
    PROVE  Reconciles(d, t)
<1> DEFINE A == {l \in Lots : isLotClockActive(d.lots[l], t)}
           f == [l \in Lots |-> availableInLot(d.lots[l])]
<1>1. /\ IsFiniteSet(Lots) /\ IsFiniteSet(A) /\ IsFiniteSet(Lots \ A)
      /\ A \cup (Lots \ A) = Lots /\ A \cap (Lots \ A) = {}
  <2>1. A \subseteq Lots /\ Lots \ A \subseteq Lots
    OBVIOUS
  <2>2. QED
    BY <2>1, FiniteLots, FS_Subset
<1>2. \A l \in Lots : /\ d.lots[l] \in LotRow /\ d.ledger[l] \in Nat
                      /\ d.ledger[l] = LotBalance(d.lots[l])
                      /\ availableInLot(d.lots[l]) \in Nat
  BY ConsistentParts
<1>3. ASSUME NEW l \in A PROVE d.ledger[l] = f[l]
  BY <1>2 DEF LotBalance, isLotClockActive
<1>4. ASSUME NEW l \in Lots \ A PROVE d.ledger[l] = 0
  <2>1. d.lots[l] \in LotRow /\ d.ledger[l] = LotBalance(d.lots[l])
        /\ availableInLot(d.lots[l]) \in Nat
    BY <1>2
  <2>2. d.lots[l].status # "active"
    <3>1. ~(d.lots[l].status = "active" /\ d.lots[l].expiresAt > t)
      BY DEF isLotClockActive
    <3>2. ~(d.lots[l].status = "active" /\ d.lots[l].expiresAt <= t)
      BY DEF DueLots
    <3>3. d.lots[l].expiresAt \in Int /\ t \in Int
      BY <2>1 DEF LotRow
    <3>4. QED
      BY <3>1, <3>2, <3>3
  <2>3. CASE d.lots[l].status = "exhausted"
    <3>1. d.lots[l].consumed = d.lots[l].granted
      BY <2>3 DEF Consistent, SpentWhenExhausted
    <3>2. availableInLot(d.lots[l]) = 0
      BY <2>1, <3>1 DEF availableInLot, LotRow
    <3>3. QED
      BY <2>1, <2>3, <3>2 DEF LotBalance
  <2>4. QED
    BY <2>1, <2>2, <2>3 DEF LotBalance
<1> HIDE DEF A, f
<1>5. Total(A, d.ledger) = Total(A, f) /\ Total(Lots \ A, d.ledger) = 0
  BY <1>3, <1>4, TotalSame, TotalZero
<1>6. Total(Lots, d.ledger) = Total(A, d.ledger) + Total(Lots \ A, d.ledger)
  <2>1. \A l \in A \cup (Lots \ A) : d.ledger[l] \in Nat
    BY <1>1, <1>2
  <2>2. Total(A \cup (Lots \ A), d.ledger) = Total(A, d.ledger) + Total(Lots \ A, d.ledger)
    BY <1>1, <2>1, TotalUnion
  <2>3. QED
    BY <1>1, <2>2
<1>7. Total(Lots, d.ledger) \in Nat
  BY <1>1, <1>2, TotalType
<1>8. Total(A, f) = d.wallet.available /\ Total(Lots, d.ledger) = d.wallet.available
  <2>1. Total(Lots, d.ledger) = d.wallet.available
    BY ConsistentParts
  <2>2. IsFiniteSet(A) /\ \A l \in A : f[l] \in Nat
    BY <1>1, <1>2 DEF A, f
  <2>3. Total(A, f) \in Nat
    BY <2>2, TotalType
  <2>4. QED
    BY <1>5, <1>6, <2>1, <2>3
<1>9. Total(Lots, [l \in Lots |-> d.lots[l].reserved]) = d.wallet.reserved
  BY HoldsByLot
<1>10. computeWalletTotals(d, t) =
          [available |-> Total(A, f),
           reserved |-> Total(Lots, [l \in Lots |-> d.lots[l].reserved])]
  BY DEF computeWalletTotals, A, f
<1>11. QED
  BY <1>8, <1>9, <1>10 DEF Reconciles

\* Nothing is due after the due lots were expired, nor after a hold on what is
\* then left.
LEMMA NothingDue ==
    ASSUME NEW d, Consistent(d), NEW t
    PROVE  DueLots(expireDueLotsInTx(d, t), t) = {}
<1> DEFINE e == expireDueLotsInTx(d, t)
<1>1. e.lots = [l \in Lots |->
          IF l \in DueLots(d, t) THEN [d.lots[l] EXCEPT !.status = "expired"] ELSE d.lots[l]]
  BY DEF expireDueLotsInTx
<1> HIDE DEF e
<1>2. ASSUME NEW l \in Lots PROVE l \notin DueLots(e, t)
  <2>1. d.lots[l] \in LotRow
    BY ConsistentParts
  <2>2. CASE l \in DueLots(d, t)
    <3>1. e.lots[l].status = "expired"
      BY <1>1, <2>1, <2>2 DEF LotRow
    <3>2. QED
      BY <3>1 DEF DueLots
  <2>3. CASE l \notin DueLots(d, t)
    <3>1. e.lots[l] = d.lots[l]
      BY <1>1, <2>3
    <3>2. QED
      BY <2>3, <3>1 DEF DueLots
  <2>4. QED
    BY <2>2, <2>3
<1>3. QED
  BY <1>2 DEF DueLots, e

\* So the audit agrees with a wallet after its due lots were written off.
LEMMA ExpiredReconciles ==
    ASSUME NEW d, Consistent(d), NEW t \in Nat
    PROVE  Reconciles(expireDueLotsInTx(d, t), t)
  BY ExpireKeepsConsistent, NothingDue, ConsistentReconciles

\* And after a sweep.
LEMMA SweptIsExpired ==
    ASSUME NEW d, Consistent(d), NEW t \in Nat
    PROVE  /\ Consistent(Sweep(d, t)) /\ DueLots(Sweep(d, t), t) = {}
           /\ Reconciles(Sweep(d, t), t)
           /\ \A s \in Sessions :
                 d.reservations[s].status # "held" =>
                    Sweep(d, t).reservations[s] = d.reservations[s]
<1> DEFINE e == releaseReservationRow(d, DueHolds(d, t))
<1>1. DueHolds(d, t) \in SUBSET Held(d)
  BY DEF DueHolds, Held
<1>2. Consistent(e)
  BY <1>1, ReleaseKeepsConsistent
<1>3. Sweep(d, t) = expireDueLotsInTx(e, t)
  BY DEF Sweep, releaseExpiredReservationsInTx
<1> HIDE DEF e
<1>4. QED
  BY <1>2, <1>3, NothingDue, ExpiredReconciles, SweepKeepsConsistent

\* It still agrees when a credit is then held.
LEMMA HoldReconciles ==
    ASSUME NEW d, Consistent(d), NEW t \in Nat, DueLots(d, t) = {},
           NEW s \in Sessions, d.reservations[s].status \notin {"held", "captured"},
           NEW l \in Lots, isLotEligible(d.lots[l], t)
    PROVE  Reconciles(Hold(d, s, l, t), t)
<1> DEFINE e == Hold(d, s, l, t)
<1>1. Consistent(e)
  BY HoldKeepsConsistent
<1>2. e.lots = [d.lots EXCEPT ![l].reserved = @ + 1]
  BY DEF Hold
<1>3. d.lots \in [Lots -> LotRow]
  BY ConsistentParts
<1> HIDE DEF e
<1>4. \A m \in Lots : /\ e.lots[m].status = d.lots[m].status
                      /\ e.lots[m].expiresAt = d.lots[m].expiresAt
  BY <1>2, <1>3 DEF LotRow
<1>5. DueLots(e, t) = {}
  BY <1>4 DEF DueLots
<1>6. QED
  BY <1>1, <1>5, ConsistentReconciles DEF e

-----------------------------------------------------------------------------

\* Every action that sweeps with the current clock leaves a wallet whose
\* counters, lots and ledger reconcileWallet finds in agreement.
THEOREM SweptWalletsReconcile == Spec => SweepsLeaveAConsistentWallet
<1> DEFINE Swept ==
        (\/ ReleaseExpiredReservations(clock)
         \/ ExpireDueLots(clock)
         \/ \E s \in Sessions :
               ReserveCreditForSession(s, clock) \/ ReleaseReservationForSession(s, clock)
         \/ \E p \in Payments : ResolveDisputeOnLot(p, "won", clock))
        => Reconciles(db', clock)
<1>1. ASSUME IInv PROVE Swept
  <2>1. Consistent(db) /\ clock \in Nat /\ Payments \subseteq Lots
    BY <1>1 DEF IInv, Lots
  <2>2. ASSUME ReleaseExpiredReservations(clock) PROVE Reconciles(db', clock)
    BY <2>1, <2>2, SweptIsExpired DEF ReleaseExpiredReservations, Commit
  <2>3. ASSUME ExpireDueLots(clock) PROVE Reconciles(db', clock)
    BY <2>1, <2>3, ExpiredReconciles DEF ExpireDueLots, Commit
  <2>4. ASSUME NEW s \in Sessions, ReserveCreditForSession(s, clock)
        PROVE  Reconciles(db', clock)
    <3> DEFINE swept == Sweep(db, clock)
    <3>1. /\ db.reservations[s].status \in {"none", "released"}
          /\ \/ \E l \in selectLotForReservation(swept, clock) :
                   db' = Hold(swept, s, l, clock)
             \/ db' = swept
      BY <2>4 DEF ReserveCreditForSession, Commit
    <3>2. /\ Consistent(swept) /\ DueLots(swept, clock) = {} /\ Reconciles(swept, clock)
          /\ swept.reservations[s].status \notin {"held", "captured"}
      BY <2>1, <3>1, SweptIsExpired
    <3> HIDE DEF swept
    <3>3. ASSUME NEW l \in selectLotForReservation(swept, clock)
          PROVE  Reconciles(Hold(swept, s, l, clock), clock)
      <4>1. l \in Lots /\ isLotEligible(swept.lots[l], clock)
        BY DEF selectLotForReservation, EligibleLots
      <4>2. QED
        BY <2>1, <3>2, <4>1, HoldReconciles
    <3>4. QED
      BY <3>1, <3>2, <3>3
  <2>5. ASSUME NEW s \in Sessions, ReleaseReservationForSession(s, clock)
        PROVE  Reconciles(db', clock)
    <3>1. {s} \in SUBSET Held(db)
      BY <2>5 DEF ReleaseReservationForSession, Held
    <3>2. db' = expireDueLotsInTx(releaseReservationRow(db, {s}), clock)
      BY <2>5 DEF ReleaseReservationForSession, releaseReservationForSession, Commit
    <3>3. QED
      BY <2>1, <3>1, <3>2, ReleaseKeepsConsistent, ExpiredReconciles
  <2>6. ASSUME NEW p \in Payments, ResolveDisputeOnLot(p, "won", clock)
        PROVE  Reconciles(db', clock)
    <3>1. /\ db.lots[p].status = "frozen"
          /\ db' = expireDueLotsInTx(Unfreeze(db, p), clock)
      BY <2>6 DEF ResolveDisputeOnLot, ResolveOutcome, resolveDisputeOnLot, Commit
    <3>2. Consistent(Unfreeze(db, p))
      BY <2>1, <3>1, UnfreezeKeepsConsistent
    <3>3. QED
      BY <2>1, <3>1, <3>2, ExpiredReconciles
  <2>7. QED
    BY <2>2, <2>3, <2>4, <2>5, <2>6
<1> HIDE DEF Swept
<1>2. Spec => [][Swept]_vars
  BY <1>1, Invariance, PTL
<1>3. QED
  BY <1>2 DEF Swept, SweepsLeaveAConsistentWallet

=============================================================================
