------------------------- MODULE ReservationProofs -------------------------
(***************************************************************************)
(* The counters of ReservationService, for any orders, targets, workers    *)
(* and quantities: what is reserved is what live reservations hold, and    *)
(* nothing is sold that was not held or that does not exist.  And the      *)
(* service implements the ledger of StockLedger.tla.                       *)
(***************************************************************************)
EXTENDS Reservation, FiniteSetTheorems, TLAPS

\* The inductive invariant.  NoOversell needs HoldsMatch: completing a row
\* moves its units from reserved to sold, and only because the counter covers
\* every live row does the clamp at zero take off as much as is added.
IInv == TypeOK /\ HoldsMatch /\ NoOversell /\ SoldWasHeld

-----------------------------------------------------------------------------
(***************************************************************************)
(* Sums: what the column sum of Units does on unions, differences and      *)
(* single lines                                                            *)
(***************************************************************************)

\* A sum over any set of lines is a natural number.
LEMMA SumType ==
    ASSUME NEW L \in SUBSET Line, NEW t, NEW q
    PROVE  /\ IsFiniteSet(UnitsOf(LinesAt(L, t), q))
           /\ Sum(L, t, q) \in Nat
<1>1. IsFiniteSet(Line)
  BY UnitsAssumption, FS_Product DEF Line
<1>2. IsFiniteSet(1..MaxQuantity)
  BY UnitsAssumption, FS_Interval
<1>3. IsFiniteSet(Line \X (1..MaxQuantity))
  BY <1>1, <1>2, FS_Product
<1>4. UnitsOf(LinesAt(L, t), q) \in SUBSET (Line \X (1..MaxQuantity))
  BY DEF UnitsOf, LinesAt
<1>5. IsFiniteSet(UnitsOf(LinesAt(L, t), q))
  BY <1>3, <1>4, FS_Subset
<1>6. QED
  BY <1>5, FS_CardinalityType DEF Sum

\* Only the quantities of the summed lines matter.
LEMMA SumSame ==
    ASSUME NEW L \in SUBSET Line, NEW t, NEW p, NEW q,
           \A l \in LinesAt(L, t) : p[l] = q[l]
    PROVE  Sum(L, t, p) = Sum(L, t, q)
<1>1. UnitsOf(LinesAt(L, t), p) = UnitsOf(LinesAt(L, t), q)
  BY DEF UnitsOf
<1>2. QED
  BY <1>1 DEF Sum

\* Sums of disjoint sets of lines add up.
LEMMA SumUnion ==
    ASSUME NEW L \in SUBSET Line, NEW M \in SUBSET Line, L \cap M = {},
           NEW t, NEW q
    PROVE  Sum(L \cup M, t, q) = Sum(L, t, q) + Sum(M, t, q)
<1> DEFINE U(X) == UnitsOf(LinesAt(X, t), q)
<1>1. IsFiniteSet(U(L)) /\ IsFiniteSet(U(M))
  BY SumType
<1>2. U(L \cup M) = U(L) \cup U(M)
  BY DEF UnitsOf, LinesAt
<1>3. U(L) \cap U(M) = {}
  BY DEF UnitsOf, LinesAt
<1>4. Cardinality(U(L)) \in Nat /\ Cardinality(U(M)) \in Nat
  BY SumType DEF Sum
<1>5. Cardinality(U(L) \cup U(M)) = Cardinality(U(L)) + Cardinality(U(M)) - Cardinality({})
  BY <1>1, <1>3, FS_Union
<1>6. Cardinality({}) = 0
  BY FS_EmptySet
<1>7. \A a \in Nat, b \in Nat : \A c, d :
         c = a + b - d /\ d = 0 => c = a + b
  OBVIOUS
<1>8. Cardinality(U(L) \cup U(M)) = Cardinality(U(L)) + Cardinality(U(M))
  BY <1>4, <1>5, <1>6, <1>7, Zenon
<1>9. QED
  BY <1>2, <1>8, Zenon DEF Sum

\* Taking lines out of a set takes their sum off.
LEMMA SumMinus ==
    ASSUME NEW L \in SUBSET Line, NEW M \in SUBSET L, NEW t, NEW q
    PROVE  /\ Sum(L \ M, t, q) = Sum(L, t, q) - Sum(M, t, q)
           /\ Sum(M, t, q) <= Sum(L, t, q)
<1>1. Sum((L \ M) \cup M, t, q) = Sum(L \ M, t, q) + Sum(M, t, q)
  <2>1. (L \ M) \in SUBSET Line /\ M \in SUBSET Line /\ (L \ M) \cap M = {}
    OBVIOUS
  <2>2. QED
    BY <2>1, SumUnion
<1>2. (L \ M) \cup M = L
  OBVIOUS
<1>3. Sum(L \ M, t, q) \in Nat /\ Sum(M, t, q) \in Nat /\ Sum(L, t, q) \in Nat
  <2>1. (L \ M) \in SUBSET Line /\ M \in SUBSET Line
    OBVIOUS
  <2>2. QED
    BY <2>1, SumType
<1>4. \A a \in Nat, b \in Nat, c \in Nat : c = a + b => a = c - b /\ b <= c
  OBVIOUS
<1>5. QED
  BY <1>1, <1>2, <1>3, <1>4, Zenon

\* Lines without units do not change a sum.
LEMMA SumSupport ==
    ASSUME NEW L \in SUBSET Line, NEW M \in SUBSET L, NEW t, NEW p, NEW q,
           \A l \in M : p[l] = q[l],
           \A l \in L \ M : p[l] = 0
    PROVE  Sum(L, t, p) = Sum(M, t, q)
<1>1. ASSUME NEW l \in L, NEW i \in 1..MaxQuantity, i <= p[l]
      PROVE  l \in M
  BY <1>1, UnitsAssumption
<1>2. UnitsOf(LinesAt(L, t), p) = UnitsOf(LinesAt(M, t), q)
  BY <1>1 DEF UnitsOf, LinesAt
<1>3. QED
  BY <1>2 DEF Sum

\* A set of lines that has nothing at t sums to nothing there.
LEMMA SumNone ==
    ASSUME NEW L \in SUBSET Line, NEW t, NEW q, LinesAt(L, t) = {}
    PROVE  Sum(L, t, q) = 0
<1>1. UnitsOf(LinesAt(L, t), q) = {}
  BY DEF UnitsOf
<1>2. QED
  BY <1>1, FS_EmptySet DEF Sum

\* The sum over one line is its quantity.
LEMMA SumOne ==
    ASSUME NEW L \in SUBSET Line, NEW t, NEW q, NEW l \in Line,
           LinesAt(L, t) = {l}, q[l] \in 0..MaxQuantity
    PROVE  Sum(L, t, q) = q[l]
<1> DEFINE n == q[l]
           f == [i \in 1..n |-> <<l, i>>]
           U == UnitsOf(LinesAt(L, t), q)
<1>1. n \in Nat /\ n <= MaxQuantity
  BY UnitsAssumption
<1>2. U = {<<l, i>> : i \in 1..n}
  BY <1>1, UnitsAssumption DEF UnitsOf
<1>3. f \in Bijection(1..n, U)
  BY <1>2 DEF Bijection, Injection, Surjection, IsInjective
<1>4. ExistsBijection(1..n, U)
  BY <1>3 DEF ExistsBijection
<1>5. Cardinality(U) = n
  BY <1>1, <1>4, FS_CountingElements
<1>6. QED
  BY <1>5 DEF Sum

-----------------------------------------------------------------------------
(***************************************************************************)
(* Facts about one state                                                   *)
(***************************************************************************)

\* The clamp at zero changes no natural number.
LEMMA AtLeastZeroType ==
    ASSUME NEW n \in Int
    PROVE  /\ AtLeastZero(n) \in Nat
           /\ n >= 0 => AtLeastZero(n) = n
BY DEF AtLeastZero

\* What can be locked of an order is live.
LEMMA LiveLockableLive ==
    ASSUME NEW orders
    PROVE  LiveLockable(orders) \in SUBSET LiveRows
BY DEF LiveLockable, Lockable

\* What the worker can expire is live.
LEMMA ExpirableLive ==
    ASSUME NEW w, NEW skipped
    PROVE  Expirable(w, skipped) \in SUBSET LiveRows
BY DEF Expirable, Lockable

\* Rows are lines, and no live row is completed.
LEMMA RowSets ==
    /\ LiveRows \in SUBSET Line
    /\ CompletedRows \in SUBSET Line
    /\ LiveRows \cap CompletedRows = {}
BY DEF LiveRows, CompletedRows, Row, Live

\* Freeing live rows takes off reserved exactly what they hold.
LEMMA FreedUnits ==
    ASSUME TypeOK, HoldsMatch, NEW R \in SUBSET LiveRows, NEW t \in Target
    PROVE  /\ Sum(R, t, quantity) \in Nat
           /\ Sum(R, t, quantity) <= reserved[t]
           /\ AtLeastZero(reserved[t] - Sum(R, t, quantity)) = reserved[t] - Sum(R, t, quantity)
           /\ Sum(LiveRows \ R, t, quantity) = reserved[t] - Sum(R, t, quantity)
<1>1. R \in SUBSET Line
  BY RowSets
<1>2. Sum(R, t, quantity) \in Nat
  BY <1>1, SumType
<1>3. reserved[t] = Sum(LiveRows, t, quantity) /\ reserved[t] \in Nat
  BY DEF HoldsMatch, TypeOK
<1>4. /\ Sum(LiveRows \ R, t, quantity) = Sum(LiveRows, t, quantity) - Sum(R, t, quantity)
      /\ Sum(R, t, quantity) <= Sum(LiveRows, t, quantity)
  BY RowSets, SumMinus
<1>5. \A a \in Nat, b \in Nat : b <= a => a - b \in Int /\ a - b >= 0
  OBVIOUS
<1>6. /\ reserved[t] - Sum(R, t, quantity) \in Int
      /\ reserved[t] - Sum(R, t, quantity) >= 0
  BY <1>2, <1>3, <1>4, <1>5, Zenon
<1>7. QED
  BY <1>2, <1>3, <1>4, <1>6, AtLeastZeroType, Zenon

-----------------------------------------------------------------------------
(***************************************************************************)
(* What the effects of the actions do to the sets of rows                  *)
(***************************************************************************)

\* Freed rows leave the live ones.
LEMMA FreeRowsSets ==
    ASSUME TypeOK, NEW R \in SUBSET LiveRows,
           NEW reason \in Status \ (Live \cup {"COMPLETED"}),
           FreeRows(R, reason)
    PROVE  /\ LiveRows' = LiveRows \ R
           /\ CompletedRows' = CompletedRows
           /\ quantity' = quantity
BY DEF FreeRows, LiveRows, CompletedRows, Live, Row, TypeOK

\* Sold rows leave the live ones and are completed.
LEMMA SellRowsSets ==
    ASSUME TypeOK, NEW R \in SUBSET LiveRows, SellRows(R)
    PROVE  /\ LiveRows' = LiveRows \ R
           /\ CompletedRows' = CompletedRows \cup R
           /\ quantity' = quantity
BY DEF SellRows, LiveRows, CompletedRows, Live, Row, TypeOK

\* A new window changes neither what is live nor what is completed.
LEMMA GrantWindowSets ==
    ASSUME TypeOK, NEW R \in SUBSET LiveRows, GrantWindow(R)
    PROVE  /\ LiveRows' = LiveRows
           /\ CompletedRows' = CompletedRows
           /\ quantity' = quantity
BY DEF GrantWindow, LiveRows, CompletedRows, Live, Row, TypeOK

\* The rows a checkout inserts, and the ones it releases first.
NewRows(o, cart) == {r \in RowsOf(o) : r[2] \in DOMAIN cart}

\* A checkout adds its rows to the live ones and takes the stale ones off.
LEMMA InsertRowsSets ==
    ASSUME TypeOK,
           NEW o \in Order, NEW S \in SUBSET Target, NEW cart \in [S -> 1..MaxQuantity],
           NEW stale, \A r \in RowsOf(o) : status[r] = "none",
           InsertRows(o, cart, stale)
    PROVE  /\ LiveRows' = (LiveRows \ LiveLockable(stale)) \cup NewRows(o, cart)
           /\ LiveRows \cap NewRows(o, cart) = {}
           /\ CompletedRows' = CompletedRows
           /\ CompletedRows \cap NewRows(o, cart) = {}
           /\ \A r \in Row \ NewRows(o, cart) : quantity'[r] = quantity[r]
           /\ \A r \in NewRows(o, cart) : quantity'[r] = cart[r[2]]
<1>1. NewRows(o, cart) \in SUBSET Row
  BY DEF NewRows, RowsOf, LinesOf
<1>2. \A r \in NewRows(o, cart) : status[r] = "none"
  BY DEF NewRows
<1>3. LiveLockable(stale) \in SUBSET LiveRows
  BY LiveLockableLive
<1>4. status' = [r \in Row |-> IF r \in NewRows(o, cart) THEN "ACTIVE"
                               ELSE IF r \in LiveLockable(stale) THEN "RELEASED"
                               ELSE status[r]]
  BY DEF InsertRows, NewRows
<1>5. quantity' = [r \in Row |-> IF r \in NewRows(o, cart) THEN cart[r[2]]
                                 ELSE quantity[r]]
  BY DEF InsertRows, NewRows
<1>6. LiveRows' = (LiveRows \ LiveLockable(stale)) \cup NewRows(o, cart)
  BY <1>1, <1>2, <1>3, <1>4 DEF LiveRows, Live
<1>7. CompletedRows' = CompletedRows
  BY <1>1, <1>2, <1>3, <1>4 DEF LiveRows, Live, CompletedRows
<1>8. QED
  BY <1>1, <1>2, <1>5, <1>6, <1>7 DEF LiveRows, Live, CompletedRows

\* The new rows at a target hold what the cart asks of it.
LEMMA InsertedUnits ==
    ASSUME TypeOK, HoldsMatch,
           NEW o \in Order, NEW S \in SUBSET Target, NEW cart \in [S -> 1..MaxQuantity],
           NEW stale, \A r \in RowsOf(o) : status[r] = "none",
           InsertRows(o, cart, stale),
           NEW t \in Target
    PROVE  /\ Sum(LiveRows', t, quantity') = reserved'[t]
           /\ reserved'[t] = reserved[t] - Sum(LiveLockable(stale), t, quantity)
                               + (IF t \in S THEN cart[t] ELSE 0)
<1> DEFINE New == NewRows(o, cart)
           Old == LiveLockable(stale)
<1>1. /\ LiveRows' = (LiveRows \ Old) \cup New
      /\ (LiveRows \ Old) \cap New = {}
      /\ \A r \in Row \ New : quantity'[r] = quantity[r]
      /\ \A r \in New : quantity'[r] = cart[r[2]]
  BY InsertRowsSets
<1>2. /\ New \in SUBSET Line
      /\ LiveRows \ Old \in SUBSET Line
  BY RowSets DEF NewRows, RowsOf, LinesOf, Row
<1>3. Sum(LiveRows', t, quantity') = Sum(LiveRows \ Old, t, quantity') + Sum(New, t, quantity')
  BY <1>1, <1>2, SumUnion
<1>4. Sum(LiveRows \ Old, t, quantity') = Sum(LiveRows \ Old, t, quantity)
  <2>1. \A l \in LinesAt(LiveRows \ Old, t) : quantity'[l] = quantity[l]
    BY <1>1, <1>2 DEF LinesAt, Row
  <2>2. QED
    BY <1>2, <2>1, SumSame
<1>5. Sum(New, t, quantity') = IF t \in S THEN cart[t] ELSE 0
  <2>1. CASE t \in S
    <3>1. LinesAt(New, t) = {<<o, t>>} /\ <<o, t>> \in Line
      BY <2>1 DEF LinesAt, NewRows, RowsOf, LinesOf, Row, Line
    <3>2. quantity'[<<o, t>>] = cart[t]
      BY <1>1, <3>1 DEF LinesAt
    <3>3. cart[t] \in 0..MaxQuantity
      BY <2>1, UnitsAssumption
    <3> DEFINE l == <<o, t>>
               q == quantity'
    <3>4. New \in SUBSET Line /\ l \in Line /\ LinesAt(New, t) = {l} /\ q[l] \in 0..MaxQuantity
      BY <1>2, <3>1, <3>2, <3>3
    <3> HIDE DEF New, l, q
    <3>5. Sum(New, t, q) = q[l]
      BY <3>4, SumOne
    <3>6. QED
      BY <2>1, <3>2, <3>5, Zenon DEF l, q
  <2>2. CASE t \notin S
    <3>1. LinesAt(New, t) = {}
      BY <2>2 DEF LinesAt, NewRows
    <3>2. QED
      BY <1>2, <2>2, <3>1, SumNone
  <2>3. QED
    BY <2>1, <2>2
<1>6. /\ Sum(LiveRows \ Old, t, quantity) = reserved[t] - Sum(Old, t, quantity)
      /\ AtLeastZero(reserved[t] - Sum(Old, t, quantity)) = reserved[t] - Sum(Old, t, quantity)
  BY LiveLockableLive, FreedUnits
<1>7. reserved'[t] = AtLeastZero(reserved[t] - Sum(Old, t, quantity))
                       + (IF t \in S THEN cart[t] ELSE 0)
  BY DEF InsertRows
<1>8. QED
  BY <1>3, <1>4, <1>5, <1>6, <1>7, Zenon

-----------------------------------------------------------------------------
(***************************************************************************)
(* Type correctness                                                        *)
(***************************************************************************)

\* A counter less a sum of units, clamped, is a natural number again.
LEMMA ClampedCounter ==
    ASSUME TypeOK, NEW R \in SUBSET LiveRows
    PROVE  [t \in Target |-> AtLeastZero(reserved[t] - Sum(R, t, quantity))]
             \in [Target -> Nat]
<1>1. ASSUME NEW t \in Target
      PROVE  AtLeastZero(reserved[t] - Sum(R, t, quantity)) \in Nat
  <2>1. reserved[t] \in Nat
    BY DEF TypeOK
  <2>2. Sum(R, t, quantity) \in Nat
    BY RowSets, SumType
  <2>3. reserved[t] - Sum(R, t, quantity) \in Int
    BY <2>1, <2>2
  <2>4. QED
    BY <2>3, AtLeastZeroType
<1>2. QED
  BY <1>1

\* Inserting rows keeps the types.
LEMMA InsertRowsType ==
    ASSUME TypeOK,
           NEW o \in Order, NEW S \in SUBSET Target, NEW cart \in [S -> 1..MaxQuantity],
           NEW stale, InsertRows(o, cart, stale)
    PROVE  TypeOK'
<1>1. reserved' \in [Target -> Nat]
  <2>1. \A t \in Target : AtLeastZero(reserved[t] - Sum(LiveLockable(stale), t, quantity)) \in Nat
    BY ClampedCounter, LiveLockableLive
  <2>2. \A t \in Target : (IF t \in DOMAIN cart THEN cart[t] ELSE 0) \in Nat
    BY UnitsAssumption
  <2>3. QED
    BY <2>1, <2>2 DEF InsertRows
<1>2. status' \in [Row -> Status]
  BY DEF InsertRows, TypeOK, Status, Live, Terminal, ReleaseReason
<1>3. quantity' \in [Row -> 0..MaxQuantity]
  <2>1. \A r \in RowsOf(o) : r[2] \in DOMAIN cart => cart[r[2]] \in 0..MaxQuantity
    BY UnitsAssumption
  <2>2. QED
    BY <2>1 DEF InsertRows, TypeOK
<1>4. overdue' \subseteq Row
  BY DEF InsertRows, TypeOK
<1>5. QED
  BY <1>1, <1>2, <1>3, <1>4 DEF InsertRows, TypeOK

\* Freeing rows keeps the types.
LEMMA FreeRowsType ==
    ASSUME TypeOK, NEW R \in SUBSET LiveRows, NEW reason \in Status,
           FreeRows(R, reason),
           sold' \in [Target -> Nat], candidates' \in [Worker -> SUBSET Row]
    PROVE  TypeOK'
<1>1. reserved' \in [Target -> Nat]
  BY ClampedCounter DEF FreeRows
<1>2. status' \in [Row -> Status] /\ overdue' \subseteq Row
  BY DEF FreeRows, TypeOK
<1>3. QED
  BY <1>1, <1>2 DEF FreeRows, TypeOK

\* Selling rows keeps the types.
LEMMA SellRowsType ==
    ASSUME TypeOK, NEW R \in SUBSET LiveRows, SellRows(R)
    PROVE  TypeOK'
<1>1. reserved' \in [Target -> Nat]
  BY ClampedCounter DEF SellRows
<1>2. sold' \in [Target -> Nat]
  <2>1. \A t \in Target : Sum(R, t, quantity) \in Nat
    BY RowSets, SumType
  <2>2. QED
    BY <2>1 DEF SellRows, TypeOK
<1>3. status' \in [Row -> Status] /\ overdue' \subseteq Row
  BY DEF SellRows, TypeOK, Status, Terminal
<1>4. QED
  BY <1>1, <1>2, <1>3 DEF SellRows, TypeOK

\* A new window keeps the types.
LEMMA GrantWindowType ==
    ASSUME TypeOK, NEW R, GrantWindow(R)
    PROVE  TypeOK'
BY DEF GrantWindow, TypeOK, Status, Live, stockVars

\* Every step keeps the types.
LEMMA TypeStep == TypeOK /\ [Next]_vars => TypeOK'
<1> SUFFICES ASSUME TypeOK, [Next]_vars
             PROVE  TypeOK'
  OBVIOUS
<1>1. ASSUME NEW o \in Order, OrderStep(o)
      PROVE  TypeOK'
  <2>1. ASSUME NEW S \in SUBSET Target, NEW stale \in SUBSET Order,
               NEW cart \in [S -> 1..MaxQuantity], ReserveItems(o, cart, stale)
        PROVE  TypeOK'
    BY <2>1, InsertRowsType DEF ReserveItems
  <2>2. CASE LockForCheckout(o)
    BY <2>2, GrantWindowType DEF LockForCheckout
  <2>3. CASE CompleteOrder(o)
    BY <2>3, SellRowsType, LiveLockableLive DEF CompleteOrder
  <2>4. ASSUME NEW reason \in ReleaseReason, ReleaseOrder(o, reason)
        PROVE  TypeOK'
    <3>1. reason \in Status
      BY DEF Status, Terminal
    <3>2. QED
      BY <2>4, <3>1, FreeRowsType, LiveLockableLive DEF ReleaseOrder, TypeOK
  <2>5. CASE ReleaseAndReturn(o)
    <3>1. \A t \in Target : sold[t] - quantity[<<o, t>>] \in Int
      BY UnitsAssumption DEF TypeOK, Row, Line
    <3>2. sold' \in [Target -> Nat]
      BY <2>5, <3>1, AtLeastZeroType DEF ReleaseAndReturn
    <3>3. "CANCELLED" \in Status
      BY DEF Status, Terminal, ReleaseReason
    <3>4. QED
      BY <2>5, <3>2, <3>3, FreeRowsType, LiveLockableLive DEF ReleaseAndReturn, TypeOK
  <2>6. QED
    BY <1>1, <2>1, <2>2, <2>3, <2>4, <2>5 DEF OrderStep
<1>2. ASSUME NEW r \in Row, PassExpiry(r)
      PROVE  TypeOK'
  BY <1>2 DEF PassExpiry, TypeOK, stockVars
<1>3. ASSUME NEW w \in Worker, WorkerStep(w)
      PROVE  TypeOK'
  <2>1. CASE ListCandidates(w)
    BY <2>1 DEF ListCandidates, TypeOK, stockVars, rowVars
  <2>2. ASSUME NEW skipped \in SUBSET candidates[w], ExpireCandidates(w, skipped)
        PROVE  TypeOK'
    <3>1. "EXPIRED" \in Status
      BY DEF Status, Terminal
    <3>2. sold' \in [Target -> Nat] /\ candidates' \in [Worker -> SUBSET Row]
      BY <2>2 DEF ExpireCandidates, TypeOK
    <3>3. QED
      BY <2>2, <3>1, <3>2, FreeRowsType, ExpirableLive DEF ExpireCandidates
  <2>3. QED
    BY <1>3, <2>1, <2>2 DEF WorkerStep
<1>4. ASSUME NEW t \in Target, BackOfficeStep(t)
      PROVE  TypeOK'
  <2>1. ASSUME NEW n \in 1..MaxQuantity, RecordRestock(t, n)
        PROVE  TypeOK'
    BY <2>1, UnitsAssumption DEF RecordRestock, TypeOK, rowVars
  <2>2. ASSUME NEW n \in 1..MaxQuantity, RecordReturn(t, n)
        PROVE  TypeOK'
    <3>1. AtLeastZero(sold[t] - n) \in Nat
      BY UnitsAssumption, AtLeastZeroType DEF TypeOK
    <3>2. QED
      BY <2>2, <3>1 DEF RecordReturn, TypeOK, rowVars
  <2>3. ASSUME NEW n \in 0..MaxStock, RecordAdjustment(t, n)
        PROVE  TypeOK'
    BY <2>3, ReservationAssumption DEF RecordAdjustment, TypeOK, rowVars
  <2>4. CASE SetForSale(t)
    BY <2>4 DEF SetForSale, TypeOK, stockVars, rowVars
  <2>5. QED
    BY <1>4, <2>1, <2>2, <2>3, <2>4 DEF BackOfficeStep
<1>5. CASE UNCHANGED vars
  BY <1>5 DEF vars, TypeOK
<1>6. QED
  BY <1>1, <1>2, <1>3, <1>4, <1>5 DEF Next

\* Every reachable state has its counters in Nat and its rows typed: no
\* counter of a stock row goes negative, which the CHECK constraints of the
\* database would otherwise turn into a failed request.
THEOREM TypeCorrect == Spec => []TypeOK
<1>1. Init => TypeOK
  BY ReservationAssumption, UnitsAssumption DEF Init, TypeOK, Status
<1>2. QED
  BY <1>1, TypeStep, PTL DEF Spec

-----------------------------------------------------------------------------
(***************************************************************************)
(* The counters agree with the rows, and nothing is oversold               *)
(***************************************************************************)

Counters == HoldsMatch /\ NoOversell /\ SoldWasHeld

\* Freeing rows, with units that come back or not, keeps the counters right.
LEMMA FreeRowsCounters ==
    ASSUME IInv, NEW R \in SUBSET LiveRows,
           NEW reason \in Status \ (Live \cup {"COMPLETED"}), FreeRows(R, reason),
           sold' \in [Target -> Nat], \A t \in Target : sold'[t] <= sold[t]
    PROVE  Counters'
<1>1. /\ LiveRows' = LiveRows \ R
      /\ CompletedRows' = CompletedRows
      /\ quantity' = quantity
      /\ stock' = stock
  BY FreeRowsSets DEF IInv, FreeRows
<1>2. ASSUME NEW t \in Target
      PROVE  /\ reserved'[t] = reserved[t] - Sum(R, t, quantity)
             /\ reserved'[t] = Sum(LiveRows', t, quantity')
  BY <1>1, FreedUnits DEF IInv, FreeRows
<1>3. HoldsMatch'
  BY <1>2 DEF HoldsMatch
<1>4. ASSUME NEW t \in Target \ Backorder
      PROVE  reserved'[t] + sold'[t] <= stock'[t]
  <2>1. Sum(R, t, quantity) \in Nat
    BY FreedUnits DEF IInv
  <2>2. /\ reserved[t] \in Nat /\ sold[t] \in Nat /\ sold'[t] \in Nat /\ stock[t] \in Nat
        /\ sold'[t] <= sold[t]
        /\ reserved[t] + sold[t] <= stock[t]
    BY DEF IInv, TypeOK, NoOversell
  <2>3. reserved'[t] = reserved[t] - Sum(R, t, quantity) /\ stock'[t] = stock[t]
    BY <1>1, <1>2
  <2>4. QED
    BY <2>1, <2>2, <2>3
<1>5. ASSUME NEW t \in Target
      PROVE  sold'[t] <= Sum(CompletedRows', t, quantity')
  <2>1. sold[t] <= Sum(CompletedRows, t, quantity)
    BY DEF IInv, SoldWasHeld
  <2>2. /\ sold[t] \in Nat /\ sold'[t] \in Nat /\ sold'[t] <= sold[t]
        /\ Sum(CompletedRows, t, quantity) \in Nat
    BY RowSets, SumType DEF IInv, TypeOK
  <2>3. \A a, b, c \in Nat : a <= b /\ b <= c => a <= c
    OBVIOUS
  <2>4. sold'[t] <= Sum(CompletedRows, t, quantity)
    BY <2>1, <2>2, <2>3, Zenon
  <2>5. QED
    BY <1>1, <2>4, Zenon
<1>6. QED
  BY <1>3, <1>4, <1>5 DEF Counters, NoOversell, SoldWasHeld

\* A sale keeps the counters right.
LEMMA SellRowsCounters ==
    ASSUME IInv, NEW R \in SUBSET LiveRows, SellRows(R)
    PROVE  Counters'
<1>1. /\ LiveRows' = LiveRows \ R
      /\ CompletedRows' = CompletedRows \cup R
      /\ quantity' = quantity
      /\ stock' = stock
  BY SellRowsSets DEF IInv, SellRows
<1>2. ASSUME NEW t \in Target
      PROVE  /\ reserved'[t] = reserved[t] - Sum(R, t, quantity)
             /\ reserved'[t] = Sum(LiveRows', t, quantity')
             /\ sold'[t] = sold[t] + Sum(R, t, quantity)
             /\ Sum(R, t, quantity) \in Nat
  BY <1>1, FreedUnits DEF IInv, SellRows
<1>3. HoldsMatch'
  BY <1>2 DEF HoldsMatch
<1>4. ASSUME NEW t \in Target \ Backorder
      PROVE  reserved'[t] + sold'[t] <= stock'[t]
  <2>1. /\ reserved[t] \in Nat /\ sold[t] \in Nat /\ stock[t] \in Nat
        /\ reserved[t] + sold[t] <= stock[t]
    BY DEF IInv, TypeOK, NoOversell
  <2>2. QED
    BY <1>1, <1>2, <2>1
<1>5. ASSUME NEW t \in Target
      PROVE  sold'[t] <= Sum(CompletedRows', t, quantity')
  <2>1. CompletedRows \in SUBSET Line /\ R \in SUBSET Line /\ CompletedRows \cap R = {}
    BY RowSets
  <2>2. Sum(CompletedRows \cup R, t, quantity)
          = Sum(CompletedRows, t, quantity) + Sum(R, t, quantity)
    BY <2>1, SumUnion
  <2>3. sold[t] <= Sum(CompletedRows, t, quantity)
    BY DEF IInv, SoldWasHeld
  <2>4. /\ sold[t] \in Nat
        /\ Sum(CompletedRows, t, quantity) \in Nat
        /\ Sum(R, t, quantity) \in Nat
    BY <2>1, SumType DEF IInv, TypeOK
  <2>5. \A a, b, c \in Nat : a <= b => a + c <= b + c
    OBVIOUS
  <2>6. sold[t] + Sum(R, t, quantity)
          <= Sum(CompletedRows, t, quantity) + Sum(R, t, quantity)
    BY <2>3, <2>4, <2>5, Zenon
  <2>7. QED
    BY <1>1, <1>2, <2>2, <2>6, Zenon
<1>6. QED
  BY <1>3, <1>4, <1>5 DEF Counters, NoOversell, SoldWasHeld

\* A checkout keeps the counters right.
LEMMA InsertRowsCounters ==
    ASSUME IInv,
           NEW o \in Order, NEW S \in SUBSET Target, NEW cart \in [S -> 1..MaxQuantity],
           NEW stale \in SUBSET Order, ReserveItems(o, cart, stale)
    PROVE  Counters'
<1>1. /\ InsertRows(o, cart, stale)
      /\ \A r \in RowsOf(o) : status[r] = "none"
      /\ TypeOK
      /\ HoldsMatch
      /\ stock' = stock
      /\ sold' = sold
  BY DEF ReserveItems, InsertRows, IInv
<1>2. ASSUME NEW t \in Target
      PROVE  /\ Sum(LiveRows', t, quantity') = reserved'[t]
             /\ reserved'[t] = reserved[t] - Sum(LiveLockable(stale), t, quantity)
                                 + (IF t \in S THEN cart[t] ELSE 0)
  BY <1>1, InsertedUnits
<1>3. HoldsMatch'
  BY <1>2 DEF HoldsMatch
<1>4. ASSUME NEW t \in Target \ Backorder
      PROVE  reserved'[t] + sold'[t] <= stock'[t]
  <2> DEFINE freed == Sum(LiveLockable(stale), t, quantity)
  <2>1. /\ reserved[t] \in Nat /\ sold[t] \in Nat /\ stock[t] \in Nat
        /\ reserved[t] + sold[t] <= stock[t]
        /\ sold'[t] = sold[t] /\ stock'[t] = stock[t]
    BY <1>1 DEF IInv, TypeOK, NoOversell
  <2>2. freed \in Nat /\ AtLeastZero(reserved[t] - freed) = reserved[t] - freed
    BY <1>1, LiveLockableLive, FreedUnits
  <2>3. ASSUME t \in S
        PROVE  cart[t] \in Nat /\ stock[t] - (reserved[t] - freed) - sold[t] >= cart[t]
    BY <2>2, <2>3, UnitsAssumption DEF ReserveItems, AvailableWithout
  <2> HIDE DEF freed
  <2>4. CASE t \in S
    BY <1>2, <2>1, <2>2, <2>3, <2>4 DEF freed
  <2>5. CASE t \notin S
    BY <1>2, <2>1, <2>2, <2>5 DEF freed
  <2>6. QED
    BY <2>4, <2>5
<1>5. ASSUME NEW t \in Target
      PROVE  sold'[t] <= Sum(CompletedRows', t, quantity')
  <2>1. /\ CompletedRows' = CompletedRows
        /\ CompletedRows \cap NewRows(o, cart) = {}
        /\ \A r \in Row \ NewRows(o, cart) : quantity'[r] = quantity[r]
    BY <1>1, InsertRowsSets
  <2>2. \A l \in LinesAt(CompletedRows, t) : quantity'[l] = quantity[l]
    BY <2>1 DEF LinesAt, CompletedRows
  <2>3. Sum(CompletedRows, t, quantity') = Sum(CompletedRows, t, quantity)
    BY <2>2, RowSets, SumSame
  <2>4. sold[t] <= Sum(CompletedRows, t, quantity)
    BY DEF IInv, SoldWasHeld
  <2>5. QED
    BY <1>1, <2>1, <2>3, <2>4, Zenon
<1>6. QED
  BY <1>3, <1>4, <1>5 DEF Counters, NoOversell, SoldWasHeld

\* Steps that leave the rows' statuses in their sets and the counters alone,
\* apart from the warehouse total and the sold units.
LEMMA SameRowsCounters ==
    ASSUME IInv, LiveRows' = LiveRows, CompletedRows' = CompletedRows,
           quantity' = quantity, reserved' = reserved,
           TypeOK',
           \A t \in Target : sold'[t] <= sold[t],
           \A t \in Target : stock'[t] >= stock[t] \/ stock'[t] >= reserved[t] + sold[t]
    PROVE  Counters'
<1>1. HoldsMatch'
  BY DEF HoldsMatch, IInv
<1>2. ASSUME NEW t \in Target \ Backorder
      PROVE  reserved'[t] + sold'[t] <= stock'[t]
  <2>1. /\ reserved[t] \in Nat /\ sold[t] \in Nat /\ stock[t] \in Nat
        /\ sold'[t] \in Nat /\ stock'[t] \in Nat
        /\ reserved[t] + sold[t] <= stock[t]
    BY DEF IInv, TypeOK, NoOversell
  <2>2. QED
    BY <2>1
<1>3. ASSUME NEW t \in Target
      PROVE  sold'[t] <= Sum(CompletedRows', t, quantity')
  <2>1. sold[t] <= Sum(CompletedRows, t, quantity)
    BY DEF IInv, SoldWasHeld
  <2>2. /\ sold[t] \in Nat /\ sold'[t] \in Nat /\ sold'[t] <= sold[t]
        /\ Sum(CompletedRows, t, quantity) \in Nat
    BY RowSets, SumType DEF IInv, TypeOK
  <2>3. \A a, b, c \in Nat : a <= b /\ b <= c => a <= c
    OBVIOUS
  <2>4. sold'[t] <= Sum(CompletedRows, t, quantity)
    BY <2>1, <2>2, <2>3, Zenon
  <2>5. QED
    BY <2>4, Zenon
<1>4. QED
  BY <1>1, <1>2, <1>3 DEF Counters, NoOversell, SoldWasHeld

\* A clamped return never raises what is sold.
LEMMA ReturnedLess ==
    ASSUME NEW a \in Nat, NEW n \in Nat
    PROVE  AtLeastZero(a - n) <= a /\ AtLeastZero(a - n) \in Nat
BY DEF AtLeastZero

\* Every step keeps the counters right.
LEMMA CountersStep == IInv /\ [Next]_vars => Counters'
<1> SUFFICES ASSUME IInv, [Next]_vars
             PROVE  Counters'
  OBVIOUS
<1>0. TypeOK /\ TypeOK'
  BY TypeStep DEF IInv
<1>1. ASSUME NEW o \in Order, OrderStep(o)
      PROVE  Counters'
  <2>1. ASSUME NEW S \in SUBSET Target, NEW stale \in SUBSET Order,
               NEW cart \in [S -> 1..MaxQuantity], ReserveItems(o, cart, stale)
        PROVE  Counters'
    BY <2>1, InsertRowsCounters
  <2>2. CASE LockForCheckout(o)
    <3> DEFINE R == {r \in RowsOf(o) : status[r] = "ACTIVE"}
    <3>1. R \in SUBSET LiveRows /\ GrantWindow(R)
      BY <2>2 DEF LockForCheckout, RowsOf, LinesOf, LiveRows, Live
    <3> HIDE DEF R
    <3>2. LiveRows' = LiveRows /\ CompletedRows' = CompletedRows /\ quantity' = quantity
      BY <1>0, <3>1, GrantWindowSets
    <3>3. reserved' = reserved /\ sold' = sold /\ stock' = stock
      BY <3>1 DEF GrantWindow, stockVars
    <3>4. QED
      BY <1>0, <3>2, <3>3, SameRowsCounters DEF TypeOK
  <2>3. CASE CompleteOrder(o)
    BY <2>3, SellRowsCounters, LiveLockableLive DEF CompleteOrder
  <2>4. ASSUME NEW reason \in ReleaseReason, ReleaseOrder(o, reason)
        PROVE  Counters'
    <3>1. reason \in Status \ (Live \cup {"COMPLETED"})
      BY DEF Status, Terminal, ReleaseReason, Live
    <3>2. sold' \in [Target -> Nat] /\ \A t \in Target : sold'[t] <= sold[t]
      BY <1>0, <2>4 DEF ReleaseOrder, TypeOK
    <3>3. QED
      BY <2>4, <3>1, <3>2, FreeRowsCounters, LiveLockableLive DEF ReleaseOrder
  <2>5. CASE ReleaseAndReturn(o)
    <3>1. "CANCELLED" \in Status \ (Live \cup {"COMPLETED"})
      BY DEF Status, Terminal, ReleaseReason, Live
    <3>2. \A t \in Target : sold[t] \in Nat /\ quantity[<<o, t>>] \in Nat
      BY <1>0, UnitsAssumption DEF TypeOK, Row, Line
    <3>3. sold' \in [Target -> Nat] /\ \A t \in Target : sold'[t] <= sold[t]
      BY <1>0, <2>5, <3>2, ReturnedLess DEF ReleaseAndReturn, TypeOK
    <3>4. QED
      BY <2>5, <3>1, <3>3, FreeRowsCounters, LiveLockableLive DEF ReleaseAndReturn
  <2>6. QED
    BY <1>1, <2>1, <2>2, <2>3, <2>4, <2>5 DEF OrderStep
<1>2. ASSUME NEW r \in Row, PassExpiry(r)
      PROVE  Counters'
  <2>1. /\ LiveRows' = LiveRows /\ CompletedRows' = CompletedRows /\ quantity' = quantity
        /\ reserved' = reserved /\ sold' = sold /\ stock' = stock
    BY <1>2 DEF PassExpiry, stockVars, LiveRows, CompletedRows
  <2>2. QED
    BY <1>0, <2>1, SameRowsCounters DEF TypeOK
<1>3. ASSUME NEW w \in Worker, WorkerStep(w)
      PROVE  Counters'
  <2>1. CASE ListCandidates(w)
    <3>1. /\ LiveRows' = LiveRows /\ CompletedRows' = CompletedRows /\ quantity' = quantity
          /\ reserved' = reserved /\ sold' = sold /\ stock' = stock
      BY <2>1 DEF ListCandidates, stockVars, rowVars, LiveRows, CompletedRows
    <3>2. QED
      BY <1>0, <3>1, SameRowsCounters DEF TypeOK
  <2>2. ASSUME NEW skipped \in SUBSET candidates[w], ExpireCandidates(w, skipped)
        PROVE  Counters'
    <3>1. "EXPIRED" \in Status \ (Live \cup {"COMPLETED"})
      BY DEF Status, Terminal, Live
    <3>2. sold' \in [Target -> Nat] /\ \A t \in Target : sold'[t] <= sold[t]
      BY <1>0, <2>2 DEF ExpireCandidates, TypeOK
    <3>3. QED
      BY <2>2, <3>1, <3>2, FreeRowsCounters, ExpirableLive DEF ExpireCandidates
  <2>3. QED
    BY <1>3, <2>1, <2>2 DEF WorkerStep
<1>4. ASSUME NEW t \in Target, BackOfficeStep(t)
      PROVE  Counters'
  <2>1. ASSUME NEW n \in 1..MaxQuantity, RecordRestock(t, n)
        PROVE  Counters'
    <3>1. /\ LiveRows' = LiveRows /\ CompletedRows' = CompletedRows /\ quantity' = quantity
          /\ reserved' = reserved /\ sold' = sold
      BY <2>1 DEF RecordRestock, rowVars, LiveRows, CompletedRows
    <3>2. \A u \in Target : stock'[u] >= stock[u]
      BY <1>0, <2>1 DEF RecordRestock, TypeOK
    <3>3. QED
      BY <1>0, <3>1, <3>2, SameRowsCounters DEF TypeOK
  <2>2. ASSUME NEW n \in 1..MaxQuantity, RecordReturn(t, n)
        PROVE  Counters'
    <3>1. /\ LiveRows' = LiveRows /\ CompletedRows' = CompletedRows /\ quantity' = quantity
          /\ reserved' = reserved /\ stock' = stock
      BY <2>2 DEF RecordReturn, rowVars, LiveRows, CompletedRows
    <3>2. n \in Nat
      BY UnitsAssumption
    <3>3. \A u \in Target : sold'[u] <= sold[u]
      BY <1>0, <2>2, <3>2, ReturnedLess DEF RecordReturn, TypeOK
    <3>4. QED
      BY <1>0, <3>1, <3>3, SameRowsCounters DEF TypeOK
  <2>3. ASSUME NEW n \in 0..MaxStock, RecordAdjustment(t, n)
        PROVE  Counters'
    <3>1. /\ LiveRows' = LiveRows /\ CompletedRows' = CompletedRows /\ quantity' = quantity
          /\ reserved' = reserved /\ sold' = sold
      BY <2>3 DEF RecordAdjustment, rowVars, LiveRows, CompletedRows
    <3>2. \A u \in Target : stock'[u] >= stock[u] \/ stock'[u] >= reserved[u] + sold[u]
      BY <1>0, <2>3 DEF RecordAdjustment, TypeOK
    <3>3. QED
      BY <1>0, <3>1, <3>2, SameRowsCounters DEF TypeOK
  <2>4. CASE SetForSale(t)
    <3>1. /\ LiveRows' = LiveRows /\ CompletedRows' = CompletedRows /\ quantity' = quantity
          /\ reserved' = reserved /\ sold' = sold /\ stock' = stock
      BY <2>4 DEF SetForSale, stockVars, rowVars, LiveRows, CompletedRows
    <3>2. QED
      BY <1>0, <3>1, SameRowsCounters DEF TypeOK
  <2>5. QED
    BY <1>4, <2>1, <2>2, <2>3, <2>4 DEF BackOfficeStep
<1>5. CASE UNCHANGED vars
  <2>1. /\ LiveRows' = LiveRows /\ CompletedRows' = CompletedRows /\ quantity' = quantity
        /\ reserved' = reserved /\ sold' = sold /\ stock' = stock
    BY <1>5 DEF vars, LiveRows, CompletedRows
  <2>2. QED
    BY <1>0, <2>1, SameRowsCounters DEF TypeOK
<1>6. QED
  BY <1>1, <1>2, <1>3, <1>4, <1>5 DEF Next

\* The counters are right at the start.
LEMMA InitIInv == Init => IInv
<1> SUFFICES ASSUME Init
             PROVE  IInv
  OBVIOUS
<1>1. TypeOK
  BY ReservationAssumption, UnitsAssumption DEF Init, TypeOK, Status
<1>2. LiveRows = {} /\ CompletedRows = {}
  BY DEF Init, LiveRows, CompletedRows, Live
<1>3. \A t \in Target : Sum({}, t, quantity) = 0
  BY SumNone DEF LinesAt
<1>4. QED
  BY <1>1, <1>2, <1>3, ReservationAssumption DEF Init, IInv, HoldsMatch, NoOversell, SoldWasHeld

\* The inductive invariant holds always.
LEMMA Invariance == Spec => []IInv
<1>1. IInv /\ [Next]_vars => IInv'
  BY TypeStep, CountersStep DEF IInv, Counters
<1>2. QED
  BY <1>1, InitIInv, PTL DEF Spec

\* What is counted as reserved is what the live reservations hold, whatever
\* completes, releases or expires them and in whatever order.
THEOREM ReservedIsHeld == Spec => []HoldsMatch
BY Invariance, PTL DEF IInv

\* No interleaving of checkouts, captures, cancellations, expiries, returns
\* and recounts promises a unit that the warehouse does not have.
THEOREM NeverOversold == Spec => []NoOversell
BY Invariance, PTL DEF IInv

\* Every unit counted as sold was held by a reservation that completed.
THEOREM SoldOnlyFromHolds == Spec => []SoldWasHeld
BY Invariance, PTL DEF IInv

-----------------------------------------------------------------------------
(***************************************************************************)
(* A reservation that ended stays ended                                    *)
(***************************************************************************)

\* A row that has ended is none of the live ones.
LEMMA TerminalRows ==
    ASSUME NEW R \in SUBSET LiveRows, NEW r \in Row, status[r] \in Terminal
    PROVE  r \notin R
BY DEF LiveRows, Live, Terminal, ReleaseReason

\* No step changes a row that has ended.
LEMMA TerminalStep ==
    ASSUME TypeOK, [Next]_vars, NEW r \in Row, status[r] \in Terminal
    PROVE  status'[r] = status[r]
<1>1. ASSUME NEW o \in Order, OrderStep(o)
      PROVE  status'[r] = status[r]
  <2>1. ASSUME NEW S \in SUBSET Target, NEW stale \in SUBSET Order,
               NEW cart \in [S -> 1..MaxQuantity], ReserveItems(o, cart, stale)
        PROVE  status'[r] = status[r]
    <3>1. status[r] # "none"
      BY DEF Terminal, ReleaseReason
    <3>2. r \notin RowsOf(o)
      BY <2>1, <3>1 DEF ReserveItems
    <3>3. r \notin LiveLockable(stale)
      BY TerminalRows, LiveLockableLive
    <3>4. QED
      BY <2>1, <3>2, <3>3 DEF ReserveItems, InsertRows
  <2>2. CASE LockForCheckout(o)
    BY <2>2 DEF LockForCheckout, GrantWindow, Terminal, ReleaseReason
  <2>3. CASE CompleteOrder(o)
    BY <2>3, TerminalRows, LiveLockableLive DEF CompleteOrder, SellRows
  <2>4. ASSUME NEW reason \in ReleaseReason, ReleaseOrder(o, reason)
        PROVE  status'[r] = status[r]
    BY <2>4, TerminalRows, LiveLockableLive DEF ReleaseOrder, FreeRows
  <2>5. CASE ReleaseAndReturn(o)
    BY <2>5, TerminalRows, LiveLockableLive DEF ReleaseAndReturn, FreeRows
  <2>6. QED
    BY <1>1, <2>1, <2>2, <2>3, <2>4, <2>5 DEF OrderStep
<1>2. ASSUME NEW x \in Row, PassExpiry(x)
      PROVE  status'[r] = status[r]
  BY <1>2 DEF PassExpiry
<1>3. ASSUME NEW w \in Worker, WorkerStep(w)
      PROVE  status'[r] = status[r]
  <2>1. CASE ListCandidates(w)
    BY <2>1 DEF ListCandidates, rowVars
  <2>2. ASSUME NEW skipped \in SUBSET candidates[w], ExpireCandidates(w, skipped)
        PROVE  status'[r] = status[r]
    BY <2>2, TerminalRows, ExpirableLive DEF ExpireCandidates, FreeRows
  <2>3. QED
    BY <1>3, <2>1, <2>2 DEF WorkerStep
<1>4. ASSUME NEW t \in Target, BackOfficeStep(t)
      PROVE  status'[r] = status[r]
  BY <1>4 DEF BackOfficeStep, RecordRestock, RecordReturn, RecordAdjustment, SetForSale, rowVars
<1>5. CASE UNCHANGED vars
  BY <1>5 DEF vars
<1>6. QED
  BY <1>1, <1>2, <1>3, <1>4, <1>5 DEF Next

\* Once a reservation is completed, released or expired, no late webhook, second
\* cancellation or worker with an old list changes it.
THEOREM EndedStaysEnded == Spec => TerminalIsFinal
<1>1. TypeOK /\ [Next]_vars =>
          [\A r \in Row : status[r] \in Terminal => status'[r] = status[r]]_vars
  BY TerminalStep
<1>2. QED
  BY <1>1, TypeCorrect, PTL DEF Spec, TerminalIsFinal

-----------------------------------------------------------------------------
(***************************************************************************)
(* The refinement: every step of Reservation is one entry of the ledger of *)
(* StockLedger.tla, or leaves it alone.  First, the ledger seen through    *)
(* the mapping.                                                            *)
(***************************************************************************)

\* The ledger sums as the service does.
LEMMA LedgerSum ==
    ASSUME NEW L, NEW t, NEW q
    PROVE  /\ Ledger!Sum(L, t, q) = Sum(L, t, q)
           /\ Ledger!Line = Line
BY Zenon DEF Ledger!Sum, Ledger!UnitsOf, Ledger!LinesAt, Ledger!Line, Ledger!Cardinality,
            Sum, UnitsOf, LinesAt, Line, Cardinality

\* What the ledger holds at a row.
LEMMA HeldUnitsAt ==
    ASSUME NEW r \in Line
    PROVE  HeldUnits[r] = IF r \in LiveRows THEN quantity[r] ELSE 0
BY DEF HeldUnits, LiveRows, Row

\* What a set of live rows holds, in either view.
LEMMA HeldByLive ==
    ASSUME NEW L \in SUBSET LiveRows, NEW t
    PROVE  Sum(L, t, HeldUnits) = Sum(L, t, quantity)
<1>1. L \in SUBSET Line
  BY RowSets
<1>2. \A l \in LinesAt(L, t) : HeldUnits[l] = quantity[l]
  BY <1>1, HeldUnitsAt DEF LinesAt
<1>3. QED
  BY <1>1, <1>2, SumSame

\* The units the ledger holds of a target are the reserved_quantity of its row.
LEMMA HeldIsReserved ==
    ASSUME TypeOK, HoldsMatch, NEW t \in Target
    PROVE  Ledger!HeldAt(t) = reserved[t]
<1>1. \A l \in LiveRows : HeldUnits[l] = quantity[l]
  BY RowSets, HeldUnitsAt
<1>2. \A l \in Line \ LiveRows : HeldUnits[l] = 0
  BY HeldUnitsAt
<1>3. Sum(Line, t, HeldUnits) = Sum(LiveRows, t, quantity)
  BY <1>1, <1>2, RowSets, SumSupport
<1>4. QED
  BY <1>3, LedgerSum DEF Ledger!HeldAt, HoldsMatch

\* A service that starts is an empty ledger.
LEMMA LedgerInit == Init => Ledger!Init
BY DEF Init, Ledger!Init, HeldUnits, Ledger!Line, Live, Row, Line

\* Ending live rows, by release, expiry or sale, empties their lines.
LEMMA HeldAfterEnd ==
    ASSUME NEW R \in SUBSET LiveRows, LiveRows' = LiveRows \ R, quantity' = quantity
    PROVE  HeldUnits' = [l \in Ledger!Line |-> IF l \in R THEN 0 ELSE HeldUnits[l]]
<1>1. HeldUnits' = [r \in Line |-> IF r \in LiveRows' THEN quantity'[r] ELSE 0]
  BY DEF HeldUnits, LiveRows, Row
<1>2. ASSUME NEW r \in Line
      PROVE  (IF r \in LiveRows' THEN quantity'[r] ELSE 0)
               = IF r \in R THEN 0 ELSE HeldUnits[r]
  BY HeldUnitsAt
<1>3. QED
  BY <1>1, <1>2, LedgerSum

\* The ledger holds the same while rows and quantities stay.
LEMMA SameHeld ==
    ASSUME LiveRows' = LiveRows, quantity' = quantity
    PROVE  HeldUnits' = HeldUnits
BY DEF HeldUnits, LiveRows

-----------------------------------------------------------------------------
(***************************************************************************)
(* The entries                                                             *)
(***************************************************************************)

\* reserve_items and the release of the stale orders before it
LEMMA HoldEntry ==
    ASSUME IInv,
           NEW o \in Order, NEW S \in SUBSET Target, NEW cart \in [S -> 1..MaxQuantity],
           NEW stale \in SUBSET Order, ReserveItems(o, cart, stale)
    PROVE  Ledger!Hold(o, cart, LiveLockable(stale))
<1> DEFINE Old == LiveLockable(stale)
<1>1. /\ \A r \in RowsOf(o) : status[r] = "none"
      /\ InsertRows(o, cart, stale)
      /\ TypeOK /\ HoldsMatch
      /\ Old \in SUBSET LiveRows
  BY LiveLockableLive DEF ReserveItems, IInv
<1>2. /\ LiveRows' = (LiveRows \ Old) \cup NewRows(o, cart)
      /\ LiveRows \cap NewRows(o, cart) = {}
  BY <1>1, InsertRowsSets
<1>3. \A t \in Target : HeldUnits[<<o, t>>] = 0
  BY <1>1 DEF HeldUnits, RowsOf, LinesOf, Row, Line, Live
<1>4. ASSUME NEW t \in DOMAIN cart, t \notin Backorder
      PROVE  cart[t] <= Ledger!Room(t) + Ledger!Sum(Old, t, HeldUnits)
  <2>1. t \in Target
    OBVIOUS
  <2>2. AvailableWithout(stale, t) >= cart[t]
    BY <1>4 DEF ReserveItems
  <2>3. /\ AtLeastZero(reserved[t] - Sum(Old, t, quantity)) = reserved[t] - Sum(Old, t, quantity)
        /\ Sum(Old, t, quantity) \in Nat
    BY <1>1, <2>1, FreedUnits
  <2>4. /\ Ledger!Sum(Old, t, HeldUnits) = Sum(Old, t, quantity)
        /\ Ledger!Room(t) = stock[t] - reserved[t] - sold[t]
    BY <1>1, <2>1, LedgerSum, HeldByLive, HeldIsReserved DEF Ledger!Room
  <2>5. /\ stock[t] \in Nat /\ reserved[t] \in Nat /\ sold[t] \in Nat
        /\ cart[t] \in Int
    BY <1>1, <2>1, UnitsAssumption DEF TypeOK
  <2>6. \A s, n, d, k, c \in Int : s - (n - k) - d >= c => c <= (s - n - d) + k
    OBVIOUS
  <2>7. stock[t] - (reserved[t] - Sum(Old, t, quantity)) - sold[t] >= cart[t]
    BY <2>2, <2>3, Zenon DEF AvailableWithout
  <2>8. Sum(Old, t, quantity) \in Int /\ stock[t] \in Int /\ reserved[t] \in Int /\ sold[t] \in Int
    BY <2>3, <2>5
  <2>9. cart[t] <= (stock[t] - reserved[t] - sold[t]) + Sum(Old, t, quantity)
    BY <2>5, <2>6, <2>7, <2>8, Zenon
  <2>10. QED
    BY <2>4, <2>9, Zenon
<1>5. HeldUnits' = [l \in Ledger!Line |->
          IF l[1] = o /\ l[2] \in DOMAIN cart THEN cart[l[2]]
          ELSE IF l \in Old THEN 0 ELSE HeldUnits[l]]
  <2>1. HeldUnits' = [r \in Line |-> IF r \in LiveRows' THEN quantity'[r] ELSE 0]
    BY DEF HeldUnits, LiveRows, Row
  <2>2. ASSUME NEW r \in Line
        PROVE  (IF r \in LiveRows' THEN quantity'[r] ELSE 0)
                 = IF r[1] = o /\ r[2] \in DOMAIN cart THEN cart[r[2]]
                   ELSE IF r \in Old THEN 0 ELSE HeldUnits[r]
    <3>1. r \in NewRows(o, cart) <=> r[1] = o /\ r[2] \in DOMAIN cart
      BY DEF NewRows, RowsOf, LinesOf, Row
    <3>2. quantity'[r] = IF r \in NewRows(o, cart) THEN cart[r[2]] ELSE quantity[r]
      BY <1>1 DEF InsertRows, NewRows, Row
    <3>3. HeldUnits[r] = IF r \in LiveRows THEN quantity[r] ELSE 0
      BY HeldUnitsAt
    <3>4. QED
      BY <1>2, <3>1, <3>2, <3>3
  <2>3. QED
    BY <2>1, <2>2, LedgerSum
<1>6. stock' = stock /\ sold' = sold
  BY <1>1 DEF InsertRows
<1>7. QED
  BY <1>3, <1>4, <1>5, <1>6 DEF Ledger!Hold

\* complete_order_reservations
LEMMA SellEntry ==
    ASSUME IInv, NEW R \in SUBSET LiveRows, SellRows(R)
    PROVE  Ledger!Sell(R)
<1>1. LiveRows' = LiveRows \ R /\ quantity' = quantity
  BY SellRowsSets DEF IInv
<1>2. ASSUME NEW t \in Target
      PROVE  Ledger!Sum(R, t, HeldUnits) = Sum(R, t, quantity)
  BY LedgerSum, HeldByLive
<1>3. sold' = [t \in Target |-> sold[t] + Ledger!Sum(R, t, HeldUnits)]
  BY <1>2 DEF SellRows
<1>4. stock' = stock
  BY DEF SellRows
<1>5. QED
  BY <1>1, <1>3, <1>4, HeldAfterEnd DEF Ledger!Sell

\* Releases, expiries and returns
LEMMA GiveBackEntry ==
    ASSUME IInv, NEW R \in SUBSET LiveRows,
           LiveRows' = LiveRows \ R, quantity' = quantity, stock' = stock,
           NEW back \in [Target -> 0..MaxQuantity],
           \A t \in Target : back[t] <= sold[t],
           sold' = [t \in Target |-> sold[t] - back[t]]
    PROVE  Ledger!Next
<1>1. Ledger!GiveBack(R, back)
  BY HeldAfterEnd DEF Ledger!GiveBack
<1>2. R \in SUBSET Ledger!Line
  BY RowSets, LedgerSum
<1>3. QED
  BY <1>1, <1>2 DEF Ledger!Next

\* Freeing rows without a return is an entry of the ledger.
LEMMA NothingBack ==
    ASSUME IInv, NEW R \in SUBSET LiveRows,
           LiveRows' = LiveRows \ R, quantity' = quantity, stock' = stock, sold' = sold
    PROVE  Ledger!Next
<1> DEFINE back == [t \in Target |-> 0]
<1>1. back \in [Target -> 0..MaxQuantity]
  BY UnitsAssumption
<1>2. \A t \in Target : back[t] <= sold[t]
  BY DEF IInv, TypeOK
<1>3. sold' = [t \in Target |-> sold[t] - back[t]]
  BY DEF IInv, TypeOK
<1>4. QED
  BY <1>1, <1>2, <1>3, GiveBackEntry

\* The clamp at zero never takes off more than is there.
LEMMA ClampedReturn ==
    ASSUME NEW a \in Nat, NEW n \in 0..MaxQuantity
    PROVE  \E b \in 0..MaxQuantity : b <= a /\ AtLeastZero(a - n) = a - b
<1>1. CASE n <= a
  BY <1>1, UnitsAssumption DEF AtLeastZero
<1>2. CASE n > a
  <2>1. a \in 0..MaxQuantity
    BY <1>2, UnitsAssumption
  <2>2. AtLeastZero(a - n) = a - a
    BY <1>2, UnitsAssumption DEF AtLeastZero
  <2>3. QED
    BY <2>1, <2>2
<1>3. QED
  BY <1>1, <1>2, UnitsAssumption

\* Taking back n[t] units of every target, clamped.
LEMMA ClampedReturns ==
    ASSUME IInv, NEW n \in [Target -> 0..MaxQuantity],
           sold' = [t \in Target |-> AtLeastZero(sold[t] - n[t])]
    PROVE  \E back \in [Target -> 0..MaxQuantity] :
              /\ \A t \in Target : back[t] <= sold[t]
              /\ sold' = [t \in Target |-> sold[t] - back[t]]
<1> DEFINE Taken(t) == CHOOSE b \in 0..MaxQuantity :
                          b <= sold[t] /\ AtLeastZero(sold[t] - n[t]) = sold[t] - b
           back == [t \in Target |-> Taken(t)]
<1>1. ASSUME NEW t \in Target
      PROVE  /\ Taken(t) \in 0..MaxQuantity
             /\ Taken(t) <= sold[t]
             /\ AtLeastZero(sold[t] - n[t]) = sold[t] - Taken(t)
  <2>1. sold[t] \in Nat /\ n[t] \in 0..MaxQuantity
    BY DEF IInv, TypeOK
  <2>2. \E b \in 0..MaxQuantity : b <= sold[t] /\ AtLeastZero(sold[t] - n[t]) = sold[t] - b
    BY <2>1, ClampedReturn
  <2>3. QED
    BY <2>2
<1>2. back \in [Target -> 0..MaxQuantity]
  BY <1>1
<1>3. \A t \in Target : back[t] <= sold[t]
  BY <1>1
<1>4. sold' = [t \in Target |-> sold[t] - back[t]]
  BY <1>1
<1> HIDE DEF back
<1>5. QED
  BY <1>2, <1>3, <1>4

-----------------------------------------------------------------------------
(***************************************************************************)
(* Every step is an entry of the ledger, or none                           *)
(***************************************************************************)

\* Every step of the service is an entry of the ledger, or none.
LEMMA LedgerStep == IInv /\ [Next]_vars => [Ledger!Next]_(Ledger!vars)
<1> SUFFICES ASSUME IInv, [Next]_vars
             PROVE  [Ledger!Next]_(Ledger!vars)
  OBVIOUS
<1>0. TypeOK
  BY DEF IInv
<1>s. ASSUME LiveRows' = LiveRows, quantity' = quantity, stock' = stock, sold' = sold
      PROVE  UNCHANGED Ledger!vars
  BY <1>s, SameHeld DEF Ledger!vars
<1>1. ASSUME NEW o \in Order, OrderStep(o)
      PROVE  [Ledger!Next]_(Ledger!vars)
  <2>1. ASSUME NEW S \in SUBSET Target, NEW stale \in SUBSET Order,
               NEW cart \in [S -> 1..MaxQuantity], ReserveItems(o, cart, stale)
        PROVE  Ledger!Next
    <3>1. Ledger!Hold(o, cart, LiveLockable(stale))
      BY <2>1, HoldEntry
    <3>2. LiveLockable(stale) \in SUBSET Ledger!Line
      BY LiveLockableLive, RowSets, LedgerSum
    <3>3. QED
      BY <3>1, <3>2 DEF Ledger!Next
  <2>2. ASSUME LockForCheckout(o)
        PROVE  UNCHANGED Ledger!vars
    <3>1. {r \in RowsOf(o) : status[r] = "ACTIVE"} \in SUBSET LiveRows
      BY DEF RowsOf, LinesOf, LiveRows, Live, Row
    <3>2. LiveRows' = LiveRows /\ quantity' = quantity
      BY <1>0, <2>2, <3>1, GrantWindowSets DEF LockForCheckout
    <3>3. stock' = stock /\ sold' = sold
      BY <2>2 DEF LockForCheckout, GrantWindow, stockVars
    <3>4. QED
      BY <1>s, <3>2, <3>3
  <2>3. ASSUME CompleteOrder(o)
        PROVE  Ledger!Next
    <3>1. Ledger!Sell(LiveLockable({o}))
      BY <2>3, LiveLockableLive, SellEntry DEF CompleteOrder
    <3>2. LiveLockable({o}) \in SUBSET Ledger!Line
      BY LiveLockableLive, RowSets, LedgerSum
    <3>3. QED
      BY <3>1, <3>2 DEF Ledger!Next
  <2>4. ASSUME NEW reason \in ReleaseReason, ReleaseOrder(o, reason)
        PROVE  Ledger!Next
    <3>1. reason \in Status \ (Live \cup {"COMPLETED"})
      BY DEF Status, Terminal, ReleaseReason, Live
    <3>2. LiveLockable({o}) \in SUBSET LiveRows
      BY LiveLockableLive
    <3>3. LiveRows' = LiveRows \ LiveLockable({o}) /\ quantity' = quantity
      BY <1>0, <2>4, <3>1, <3>2, FreeRowsSets DEF ReleaseOrder
    <3>4. stock' = stock /\ sold' = sold
      BY <2>4 DEF ReleaseOrder, FreeRows
    <3>5. QED
      BY <3>2, <3>3, <3>4, NothingBack
  <2>5. ASSUME ReleaseAndReturn(o)
        PROVE  Ledger!Next
    <3>1. "CANCELLED" \in Status \ (Live \cup {"COMPLETED"})
      BY DEF Status, Terminal, ReleaseReason, Live
    <3>2. LiveLockable({o}) \in SUBSET LiveRows
      BY LiveLockableLive
    <3>3. LiveRows' = LiveRows \ LiveLockable({o}) /\ quantity' = quantity
      BY <1>0, <2>5, <3>1, <3>2, FreeRowsSets DEF ReleaseAndReturn
    <3>4. stock' = stock
      BY <2>5 DEF ReleaseAndReturn, FreeRows
    <3> DEFINE n == [t \in Target |-> quantity[<<o, t>>]]
    <3>5. n \in [Target -> 0..MaxQuantity]
      BY <1>0 DEF TypeOK, Row, Line
    <3>6. sold' = [t \in Target |-> AtLeastZero(sold[t] - n[t])]
      BY <2>5 DEF ReleaseAndReturn
    <3> HIDE DEF n
    <3>7. PICK back \in [Target -> 0..MaxQuantity] :
             /\ \A t \in Target : back[t] <= sold[t]
             /\ sold' = [t \in Target |-> sold[t] - back[t]]
      BY <3>5, <3>6, ClampedReturns
    <3>8. QED
      BY <3>2, <3>3, <3>4, <3>7, GiveBackEntry
  <2>6. QED
    BY <1>1, <2>1, <2>2, <2>3, <2>4, <2>5 DEF OrderStep
<1>2. ASSUME NEW r \in Row, PassExpiry(r)
      PROVE  UNCHANGED Ledger!vars
  BY <1>2, <1>s DEF PassExpiry, stockVars, LiveRows
<1>3. ASSUME NEW w \in Worker, WorkerStep(w)
      PROVE  [Ledger!Next]_(Ledger!vars)
  <2>1. ASSUME ListCandidates(w)
        PROVE  UNCHANGED Ledger!vars
    BY <2>1, <1>s DEF ListCandidates, stockVars, rowVars, LiveRows
  <2>2. ASSUME NEW skipped \in SUBSET candidates[w], ExpireCandidates(w, skipped)
        PROVE  Ledger!Next
    <3>1. "EXPIRED" \in Status \ (Live \cup {"COMPLETED"})
      BY DEF Status, Terminal, ReleaseReason, Live
    <3>2. Expirable(w, skipped) \in SUBSET LiveRows
      BY ExpirableLive
    <3>3. LiveRows' = LiveRows \ Expirable(w, skipped) /\ quantity' = quantity
      BY <1>0, <2>2, <3>1, <3>2, FreeRowsSets DEF ExpireCandidates
    <3>4. stock' = stock /\ sold' = sold
      BY <2>2 DEF ExpireCandidates, FreeRows
    <3>5. QED
      BY <3>2, <3>3, <3>4, NothingBack
  <2>3. QED
    BY <1>3, <2>1, <2>2 DEF WorkerStep
<1>4. ASSUME NEW t \in Target, BackOfficeStep(t)
      PROVE  [Ledger!Next]_(Ledger!vars)
  <2>1. ASSUME NEW n \in 1..MaxQuantity, RecordRestock(t, n)
        PROVE  Ledger!Next
    <3>1. stock[t] \in Nat /\ stock[t] + n \in 0..MaxStock /\ stock[t] + n > stock[t]
      BY <1>0, <2>1, ReservationAssumption DEF RecordRestock, TypeOK
    <3>2. HeldUnits' = HeldUnits
      BY <2>1, SameHeld DEF RecordRestock, rowVars, LiveRows
    <3>3. Ledger!Recount(t, stock[t] + n)
      BY <1>0, <2>1, <3>1, <3>2 DEF RecordRestock, Ledger!Recount, TypeOK
    <3>4. QED
      BY <3>1, <3>3 DEF Ledger!Next
  <2>2. ASSUME NEW k \in 1..MaxQuantity, RecordReturn(t, k)
        PROVE  Ledger!Next
    <3> DEFINE n == [u \in Target |-> IF u = t THEN k ELSE 0]
    <3>1. n \in [Target -> 0..MaxQuantity]
      BY UnitsAssumption
    <3>2. sold' = [u \in Target |-> AtLeastZero(sold[u] - n[u])]
      <4>1. ASSUME NEW u \in Target, u # t
            PROVE  AtLeastZero(sold[u] - n[u]) = sold[u]
        BY <1>0, <4>1 DEF AtLeastZero, TypeOK
      <4>2. AtLeastZero(sold[t] - n[t]) = AtLeastZero(sold[t] - k)
        OBVIOUS
      <4>3. sold' = [sold EXCEPT ![t] = AtLeastZero(sold[t] - k)]
        BY <2>2 DEF RecordReturn
      <4> HIDE DEF n
      <4>4. QED
        BY <1>0, <4>1, <4>2, <4>3 DEF TypeOK
    <3> HIDE DEF n
    <3>3. PICK back \in [Target -> 0..MaxQuantity] :
             /\ \A u \in Target : back[u] <= sold[u]
             /\ sold' = [u \in Target |-> sold[u] - back[u]]
      BY <3>1, <3>2, ClampedReturns
    <3>4. LiveRows' = LiveRows \ {} /\ quantity' = quantity /\ stock' = stock
      BY <2>2 DEF RecordReturn, rowVars, LiveRows
    <3>5. QED
      BY <3>3, <3>4, GiveBackEntry
  <2>3. ASSUME NEW n \in 0..MaxStock, RecordAdjustment(t, n)
        PROVE  Ledger!Next
    <3>1. Ledger!HeldAt(t) = reserved[t]
      BY HeldIsReserved DEF IInv
    <3>2. HeldUnits' = HeldUnits
      BY <2>3, SameHeld DEF RecordAdjustment, rowVars, LiveRows
    <3>3. Ledger!Recount(t, n)
      BY <2>3, <3>1, <3>2 DEF RecordAdjustment, Ledger!Recount
    <3>4. QED
      BY <3>3 DEF Ledger!Next
  <2>4. ASSUME SetForSale(t)
        PROVE  UNCHANGED Ledger!vars
    BY <2>4, <1>s DEF SetForSale, stockVars, rowVars, LiveRows
  <2>5. QED
    BY <1>4, <2>1, <2>2, <2>3, <2>4 DEF BackOfficeStep
<1>5. ASSUME UNCHANGED vars
      PROVE  UNCHANGED Ledger!vars
  BY <1>5, <1>s DEF vars, LiveRows
<1>6. QED
  BY <1>1, <1>2, <1>3, <1>4, <1>5 DEF Next

\* The counters, statuses, expiry times and workers of ReservationService keep
\* the ledger: units are held for one order at a time, sold only from a hold,
\* and taken back only once they are sold.
THEOREM ServiceKeepsLedger == Spec => KeepsLedger
<1>1. Init => Ledger!Init
  BY LedgerInit
<1>2. QED
  BY <1>1, Invariance, LedgerStep, PTL DEF Spec, KeepsLedger, Ledger!Spec

-----------------------------------------------------------------------------
(***************************************************************************)
(* What the ledger is worth on its own terms: TypeOK /\ Promise of          *)
(* StockLedger.tla is inductive, whoever keeps the ledger.                  *)
(***************************************************************************)
LedgerInv == Ledger!TypeOK /\ Ledger!Promise

\* The units the ledger holds of a target, as a sum over all lines.
LEMMA LedgerHeld ==
    ASSUME NEW t
    PROVE  /\ Ledger!HeldAt(t) = Sum(Line, t, HeldUnits)
           /\ Ledger!HeldAt(t)' = Sum(Line, t, HeldUnits')
BY LedgerSum, Zenon DEF Ledger!HeldAt

\* Lines that drop what they hold take their sum off the units held.
LEMMA LedgerDrops ==
    ASSUME Ledger!TypeOK, NEW L \in SUBSET Line, NEW t \in Target,
           HeldUnits' = [l \in Line |-> IF l \in L THEN 0 ELSE HeldUnits[l]]
    PROVE  /\ Ledger!HeldAt(t) \in Nat
           /\ Sum(L, t, HeldUnits) \in Nat
           /\ Sum(L, t, HeldUnits) <= Ledger!HeldAt(t)
           /\ Ledger!HeldAt(t)' = Ledger!HeldAt(t) - Sum(L, t, HeldUnits)
<1>1. Sum(Line, t, HeldUnits') = Sum(Line \ L, t, HeldUnits)
  <2>1. /\ \A l \in Line \ L : HeldUnits'[l] = HeldUnits[l]
        /\ \A l \in Line \ (Line \ L) : HeldUnits'[l] = 0
    OBVIOUS
  <2>2. Line \in SUBSET Line /\ Line \ L \in SUBSET Line
    OBVIOUS
  <2>3. QED
    BY <2>1, <2>2, SumSupport
<1>2. /\ Sum(Line \ L, t, HeldUnits) = Sum(Line, t, HeldUnits) - Sum(L, t, HeldUnits)
      /\ Sum(L, t, HeldUnits) <= Sum(Line, t, HeldUnits)
  BY SumMinus
<1>3. Sum(Line, t, HeldUnits) \in Nat /\ Sum(L, t, HeldUnits) \in Nat
  BY SumType
<1>4. QED
  BY <1>1, <1>2, <1>3, LedgerHeld, Zenon

\* A hold replaces what the stale lines hold by the cart.
LEMMA LedgerHoldSum ==
    ASSUME Ledger!TypeOK, NEW o \in Order, NEW S \in SUBSET Target,
           NEW cart \in [S -> 1..MaxQuantity], NEW L \in SUBSET Line,
           Ledger!Hold(o, cart, L), NEW t \in Target
    PROVE  /\ t \in S => Ledger!HeldAt(t)' = Ledger!HeldAt(t) - Sum(L, t, HeldUnits) + cart[t]
           /\ t \notin S => Ledger!HeldAt(t)' = Ledger!HeldAt(t) - Sum(L, t, HeldUnits) + 0
<1> DEFINE New == {l \in Line : l[1] = o /\ l[2] \in S}
           Rest == Line \ New
           more == IF t \in S THEN cart[t] ELSE 0
<1>1. /\ HeldUnits' = [l \in Line |-> IF l \in New THEN cart[l[2]]
                                  ELSE IF l \in L THEN 0 ELSE HeldUnits[l]]
      /\ \A l \in New : HeldUnits[l] = 0
  <2>1. DOMAIN cart = S
    OBVIOUS
  <2>2. \A l \in New : l = <<o, l[2]>>
    BY DEF Line
  <2>3. QED
    BY <2>1, <2>2, LedgerSum DEF Ledger!Hold
<1>2. Sum(Line, t, HeldUnits') = Sum(New, t, HeldUnits') + Sum(Rest, t, HeldUnits')
  <2>1. Sum(New \cup Rest, t, HeldUnits') = Sum(New, t, HeldUnits') + Sum(Rest, t, HeldUnits')
    <3>1. New \in SUBSET Line /\ Rest \in SUBSET Line /\ New \cap Rest = {}
      OBVIOUS
    <3> HIDE DEF New, Rest
    <3>2. QED
      BY <3>1, SumUnion
  <2>2. New \cup Rest = Line
    OBVIOUS
  <2>3. QED
    BY <2>1, <2>2, Zenon
<1>3. Sum(Rest, t, HeldUnits') = Sum(Rest \ L, t, HeldUnits)
  <2>1. /\ \A l \in Rest \ L : HeldUnits'[l] = HeldUnits[l]
        /\ \A l \in Rest \ (Rest \ L) : HeldUnits'[l] = 0
    BY <1>1
  <2>2. Rest \in SUBSET Line /\ Rest \ L \in SUBSET Rest
    OBVIOUS
  <2> HIDE DEF Rest
  <2>3. QED
    BY <2>1, <2>2, SumSupport
<1>4. Sum(Line \ L, t, HeldUnits) = Sum(Rest \ L, t, HeldUnits)
  <2>1. \A l \in (Line \ L) \ (Rest \ L) : HeldUnits[l] = 0
    BY <1>1
  <2>2. Line \ L \in SUBSET Line /\ Rest \ L \in SUBSET (Line \ L)
    OBVIOUS
  <2>3. \A l \in Rest \ L : HeldUnits[l] = HeldUnits[l]
    OBVIOUS
  <2> HIDE DEF Rest
  <2>4. QED
    BY <2>1, <2>2, <2>3, SumSupport
<1>5. Sum(Line \ L, t, HeldUnits) = Sum(Line, t, HeldUnits) - Sum(L, t, HeldUnits)
  BY SumMinus
<1>6. Sum(New, t, HeldUnits') = more
  <2>1. CASE t \in S
    <3>1. <<o, t>> \in Line /\ LinesAt(New, t) = {<<o, t>>}
      BY <2>1 DEF LinesAt, Line
    <3>2. HeldUnits'[<<o, t>>] = cart[t] /\ cart[t] \in 0..MaxQuantity
      BY <1>1, <2>1, <3>1, UnitsAssumption DEF Line
    <3>3. New \in SUBSET Line
      OBVIOUS
    <3> DEFINE l == <<o, t>>
               q == HeldUnits'
    <3>6. l \in Line /\ LinesAt(New, t) = {l} /\ q[l] \in 0..MaxQuantity
      BY <3>1, <3>2
    <3> HIDE DEF New, l, q
    <3>7. Sum(New, t, q) = q[l]
      BY <3>3, <3>6, SumOne, LedgerSum
    <3>4. Sum(New, t, HeldUnits') = HeldUnits'[<<o, t>>]
      BY <3>7 DEF l, q
    <3>5. QED
      BY <2>1, <3>2, <3>4, Zenon
  <2>2. CASE t \notin S
    <3>1. New \in SUBSET Line /\ LinesAt(New, t) = {}
      BY <2>2 DEF LinesAt
    <3> HIDE DEF New
    <3>2. QED
      BY <2>2, <3>1, SumNone, Zenon
  <2>3. QED
    BY <2>1, <2>2
<1>7. /\ Sum(Line, t, HeldUnits) \in Nat /\ Sum(L, t, HeldUnits) \in Nat
      /\ more \in Nat
  BY SumType, UnitsAssumption
<1> HIDE DEF New, Rest, more
<1>8. \A a \in Nat, b \in Nat, c \in Nat : c + (a - b) = a - b + c
  OBVIOUS
<1>9. /\ Ledger!HeldAt(t) = Sum(Line, t, HeldUnits)
      /\ Ledger!HeldAt(t)' = Sum(Line, t, HeldUnits')
  BY Zenon, LedgerSum DEF Ledger!HeldAt
<1>10. Ledger!HeldAt(t)' = Sum(New, t, HeldUnits') + (Sum(Line, t, HeldUnits) - Sum(L, t, HeldUnits))
  BY <1>2, <1>3, <1>4, <1>5, <1>9, Zenon
<1>11. Ledger!HeldAt(t)' = more + (Ledger!HeldAt(t) - Sum(L, t, HeldUnits))
  BY <1>6, <1>9, <1>10, Zenon
<1>12. Ledger!HeldAt(t) \in Nat
  BY <1>7, <1>9, Zenon
<1>13. more + (Ledger!HeldAt(t) - Sum(L, t, HeldUnits)) = Ledger!HeldAt(t) - Sum(L, t, HeldUnits) + more
  BY <1>7, <1>8, <1>12, Zenon
<1>14. Ledger!HeldAt(t)' = Ledger!HeldAt(t) - Sum(L, t, HeldUnits) + more
  BY <1>11, <1>13, Zenon
<1>15. (t \in S => more = cart[t]) /\ (t \notin S => more = 0)
  BY DEF more
<1>16. QED
  BY <1>14, <1>15, Zenon

-----------------------------------------------------------------------------
\* An empty ledger promises nothing.
LEMMA LedgerInitInv ==
    ASSUME Ledger!Init
    PROVE  LedgerInv
<1>1. Ledger!TypeOK
  BY UnitsAssumption, ReservationAssumption DEF Ledger!Init, Ledger!TypeOK
<1>2. ASSUME NEW t \in Target
      PROVE  Ledger!HeldAt(t) = 0
  <2>1. /\ {} \in SUBSET Line /\ Line \in SUBSET Line
        /\ \A l \in {} : HeldUnits[l] = HeldUnits[l]
        /\ \A l \in Line \ {} : HeldUnits[l] = 0
    BY LedgerSum DEF Ledger!Init
  <2>2. Sum(Line, t, HeldUnits) = Sum({}, t, HeldUnits)
    BY <2>1, SumSupport
  <2>3. LinesAt({}, t) = {}
    BY DEF LinesAt
  <2>4. QED
    BY <2>1, <2>2, <2>3, SumNone, LedgerHeld, Zenon
<1>3. QED
  BY <1>1, <1>2 DEF Ledger!Init, LedgerInv, Ledger!Promise

\* A hold fits in the room it found.
LEMMA LedgerHoldKeeps ==
    ASSUME LedgerInv, NEW o \in Order, NEW S \in SUBSET Target,
           NEW cart \in [S -> 1..MaxQuantity], NEW L \in SUBSET Line, Ledger!Hold(o, cart, L)
    PROVE  LedgerInv'
<1>1. Ledger!TypeOK'
  <2>1. ASSUME NEW l \in Line
        PROVE  HeldUnits'[l] \in 0..MaxQuantity
    BY UnitsAssumption, LedgerSum DEF LedgerInv, Ledger!TypeOK, Ledger!Hold
  <2>2. HeldUnits' \in [Line -> 0..MaxQuantity]
    BY <2>1, LedgerSum DEF Ledger!Hold
  <2>3. QED
    BY <2>2 DEF LedgerInv, Ledger!TypeOK, Ledger!Hold
<1>2. ASSUME NEW t \in Target \ Backorder
      PROVE  Ledger!HeldAt(t)' + sold'[t] <= stock'[t]
  <2>1. /\ t \in S => Ledger!HeldAt(t)' = Ledger!HeldAt(t) - Sum(L, t, HeldUnits) + cart[t]
        /\ t \notin S => Ledger!HeldAt(t)' = Ledger!HeldAt(t) - Sum(L, t, HeldUnits) + 0
    <3>1. Ledger!TypeOK /\ t \in Target
      BY DEF LedgerInv
    <3>2. QED
      BY <3>1, LedgerHoldSum, LedgerSum
  <2>2. /\ Ledger!HeldAt(t) \in Nat /\ Sum(L, t, HeldUnits) \in Nat
        /\ sold[t] \in Nat /\ stock[t] \in Nat
    BY SumType, LedgerSum DEF Ledger!HeldAt, LedgerInv, Ledger!TypeOK
  <2>3. sold'[t] = sold[t] /\ stock'[t] = stock[t] /\ Ledger!HeldAt(t) + sold[t] <= stock[t]
    BY DEF Ledger!Hold, LedgerInv, Ledger!Promise
  <2>4. CASE t \in S
    <3>1. cart[t] \in Nat /\ cart[t] <= stock[t] - Ledger!HeldAt(t) - sold[t] + Sum(L, t, HeldUnits)
      BY <2>4, UnitsAssumption, LedgerSum DEF Ledger!Hold, Ledger!Room
    <3>2. Ledger!HeldAt(t)' = Ledger!HeldAt(t) - Sum(L, t, HeldUnits) + cart[t]
      BY <2>1, <2>4, Zenon
    <3>3. \A h \in Nat, x \in Nat, s \in Nat, n \in Nat, c \in Nat :
             c <= n - h - s + x => h - x + c + s <= n
      OBVIOUS
    <3>4. QED
      BY <2>2, <2>3, <3>1, <3>2, <3>3, Zenon
  <2>5. CASE t \notin S
    <3>1. Ledger!HeldAt(t)' = Ledger!HeldAt(t) - Sum(L, t, HeldUnits) + 0
      BY <2>1, <2>5, Zenon
    <3>2. \A h \in Nat, x \in Nat, s \in Nat, n \in Nat :
             h + s <= n => h - x + 0 + s <= n
      OBVIOUS
    <3>3. QED
      BY <2>2, <2>3, <3>1, <3>2, Zenon
  <2>6. QED
    BY <2>4, <2>5
<1>3. QED
  BY <1>1, <1>2 DEF LedgerInv, Ledger!Promise

\* A sale moves units from held to sold.
LEMMA LedgerSellKeeps ==
    ASSUME LedgerInv, NEW L \in SUBSET Line, Ledger!Sell(L)
    PROVE  LedgerInv'
<1>1. ASSUME NEW t \in Target
      PROVE  /\ Ledger!HeldAt(t) \in Nat /\ Sum(L, t, HeldUnits) \in Nat
             /\ Ledger!HeldAt(t)' = Ledger!HeldAt(t) - Sum(L, t, HeldUnits)
  BY LedgerDrops, LedgerSum DEF LedgerInv, Ledger!Sell
<1>2. Ledger!TypeOK'
  <2>1. HeldUnits' \in [Line -> 0..MaxQuantity]
    BY UnitsAssumption, LedgerSum DEF LedgerInv, Ledger!TypeOK, Ledger!Sell
  <2>2. sold' \in [Target -> Nat]
    BY <1>1, LedgerSum DEF LedgerInv, Ledger!TypeOK, Ledger!Sell
  <2>3. QED
    BY <2>1, <2>2 DEF LedgerInv, Ledger!TypeOK, Ledger!Sell
<1>3. ASSUME NEW t \in Target \ Backorder
      PROVE  Ledger!HeldAt(t)' + sold'[t] <= stock'[t]
  <2>1. /\ sold'[t] = sold[t] + Sum(L, t, HeldUnits) /\ stock'[t] = stock[t]
        /\ Ledger!HeldAt(t) + sold[t] <= stock[t] /\ sold[t] \in Nat /\ stock[t] \in Nat
    BY LedgerSum DEF Ledger!Sell, LedgerInv, Ledger!Promise, Ledger!TypeOK
  <2>2. \A h \in Nat, x \in Nat, s \in Nat, n \in Nat :
           h + s <= n => h - x + (s + x) <= n
    OBVIOUS
  <2>3. QED
    BY <1>1, <2>1, <2>2, Zenon
<1>4. QED
  BY <1>2, <1>3 DEF LedgerInv, Ledger!Promise

\* Units that come back leave room.
LEMMA LedgerGiveBackKeeps ==
    ASSUME LedgerInv, NEW L \in SUBSET Line,
           NEW back \in [Target -> 0..MaxQuantity], Ledger!GiveBack(L, back)
    PROVE  LedgerInv'
<1>1. ASSUME NEW t \in Target
      PROVE  /\ Ledger!HeldAt(t) \in Nat /\ Sum(L, t, HeldUnits) \in Nat
             /\ Ledger!HeldAt(t)' = Ledger!HeldAt(t) - Sum(L, t, HeldUnits)
  BY LedgerDrops, LedgerSum DEF LedgerInv, Ledger!GiveBack
<1>2. Ledger!TypeOK'
  <2>1. HeldUnits' \in [Line -> 0..MaxQuantity]
    <3>1. /\ HeldUnits \in [Line -> 0..MaxQuantity]
          /\ HeldUnits' = [l \in Line |-> IF l \in L THEN 0 ELSE HeldUnits[l]]
      BY LedgerSum DEF LedgerInv, Ledger!TypeOK, Ledger!GiveBack
    <3>2. 0 \in 0..MaxQuantity
      BY UnitsAssumption
    <3> HIDE DEF HeldUnits
    <3>3. QED
      BY <3>1, <3>2
  <2>2. sold' \in [Target -> Nat]
    BY UnitsAssumption DEF LedgerInv, Ledger!TypeOK, Ledger!GiveBack
  <2>3. QED
    BY <2>1, <2>2 DEF LedgerInv, Ledger!TypeOK, Ledger!GiveBack
<1>3. ASSUME NEW t \in Target \ Backorder
      PROVE  Ledger!HeldAt(t)' + sold'[t] <= stock'[t]
  <2>1. /\ sold'[t] = sold[t] - back[t] /\ stock'[t] = stock[t] /\ back[t] \in Nat
        /\ Ledger!HeldAt(t) + sold[t] <= stock[t] /\ sold[t] \in Nat /\ stock[t] \in Nat
    BY UnitsAssumption DEF Ledger!GiveBack, LedgerInv, Ledger!Promise, Ledger!TypeOK
  <2>2. \A h \in Nat, x \in Nat, s \in Nat, b \in Nat, n \in Nat :
           h + s <= n => h - x + (s - b) <= n
    OBVIOUS
  <2>3. QED
    BY <1>1, <2>1, <2>2, Zenon
<1>4. QED
  BY <1>2, <1>3 DEF LedgerInv, Ledger!Promise

\* A recount grows the stock or leaves what is promised.
LEMMA LedgerRecountKeeps ==
    ASSUME LedgerInv, NEW t \in Target, NEW n \in Nat, Ledger!Recount(t, n)
    PROVE  LedgerInv'
<1>1. Ledger!TypeOK'
  BY DEF LedgerInv, Ledger!TypeOK, Ledger!Recount
<1>2. ASSUME NEW u \in Target
      PROVE  Ledger!HeldAt(u)' = Ledger!HeldAt(u) /\ Ledger!HeldAt(u) \in Nat
  BY SumType, LedgerSum DEF Ledger!Recount, Ledger!HeldAt
<1>3. ASSUME NEW u \in Target \ Backorder
      PROVE  Ledger!HeldAt(u)' + sold'[u] <= stock'[u]
  BY <1>2 DEF Ledger!Recount, LedgerInv, Ledger!Promise, Ledger!TypeOK
<1>4. QED
  BY <1>1, <1>3 DEF LedgerInv, Ledger!Promise

\* Every step keeps the promise.
LEMMA LedgerNextInv ==
    ASSUME LedgerInv, [Ledger!Next]_(Ledger!vars)
    PROVE  LedgerInv'
<1>1. ASSUME NEW o \in Order, NEW S \in SUBSET Target, NEW L \in SUBSET Line,
             NEW cart \in [S -> 1..MaxQuantity], Ledger!Hold(o, cart, L)
      PROVE  LedgerInv'
  BY <1>1, LedgerHoldKeeps
<1>2. ASSUME NEW L \in SUBSET Line, Ledger!Sell(L)
      PROVE  LedgerInv'
  BY <1>2, LedgerSellKeeps
<1>3. ASSUME NEW L \in SUBSET Line, NEW back \in [Target -> 0..MaxQuantity], Ledger!GiveBack(L, back)
      PROVE  LedgerInv'
  BY <1>3, LedgerGiveBackKeeps
<1>4. ASSUME NEW t \in Target, NEW n \in 0..MaxStock, Ledger!Recount(t, n)
      PROVE  LedgerInv'
  BY <1>4, LedgerRecountKeeps, ReservationAssumption
<1>5. CASE UNCHANGED Ledger!vars
  BY <1>5 DEF LedgerInv, Ledger!TypeOK, Ledger!Promise, Ledger!HeldAt, Ledger!vars
<1>6. Ledger!Line = Line
  BY LedgerSum
<1>7. ASSUME Ledger!Next
      PROVE  LedgerInv'
  BY <1>1, <1>2, <1>3, <1>4, <1>6, <1>7, Zenon DEF Ledger!Next
<1>8. QED
  BY <1>5, <1>7

\* Whoever keeps this ledger never promises a unit twice: reserve_items,
\* the payment paths and the worker of the reservation service together.
THEOREM LedgerPromise == Ledger!Spec => []Ledger!Promise
<1>1. Ledger!Init => LedgerInv
  BY LedgerInitInv
<1>2. LedgerInv /\ [Ledger!Next]_(Ledger!vars) => LedgerInv'
  BY LedgerNextInv
<1>3. LedgerInv => Ledger!Promise
  BY DEF LedgerInv
<1>4. QED
  BY <1>1, <1>2, <1>3, PTL DEF Ledger!Spec
=============================================================================
