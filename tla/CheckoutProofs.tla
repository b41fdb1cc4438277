--------------------------- MODULE CheckoutProofs ---------------------------
(***************************************************************************)
(* What holds of an order, its payment and its reservations together, for  *)
(* any orders, targets, requests, workers and quantities.                  *)
(***************************************************************************)
EXTENDS CheckoutCoupons, FiniteSetTheorems, TLAPS

RP == INSTANCE ReservationProofs

Paid(o) == paymentStatus[o] = "paid"

\* Razorpay pays only orders it was told of, which the call that tells it ends;
\* and the server takes no order for paid that Razorpay has not captured, nor
\* one for confirmed.
GatewayKnown ==
    /\ captured \subseteq razorpayOrder
    /\ calling \cap razorpayOrder = {}
    /\ \A o \in calling \cup razorpayOrder : orderStatus[o] # "none"
    /\ \A o \in Order : Paid(o) \/ orderStatus[o] = "confirmed" => o \in captured
    /\ \A q \in Request : request[q].kind \in {"verify", "captured"} => request[q].order \in captured

\* A row exists from the checkout that gives it its units.
Placed == \A r \in R!Row : status[r] = "none" <=> quantity[r] = 0

\* A row that ended for its order, by sale or release, and not only because its
\* time was over, left no row of the order behind that could be locked.
EndsTogether ==
    \A r, c \in R!Row :
        /\ status[r] \in R!Terminal \ {"EXPIRED"}
        /\ c[1] = r[1] /\ c[2] \notin Delistable
        => c \notin R!LiveRows

\* Hence an order of products that stay for sale is not sold in part.
SoldOrReleased ==
    \A o \in Order :
        (\A r \in PlacedRows(o) : r[2] \notin Delistable)
        => \A r, c \in R!RowsOf(o) : ~(status[r] = "RELEASED" /\ status[c] = "COMPLETED")

\* A paid order holds nothing any more.
PaidHoldsNothing ==
    \A r \in R!Row : Paid(r[1]) /\ r[2] \notin Delistable => r \notin R!LiveRows

\* The rows of an order Razorpay did not accept are not those of one it knows.
RefusedIsUnknown ==
    \A r \in R!Row : status[r] = "PAYMENT_FAILED" => r[1] \notin calling \cup razorpayOrder

IInv ==
    /\ TypeOK
    /\ Target \ Delistable \subseteq forSale
    /\ GatewayKnown
    /\ Placed
    /\ EndsTogether
    /\ SoldOrReleased
    /\ PaidHoldsNothing
    /\ RefusedIsUnknown
    /\ EndedHoldsNothing
    /\ PaidNeverExpired
    /\ SoldMeansCaptured

-----------------------------------------------------------------------------
(***************************************************************************)
(* The refinement of Reservation                                           *)
(***************************************************************************)

\* A request that has begun is about an order.
LEMMA RequestOrder ==
    ASSUME TypeOK, NEW q \in Request, request[q].kind \in {"verify", "captured", "failed", "cancel"}
    PROVE  request[q] \in OrderRequest /\ request[q].order \in Order
BY DEF TypeOK, Idle, OrderRequest

\* What a commit does to the inventory.
LEMMA CommitEffect ==
    ASSUME TypeOK, NEW q \in Request,
           VerifyCommit(q) \/ CapturedCommit(q) \/ FailedCommit(q) \/ CancelCommit(q)
    PROVE  \/ UNCHANGED inventoryVars
           \/ \E o \in Order :
                 \/ R!CompleteOrder(o)
                 \/ \E reason \in R!ReleaseReason : R!ReleaseOrder(o, reason)
                 \/ R!ReleaseAndReturn(o)
<1> DEFINE o == request[q].order
<1>1. o \in Order
  BY RequestOrder DEF VerifyCommit, CapturedCommit, FailedCommit, CancelCommit
<1>2. CASE VerifyCommit(q) \/ CapturedCommit(q)
  BY <1>1, <1>2 DEF VerifyCommit, CapturedCommit, Fulfil
<1>3. CASE FailedCommit(q)
  BY <1>1, <1>3 DEF FailedCommit, R!ReleaseReason
<1>4. CASE CancelCommit(q)
  BY <1>1, <1>4 DEF CancelCommit, R!ReleaseReason
<1>5. QED
  BY <1>2, <1>3, <1>4

\* Every step of the checkout is a step of Reservation or leaves it alone.
LEMMA ReservationStep == TypeOK /\ [Next]_vars => [R!Next]_(R!vars)
<1> SUFFICES ASSUME TypeOK, [Next]_vars
             PROVE  [R!Next]_(R!vars)
  OBVIOUS
<1> USE DEF inventoryVars, R!vars
<1>1. ASSUME NEW o \in Order, IntentStep(o)
      PROVE  [R!Next]_(R!vars)
  <2>1. ASSUME NEW S \in (SUBSET Target) \ {{}}, NEW cart \in [S -> 1..MaxQuantity],
               CreateIntent(o, cart)
        PROVE  R!Next
    <3>1. R!ReserveItems(o, cart, PendingOf(Owner[o])) /\ PendingOf(Owner[o]) \in SUBSET Order
      BY <2>1 DEF CreateIntent, PendingOf
    <3>2. R!OrderStep(o)
      BY <3>1 DEF R!OrderStep
    <3>3. QED
      BY <3>2 DEF R!Next
  <2>2. CASE IntentFails(o)
    <3>1. R!ReleaseOrder(o, "PAYMENT_FAILED")
      BY <2>2 DEF IntentFails
    <3>2. R!OrderStep(o)
      BY <3>1 DEF R!OrderStep, R!ReleaseReason
    <3>3. QED
      BY <3>2 DEF R!Next
  <2>3. CASE IntentSucceeds(o)
    BY <2>3 DEF IntentSucceeds, R!OrderStep, R!Next
  <2>4. CASE IntentLost(o)
    BY <2>4 DEF IntentLost
  <2>5. QED
    BY <1>1, <2>1, <2>2, <2>3, <2>4 DEF IntentStep
<1>2. ASSUME NEW o \in Order, PaymentCaptured(o) \/ AttemptFails(o)
      PROVE  UNCHANGED R!vars
  BY <1>2 DEF PaymentCaptured, AttemptFails
<1>3. ASSUME NEW q \in Request, RequestBegins(q)
      PROVE  UNCHANGED R!vars
  BY <1>3 DEF RequestBegins, VerifyBegin, CapturedBegin, FailedBegin, CustomerCancels,
              AdminCancels, Begin
<1>4. ASSUME NEW q \in Request, RequestEnds(q)
      PROVE  [R!Next]_(R!vars)
  <2>1. CASE RequestDies(q)
    BY <2>1 DEF RequestDies
  <2>2. CASE VerifyCommit(q) \/ CapturedCommit(q) \/ FailedCommit(q) \/ CancelCommit(q)
    BY <2>2, CommitEffect DEF R!Next, R!OrderStep
  <2>3. QED
    BY <1>4, <2>1, <2>2 DEF RequestEnds
<1>5. ASSUME NEW w \in Worker, WorkerStep(w)
      PROVE  R!Next
  <2>1. R!WorkerStep(w)
    BY <1>5 DEF WorkerStep, ListCandidates, ExpireOrders, R!WorkerStep
  <2>2. QED
    BY <2>1 DEF R!Next
<1>6. ASSUME NEW r \in R!Row, PassExpiry(r)
      PROVE  R!Next
  BY <1>6 DEF PassExpiry, R!Next
<1>7. ASSUME NEW t \in Target, SetForSale(t)
      PROVE  R!Next
  BY <1>7 DEF SetForSale, R!Next, R!BackOfficeStep
<1>8. CASE UNCHANGED vars
  BY <1>8 DEF vars
<1>9. QED
  BY <1>1, <1>2, <1>3, <1>4, <1>5, <1>6, <1>7, <1>8 DEF Next

-----------------------------------------------------------------------------
(***************************************************************************)
(* What ReservationProofs shows holds of the checkout: both instances of   *)
(* Reservation mean the same.                                              *)
(***************************************************************************)

\* The sizes and sums of the two instances are the same.
LEMMA SameSums ==
    /\ \A X : R!IsFiniteSet(X) <=> RP!IsFiniteSet(X)
    /\ \A X : IsFiniteSet(X) <=> RP!IsFiniteSet(X)
    /\ \A X : R!Cardinality(X) = RP!Cardinality(X)
    /\ \A L, t, q : R!Sum(L, t, q) = RP!Sum(L, t, q)
<1>1. /\ \A X : R!IsFiniteSet(X) <=> RP!IsFiniteSet(X)
      /\ \A X : IsFiniteSet(X) <=> RP!IsFiniteSet(X)
      /\ \A X : R!Cardinality(X) = RP!Cardinality(X)
  BY Zenon DEF R!Cardinality, RP!Cardinality, R!IsFiniteSet, RP!IsFiniteSet, IsFiniteSet
<1>2. \A L, t, q : R!Sum(L, t, q) = RP!Sum(L, t, q)
  BY <1>1, Zenon DEF R!Sum, R!UnitsOf, R!LinesAt, RP!Sum, RP!UnitsOf, RP!LinesAt
<1>3. QED
  BY <1>1, <1>2

\* What ReservationProofs assumes of the constants is assumed here.
LEMMA SameAssumptions == RP!UnitsAssumption /\ RP!ReservationAssumption
  BY UnitsAssumption, CheckoutAssumption, SameSums
     DEF RP!UnitsAssumption, RP!ReservationAssumption, R!ReservationAssumption

\* Every step of the one instance is a step of the other.
LEMMA SameStep == [R!Next]_(R!vars) => [RP!Next]_(RP!vars)
<1> SUFFICES ASSUME [R!Next]_(R!vars)
             PROVE  [RP!Next]_(RP!vars)
  OBVIOUS
<1> USE SameSums DEF R!Row, RP!Row, R!Line, RP!Line, R!LiveRows, RP!LiveRows, R!Live,
RP!Live,
       R!CompletedRows, RP!CompletedRows, R!RowsOf, RP!RowsOf, R!LinesOf, RP!LinesOf,
       R!Lockable, RP!Lockable, R!LiveLockable, RP!LiveLockable, R!AtLeastZero,
       RP!AtLeastZero,
       R!stockVars, RP!stockVars, R!rowVars, RP!rowVars, R!vars, RP!vars
<1>1. ASSUME NEW o \in Order, R!OrderStep(o)
      PROVE  RP!OrderStep(o)
  <2>1. ASSUME NEW cart, NEW stale, R!ReserveItems(o, cart, stale)
        PROVE  RP!ReserveItems(o, cart, stale)
    BY <2>1, Zenon DEF R!ReserveItems, RP!ReserveItems, R!InsertRows, RP!InsertRows,
                R!AvailableWithout, RP!AvailableWithout
  <2>2. R!LockForCheckout(o) => RP!LockForCheckout(o)
    BY Zenon DEF R!LockForCheckout, RP!LockForCheckout, R!GrantWindow, RP!GrantWindow
  <2>3. R!CompleteOrder(o) => RP!CompleteOrder(o)
    BY Zenon DEF R!CompleteOrder, RP!CompleteOrder, R!SellRows, RP!SellRows
  <2>4. \A reason : R!ReleaseOrder(o, reason) => RP!ReleaseOrder(o, reason)
    BY Zenon DEF R!ReleaseOrder, RP!ReleaseOrder, R!FreeRows, RP!FreeRows
  <2>5. R!ReleaseAndReturn(o) => RP!ReleaseAndReturn(o)
    BY Zenon DEF R!ReleaseAndReturn, RP!ReleaseAndReturn, R!FreeRows, RP!FreeRows
  <2>6. QED
    BY <1>1, <2>1, <2>2, <2>3, <2>4, <2>5 DEF R!OrderStep, RP!OrderStep, R!ReleaseReason,
       RP!ReleaseReason
<1>2. ASSUME NEW r \in R!Row, R!PassExpiry(r)
      PROVE  RP!PassExpiry(r)
  BY <1>2, Zenon DEF R!PassExpiry, RP!PassExpiry
<1>3. ASSUME NEW w \in Worker, R!WorkerStep(w)
      PROVE  RP!WorkerStep(w)
  <2>1. R!ListCandidates(w) => RP!ListCandidates(w)
    BY Zenon DEF R!ListCandidates, RP!ListCandidates
  <2>2. \A skipped : R!ExpireCandidates(w, skipped) => RP!ExpireCandidates(w, skipped)
    BY Zenon DEF R!ExpireCandidates, RP!ExpireCandidates, R!Expirable, RP!Expirable,
                 R!FreeRows, RP!FreeRows
  <2>3. QED
    BY <1>3, <2>1, <2>2 DEF R!WorkerStep, RP!WorkerStep
<1>4. ASSUME NEW t \in Target, R!BackOfficeStep(t)
      PROVE  RP!BackOfficeStep(t)
  BY <1>4, Zenon DEF R!BackOfficeStep, RP!BackOfficeStep, R!RecordRestock, RP!RecordRestock,
              R!RecordReturn, RP!RecordReturn, R!RecordAdjustment, RP!RecordAdjustment,
              R!SetForSale, RP!SetForSale
<1>5. QED
  BY <1>1, <1>2, <1>3, <1>4 DEF R!Next, RP!Next

\* The types of the two instances are the same.
LEMMA SameTypes == R!TypeOK <=> RP!TypeOK
BY Zenon DEF R!TypeOK, RP!TypeOK, R!Row, RP!Row, R!Line, RP!Line, R!Status, RP!Status,
       R!Live, RP!Live, R!Terminal, RP!Terminal, R!ReleaseReason, RP!ReleaseReason

\* The two instances start alike.
LEMMA SameInit == R!Init => RP!Init
BY Zenon DEF R!Init, RP!Init, R!Row, RP!Row, R!Line, RP!Line

\* The inventory keeps its types: they are those of Reservation.
LEMMA InventoryTypes == TypeOK /\ [Next]_vars => R!TypeOK'
<1>1. TypeOK /\ [Next]_vars => RP!TypeOK /\ [RP!Next]_(RP!vars)
  BY ReservationStep, SameStep, SameTypes DEF TypeOK
<1>2. RP!TypeOK /\ [RP!Next]_(RP!vars) => RP!TypeOK'
  BY SameAssumptions, RP!TypeStep
<1>3. R!TypeOK' <=> RP!TypeOK'
  BY Zenon DEF R!TypeOK, RP!TypeOK, R!Row, RP!Row, R!Line, RP!Line, R!Status, RP!Status,
         R!Live, RP!Live, R!Terminal, RP!Terminal, R!ReleaseReason, RP!ReleaseReason
<1>4. QED
  BY <1>1, <1>2, <1>3

\* The types of what is not inventory.
OrderTypes ==
    /\ orderStatus \in [Order -> OrderStatus]
    /\ paymentStatus \in [Order -> {"pending", "paid", "failed"}]
    /\ payment \in [Order -> SUBSET {"captured", "failed"}]
    /\ razorpayOrder \subseteq Order
    /\ calling \subseteq Order
    /\ captured \subseteq Order
    /\ failedAttempt \subseteq Order
    /\ request \in [Request -> {Idle} \cup OrderRequest]

\* Orders, payments and requests keep their types.
LEMMA OrderTypesStep == TypeOK /\ [Next]_vars => OrderTypes'
<1> SUFFICES ASSUME TypeOK, [Next]_vars
             PROVE  OrderTypes'
  OBVIOUS
<1> USE DEF OrderTypes
<1>0. OrderTypes
  BY DEF TypeOK
<1>1. ASSUME NEW o \in Order, IntentStep(o)
      PROVE  OrderTypes'
  <2>1. ASSUME NEW cart, CreateIntent(o, cart)
        PROVE  OrderTypes'
    BY <1>0, <2>1 DEF CreateIntent, gatewayVars, OrderStatus
  <2>2. CASE IntentFails(o) \/ IntentSucceeds(o) \/ IntentLost(o)
    BY <1>0, <2>2 DEF IntentFails, IntentSucceeds, IntentLost, gatewayVars, orderVars,
       OrderStatus
  <2>3. QED
    BY <1>1, <2>1, <2>2 DEF IntentStep
<1>2. ASSUME NEW o \in Order, PaymentCaptured(o) \/ AttemptFails(o)
      PROVE  OrderTypes'
  BY <1>0, <1>2 DEF PaymentCaptured, AttemptFails, orderVars
<1>3. ASSUME NEW q \in Request, RequestBegins(q)
      PROVE  OrderTypes'
  <2>1. PICK o \in Order, kind \in {"verify", "captured", "failed", "cancel"} : Begin(q, kind, o)
    BY <1>3 DEF RequestBegins, VerifyBegin, CapturedBegin, FailedBegin, CustomerCancels,
       AdminCancels
  <2>2. Reading(kind, o) \in OrderRequest
    BY <1>0 DEF Reading, OrderRequest
  <2>3. QED
    BY <1>0, <2>1, <2>2 DEF Begin, orderVars, gatewayVars
<1>4. ASSUME NEW q \in Request, RequestEnds(q)
      PROVE  OrderTypes'
  <2>1. End(q)
    BY <1>4 DEF RequestEnds, VerifyCommit, CapturedCommit, FailedCommit, CancelCommit,
       RequestDies
  <2>2. UNCHANGED <<razorpayOrder, calling, captured, failedAttempt>>
        /\ request' \in [Request -> {Idle} \cup OrderRequest]
    BY <1>0, <2>1 DEF End, gatewayVars
  <2>3. CASE VerifyCommit(q) \/ CapturedCommit(q)
    BY <1>0, <2>2, <2>3 DEF VerifyCommit, CapturedCommit, Fulfil, OrderStatus
  <2>4. CASE FailedCommit(q)
    BY <1>0, <2>2, <2>4 DEF FailedCommit, orderVars, OrderStatus
  <2>5. CASE CancelCommit(q) \/ RequestDies(q)
    BY <1>0, <2>2, <2>5 DEF CancelCommit, RequestDies, orderVars, OrderStatus
  <2>6. QED
    BY <1>4, <2>3, <2>4, <2>5 DEF RequestEnds
<1>5. ASSUME NEW w \in Worker, WorkerStep(w)
      PROVE  OrderTypes'
  <2>1. CASE ListCandidates(w)
    BY <1>0, <2>1 DEF ListCandidates, InventoryOnly, orderVars, gatewayVars
  <2>2. ASSUME NEW skipped, ExpireOrders(w, skipped)
        PROVE  OrderTypes'
    BY <1>0, <2>2 DEF ExpireOrders, orderVars, gatewayVars, OrderStatus
  <2>3. QED
    BY <1>5, <2>1, <2>2 DEF WorkerStep
<1>6. ASSUME NEW r \in R!Row, PassExpiry(r)
      PROVE  OrderTypes'
  BY <1>0, <1>6 DEF PassExpiry, InventoryOnly, orderVars, gatewayVars
<1>7. ASSUME NEW t \in Target, SetForSale(t)
      PROVE  OrderTypes'
  BY <1>0, <1>7 DEF SetForSale, InventoryOnly, orderVars, gatewayVars
<1>8. CASE UNCHANGED vars
  BY <1>0, <1>8 DEF vars, orderVars, gatewayVars
<1>9. QED
  BY <1>1, <1>2, <1>3, <1>4, <1>5, <1>6, <1>7, <1>8 DEF Next

\* The checkout starts with those types.
LEMMA InitTypes == Init => TypeOK
<1>1. Init => R!TypeOK
  BY CheckoutAssumption, UnitsAssumption
     DEF Init, R!Init, R!TypeOK, R!Status, R!ReservationAssumption
<1>2. QED
  BY <1>1 DEF Init, TypeOK, OrderStatus

\* Every variable of the checkout keeps its type, for any instance.
THEOREM CheckoutTypes == Spec => []TypeOK
<1>1. TypeOK /\ [Next]_vars => TypeOK'
  BY InventoryTypes, OrderTypesStep DEF TypeOK, OrderTypes
<1>2. QED
  BY <1>1, InitTypes, PTL DEF Spec

\* The checkout uses the reservations only as ReservationService offers it.
THEOREM CheckoutKeepsReservation == Spec => KeepsReservation
<1>1. Init => R!Init
  BY DEF Init
<1>2. QED
  BY <1>1, CheckoutTypes, ReservationStep, PTL DEF Spec, KeepsReservation, R!Spec

\* What Reservation promises holds in the checkout, whatever becomes of the
\* orders: the counter matches the live rows, nothing is oversold, and what
\* has ended stays as it is.
THEOREM CheckoutReservations ==
    Spec => [](R!HoldsMatch /\ R!NoOversell /\ R!SoldWasHeld) /\ R!TerminalIsFinal
<1>1. R!Init => RP!Init
  BY SameInit
<1>2. R!Spec => RP!Spec
  BY <1>1, SameStep, PTL DEF R!Spec, RP!Spec
<1>3. RP!Spec => []RP!IInv /\ RP!TerminalIsFinal
  BY SameAssumptions, RP!Invariance, RP!EndedStaysEnded
<1>4. RP!IInv => R!HoldsMatch /\ R!NoOversell /\ R!SoldWasHeld
  BY SameSums, Zenon DEF RP!IInv, R!HoldsMatch, R!NoOversell, R!SoldWasHeld, RP!HoldsMatch,
     RP!NoOversell, RP!SoldWasHeld, R!LiveRows, RP!LiveRows, R!Live, RP!Live, R!Row, RP!Row,
     R!Line, RP!Line, R!CompletedRows, RP!CompletedRows
<1>5. [\A r \in RP!Row : status[r] \in RP!Terminal => status'[r] = status[r]]_(RP!vars)
      => [\A r \in R!Row : status[r] \in R!Terminal => status'[r] = status[r]]_(R!vars)
  BY Zenon DEF R!Row, RP!Row, R!Line, RP!Line, R!Terminal, RP!Terminal, R!ReleaseReason,
     RP!ReleaseReason, R!vars, RP!vars
<1>6. RP!TerminalIsFinal => R!TerminalIsFinal
  BY <1>5, PTL DEF R!TerminalIsFinal, RP!TerminalIsFinal
<1>7. Spec => R!Spec
  BY CheckoutKeepsReservation DEF KeepsReservation
<1>8. QED
  BY <1>2, <1>3, <1>4, <1>6, <1>7, PTL

-----------------------------------------------------------------------------
(***************************************************************************)
(* What the ends of an order do to its rows                                *)
(***************************************************************************)

\* The rows of o that a transaction can end.
Held(o) == R!LiveLockable({o})

\* Rows of order o end together for the given reason.
RowsEnd(o, reason) ==
    /\ status' = [r \in R!Row |-> IF r \in Held(o) THEN reason ELSE status[r]]
    /\ UNCHANGED <<quantity, forSale>>

\* What an order holds, spelled out.
LEMMA HeldRows ==
    ASSUME NEW o
    PROVE  Held(o) = {r \in R!Row : status[r] \in R!Live /\ r[1] = o /\ r[2] \in forSale}
BY DEF Held, R!LiveLockable, R!Lockable, R!LiveRows

\* The three ways of the service to end what an order holds.
LEMMA RowsEndBy ==
    ASSUME NEW o
    PROVE  /\ R!CompleteOrder(o) => RowsEnd(o, "COMPLETED")
           /\ \A reason : R!ReleaseOrder(o, reason) => RowsEnd(o, reason)
           /\ R!ReleaseAndReturn(o) => RowsEnd(o, "CANCELLED")
BY DEF R!CompleteOrder, R!SellRows, R!ReleaseOrder, R!ReleaseAndReturn, R!FreeRows,
   RowsEnd, Held

\* Nothing that could be locked stays behind, and what ends together is not
\* sold in part.
LEMMA RowsEndTogether ==
    ASSUME IInv, NEW o \in Order, NEW reason \in R!Terminal \ {"EXPIRED"}, RowsEnd(o, reason)
    PROVE  /\ \A r \in R!Row : r[1] = o /\ r[2] \notin Delistable => r \notin R!LiveRows'
           /\ Placed'
           /\ EndsTogether'
           /\ SoldOrReleased'
<1> USE HeldRows DEF RowsEnd
<1>1. /\ status' = [r \in R!Row |-> IF r \in Held(o) THEN reason ELSE status[r]]
      /\ quantity' = quantity /\ forSale' = forSale
  OBVIOUS
<1>2. ASSUME NEW r \in R!Row, r[1] = o, r[2] \notin Delistable
      PROVE  r \notin R!LiveRows'
  <2>1. r[2] \in forSale
    BY <1>2 DEF IInv, R!Row, R!Line
  <2>2. reason \notin R!Live
    BY DEF R!Live, R!Terminal, R!ReleaseReason
  <2>3. QED
    BY <1>1, <1>2, <2>1, <2>2 DEF R!LiveRows
<1>3. Placed'
  BY <1>1 DEF IInv, Placed, R!Live, R!Terminal, R!ReleaseReason
<1>4. EndsTogether'
  <2> SUFFICES ASSUME NEW r \in R!Row, NEW c \in R!Row,
                      status'[r] \in R!Terminal \ {"EXPIRED"}, c[1] = r[1], c[2] \notin Delistable
               PROVE  c \notin R!LiveRows'
    BY DEF EndsTogether
  <2>1. CASE r[1] = o
    BY <1>2, <2>1
  <2>2. CASE r[1] # o
    BY <1>1, <2>2 DEF IInv, EndsTogether, R!LiveRows
  <2>3. QED
    BY <2>1, <2>2
<1>5. SoldOrReleased'
  <2> SUFFICES ASSUME NEW p \in Order, \A r \in PlacedRows(p) : r[2] \notin Delistable,
                      NEW r \in R!RowsOf(p), NEW c \in R!RowsOf(p),
                      status'[r] = "RELEASED", status'[c] = "COMPLETED"
               PROVE  FALSE
    BY <1>1 DEF SoldOrReleased, PlacedRows
  <2>1. /\ r \in R!Row /\ c \in R!Row /\ r[1] = p /\ c[1] = p
    BY DEF R!RowsOf, R!LinesOf
  <2>2. CASE \E h \in Held(o) : h[1] = p
    <3>1. PICK h \in Held(o) : h[1] = p
      BY <2>2
    <3>2. h \in R!Row /\ h \in R!LiveRows /\ h \in R!RowsOf(p) /\ status[h] # "none"
      BY <3>1 DEF R!LiveRows, R!RowsOf, R!LinesOf, R!Live
    <3>3. quantity[h] > 0
      BY <3>2 DEF IInv, TypeOK, R!TypeOK, Placed
    <3>4. h[2] \notin Delistable
      BY <3>2, <3>3 DEF PlacedRows
    <3>5. status[r] # "RELEASED" /\ status[c] # "COMPLETED"
      BY <2>1, <3>1, <3>2, <3>4 DEF IInv, EndsTogether, R!Terminal, R!ReleaseReason
    <3>6. QED
      BY <1>1, <2>1, <3>5
  <2>3. CASE \A h \in Held(o) : h[1] # p
    <3>1. status[r] = "RELEASED" /\ status[c] = "COMPLETED"
      BY <1>1, <2>1, <2>3
    <3>2. QED
      BY <3>1 DEF IInv, SoldOrReleased
  <2>4. QED
    BY <2>2, <2>3
<1>6. QED
  BY <1>2, <1>3, <1>4, <1>5

-----------------------------------------------------------------------------
(***************************************************************************)
(* Razorpay and the orders                                                 *)
(***************************************************************************)

\* GatewayKnown is kept by every step.
LEMMA GatewayStep == TypeOK /\ GatewayKnown /\ [Next]_vars => GatewayKnown'
<1> SUFFICES ASSUME TypeOK, GatewayKnown, [Next]_vars
             PROVE  GatewayKnown'
  OBVIOUS
<1> USE DEF GatewayKnown, Paid
<1>0. OrderTypes
  BY DEF TypeOK, OrderTypes
<1> USE DEF OrderTypes
<1>1. ASSUME NEW o \in Order, IntentStep(o)
      PROVE  GatewayKnown'
  <2>1. ASSUME NEW cart, CreateIntent(o, cart)
        PROVE  GatewayKnown'
    BY <1>0, <2>1 DEF CreateIntent, gatewayVars, PendingOf, PendingStatus
  <2>2. CASE IntentFails(o) \/ IntentSucceeds(o) \/ IntentLost(o)
    BY <1>0, <2>2 DEF IntentFails, IntentSucceeds, IntentLost, gatewayVars, orderVars
  <2>3. QED
    BY <1>1, <2>1, <2>2 DEF IntentStep
<1>2. ASSUME NEW o \in Order, PaymentCaptured(o) \/ AttemptFails(o)
      PROVE  GatewayKnown'
  BY <1>0, <1>2 DEF PaymentCaptured, AttemptFails, orderVars
<1>3. ASSUME NEW q \in Request, RequestBegins(q)
      PROVE  GatewayKnown'
  <2>1. PICK o \in Order, kind \in {"verify", "captured", "failed", "cancel"} :
            Begin(q, kind, o) /\ (kind \in {"verify", "captured"} => o \in captured)
    BY <1>3 DEF RequestBegins, VerifyBegin, CapturedBegin, FailedBegin, CustomerCancels,
       AdminCancels
  <2>2. Reading(kind, o).kind = kind /\ Reading(kind, o).order = o
    BY DEF Reading
  <2>3. QED
    BY <1>0, <2>1, <2>2 DEF Begin, orderVars, gatewayVars
<1>4. ASSUME NEW q \in Request, RequestEnds(q)
      PROVE  GatewayKnown'
  <2> DEFINE o == request[q].order
  <2>1. End(q)
    BY <1>4 DEF RequestEnds, VerifyCommit, CapturedCommit, FailedCommit, CancelCommit,
       RequestDies
  <2>2. UNCHANGED <<razorpayOrder, calling, captured, failedAttempt>>
    BY <2>1 DEF End, gatewayVars
  <2>3. \A p \in Request : request'[p].kind \in {"verify", "captured"} => request'[p].order \in captured
    BY <1>0, <2>1 DEF End, Idle
  <2>4. CASE VerifyCommit(q) \/ CapturedCommit(q)
    <3>1. o \in captured
      BY <2>4 DEF VerifyCommit, CapturedCommit
    <3>2. /\ orderStatus' = [orderStatus EXCEPT ![o] = "confirmed"]
          /\ paymentStatus' = [paymentStatus EXCEPT ![o] = "paid"]
      BY <2>4 DEF VerifyCommit, CapturedCommit, Fulfil
    <3>3. QED
      BY <1>0, <2>2, <2>3, <3>1, <3>2
  <2>5. CASE FailedCommit(q)
    BY <1>0, <2>2, <2>3, <2>5 DEF FailedCommit, orderVars
  <2>6. CASE CancelCommit(q) \/ RequestDies(q)
    BY <1>0, <2>2, <2>3, <2>6 DEF CancelCommit, RequestDies, orderVars
  <2>7. QED
    BY <1>4, <2>4, <2>5, <2>6 DEF RequestEnds
<1>5. ASSUME NEW w \in Worker, WorkerStep(w)
      PROVE  GatewayKnown'
  <2>1. CASE ListCandidates(w)
    BY <2>1 DEF ListCandidates, InventoryOnly, orderVars, gatewayVars
  <2>2. ASSUME NEW skipped, ExpireOrders(w, skipped)
        PROVE  GatewayKnown'
    BY <1>0, <2>2 DEF ExpireOrders, orderVars, gatewayVars, OrderStatus
  <2>3. QED
    BY <1>5, <2>1, <2>2 DEF WorkerStep
<1>6. ASSUME NEW r \in R!Row, PassExpiry(r)
      PROVE  GatewayKnown'
  BY <1>6 DEF PassExpiry, InventoryOnly, orderVars, gatewayVars
<1>7. ASSUME NEW t \in Target, SetForSale(t)
      PROVE  GatewayKnown'
  BY <1>7 DEF SetForSale, InventoryOnly, orderVars, gatewayVars
<1>8. CASE UNCHANGED vars
  BY <1>8 DEF vars, orderVars, gatewayVars
<1>9. QED
  BY <1>1, <1>2, <1>3, <1>4, <1>5, <1>6, <1>7, <1>8 DEF Next

-----------------------------------------------------------------------------
(***************************************************************************)
(* Orders and their rows, one lemma for each kind of step                  *)
(***************************************************************************)

\* The conjuncts of IInv about rows.
RowsInv ==
    /\ Target \ Delistable \subseteq forSale
    /\ Placed
    /\ EndsTogether
    /\ SoldOrReleased
    /\ PaidHoldsNothing
    /\ RefusedIsUnknown
    /\ EndedHoldsNothing
    /\ PaidNeverExpired
    /\ SoldMeansCaptured

\* Rows that keep their status, or stay live, while the order is in no end it
\* was not in before.
LEMMA RowsStay ==
    ASSUME IInv, UNCHANGED <<quantity, paymentStatus>>,
    Target \ Delistable \subseteq forSale',
           \A r \in R!Row : \/ status'[r] = status[r]
                            \/ status[r] \in R!Live /\ status'[r] \in R!Live,
           captured \subseteq captured',
           \A o \in Order : o \in calling' \cup razorpayOrder' => o \in calling \cup razorpayOrder,
           \A o \in Order : \/ orderStatus'[o] = orderStatus[o]
                            \/ orderStatus'[o] \notin {"confirmed", "cancelled", "payment_failed"}
    PROVE  RowsInv'
<1>1. Target \ Delistable \subseteq forSale' /\ Placed'
  BY DEF IInv, Placed, R!Live
<1>2. EndsTogether'
  BY DEF IInv, EndsTogether, R!LiveRows, R!Live, R!Terminal, R!ReleaseReason
<1>3. SoldOrReleased'
  BY DEF IInv, SoldOrReleased, PlacedRows, R!RowsOf, R!LinesOf, R!Live
<1>4. PaidHoldsNothing' /\ RefusedIsUnknown' /\ PaidNeverExpired'
  BY DEF IInv, PaidHoldsNothing, RefusedIsUnknown, PaidNeverExpired, Paid, R!LiveRows,
     R!Live,
         R!Row, R!Line
<1>5. EndedHoldsNothing' /\ SoldMeansCaptured'
  BY DEF IInv, EndedHoldsNothing, SoldMeansCaptured, R!LiveRows, R!CompletedRows, R!Live,
         R!Row, R!Line
<1>6. QED
  BY <1>1, <1>2, <1>3, <1>4, <1>5 DEF RowsInv

\* Held rows end for order o, which is in an end then, or was paid before.
LEMMA OrderEnds ==
    ASSUME IInv, NEW o \in Order, NEW reason \in R!Terminal \ {"EXPIRED"}, RowsEnd(o,
    reason),
           reason = "COMPLETED" => o \in captured,
           reason = "PAYMENT_FAILED" => o \notin calling' \cup razorpayOrder',
           captured' = captured,
           calling' \subseteq calling, razorpayOrder' = razorpayOrder,
           \A p \in Order \ {o} : orderStatus'[p] = orderStatus[p] /\ paymentStatus'[p] = paymentStatus[p],
           paymentStatus'[o] = "paid" =>
               Paid(o) \/ \A r \in R!RowsOf(o) : status[r] # "EXPIRED"
    PROVE  RowsInv'
<1> USE HeldRows DEF RowsEnd
<1>1. /\ status' = [r \in R!Row |-> IF r \in Held(o) THEN reason ELSE status[r]]
      /\ quantity' = quantity /\ forSale' = forSale
      /\ reason \notin R!Live
  BY DEF R!Live, R!Terminal, R!ReleaseReason
<1>2. /\ \A r \in R!Row : r[1] = o /\ r[2] \notin Delistable => r \notin R!LiveRows'
      /\ Placed' /\ EndsTogether' /\ SoldOrReleased'
  BY RowsEndTogether
<1>3. PaidHoldsNothing' /\ EndedHoldsNothing'
  BY <1>1, <1>2 DEF IInv, PaidHoldsNothing, EndedHoldsNothing, Paid, R!LiveRows, R!Row,
     R!Line
<1>4. RefusedIsUnknown'
  BY <1>1 DEF IInv, RefusedIsUnknown, R!Row, R!Line
<1>5. PaidNeverExpired'
  BY <1>1 DEF IInv, PaidNeverExpired, Paid, R!Row, R!Line, R!RowsOf, R!LinesOf
<1>6. SoldMeansCaptured'
  BY <1>1 DEF IInv, SoldMeansCaptured, R!CompletedRows
<1>7. QED
  BY <1>1, <1>2, <1>3, <1>4, <1>5, <1>6 DEF RowsInv, IInv

\* A checkout opens rows for an order nobody knows yet, and ends those of the
\* customer's stale orders.
LEMMA CreateIntentRows ==
    ASSUME IInv, NEW o \in Order, NEW S \in SUBSET Target,
    NEW cart \in [S -> 1..MaxQuantity],
           CreateIntent(o, cart)
    PROVE  RowsInv'
<1> DEFINE stale == PendingOf(Owner[o])
           New == {r \in R!Row : r[1] = o /\ r[2] \in S}
           Old == {r \in R!Row : status[r] \in R!Live /\ r[1] \in stale /\ r[2] \in forSale}
<1>1. /\ o \notin stale
      /\ \A r \in R!Row : r[1] = o => status[r] = "none"
      /\ status' = [r \in R!Row |-> IF r \in New THEN "ACTIVE"
                                    ELSE IF r \in Old THEN "RELEASED" ELSE status[r]]
      /\ quantity' = [r \in R!Row |-> IF r \in New THEN cart[r[2]] ELSE quantity[r]]
      /\ forSale' = forSale
  BY DEF CreateIntent, R!ReserveItems, R!InsertRows, R!RowsOf, R!LinesOf, R!LiveLockable,
         R!Lockable, R!LiveRows
<1>2. /\ orderStatus[o] = "none"
      /\ orderStatus' = [p \in Order |-> IF p = o THEN "stock_reserved"
                                         ELSE IF p \in stale THEN "payment_failed"
                                         ELSE orderStatus[p]]
      /\ calling' = calling \cup {o}
      /\ UNCHANGED <<paymentStatus, razorpayOrder, captured>>
  BY DEF CreateIntent, gatewayVars
<1>3. o \notin calling \cup razorpayOrder /\ o \notin captured /\ ~Paid(o)
  BY <1>2 DEF IInv, GatewayKnown
<1>4. \A r \in New : cart[r[2]] \in 1..MaxQuantity
  OBVIOUS
<1>5. \A r \in New : status[r] = "none"
  BY <1>1
<1> USE DEF R!Live
<1> HIDE DEF stale, New, Old
<1>6. /\ \A r \in New : r \in R!Row /\ r[1] = o
      /\ \A r \in Old : r \in R!Row /\ r[1] \in stale /\ status[r] \in R!Live
      /\ \A r \in R!Row : r[1] \in stale /\ r[2] \notin Delistable /\ status[r] \in R!Live => r \in Old
  BY DEF New, Old, IInv, R!Row, R!Line
<1>7. Target \ Delistable \subseteq forSale' /\ Placed'
  BY <1>1, <1>4, <1>5, <1>6 DEF IInv, Placed
<1>8. EndsTogether'
  BY <1>1, <1>5, <1>6 DEF IInv, EndsTogether, R!LiveRows, R!Terminal, R!ReleaseReason
<1>9. SoldOrReleased'
  <2> SUFFICES ASSUME NEW p \in Order, \A r \in PlacedRows(p)' : r[2] \notin Delistable,
                      NEW r \in R!RowsOf(p), NEW c \in R!RowsOf(p),
                      status'[r] = "RELEASED", status'[c] = "COMPLETED"
               PROVE  FALSE
    BY DEF SoldOrReleased, R!RowsOf, R!LinesOf
  <2>1. /\ r \in R!Row /\ c \in R!Row /\ r[1] = p /\ c[1] = p /\ p # o
    BY <1>1, <1>6 DEF R!RowsOf, R!LinesOf
  <2>2. \A h \in R!RowsOf(p) : h \in R!Row /\ h[1] = p /\ h \notin New /\ quantity'[h] = quantity[h]
    BY <1>1, <1>6, <2>1 DEF R!RowsOf, R!LinesOf
  <2>3. \A h \in R!RowsOf(p) : quantity[h] > 0 => h[2] \notin Delistable
    BY <2>2 DEF PlacedRows, R!RowsOf, R!LinesOf
  <2>4. c \notin Old /\ status[c] = "COMPLETED"
    BY <1>1, <2>1, <2>2
  <2>5. \A h \in R!RowsOf(p) : status[h] \notin R!Live
    <3> SUFFICES ASSUME NEW h \in R!RowsOf(p), status[h] \in R!Live
                 PROVE  FALSE
      OBVIOUS
    <3>1. quantity[h] > 0
      BY <2>2 DEF IInv, TypeOK, R!TypeOK, Placed
    <3>2. QED
      BY <2>1, <2>2, <2>3, <2>4, <3>1 DEF IInv, EndsTogether, R!LiveRows, R!Terminal
  <2>6. status[r] = "RELEASED"
    BY <1>1, <1>6, <2>1, <2>2, <2>5
  <2>7. QED
    BY <2>3, <2>4, <2>6 DEF IInv, SoldOrReleased, PlacedRows
<1>10. PaidHoldsNothing' /\ RefusedIsUnknown' /\ PaidNeverExpired'
  BY <1>1, <1>2, <1>3, <1>6 DEF IInv, PaidHoldsNothing, RefusedIsUnknown, PaidNeverExpired,
         Paid, R!LiveRows, R!Row, R!Line
<1>11. EndedHoldsNothing'
  BY <1>1, <1>2, <1>6 DEF IInv, EndedHoldsNothing, R!LiveRows, R!Row, R!Line
<1>12. SoldMeansCaptured'
  BY <1>1, <1>2, <1>6 DEF IInv, SoldMeansCaptured, R!CompletedRows
<1>13. QED
  BY <1>7, <1>8, <1>9, <1>10, <1>11, <1>12 DEF RowsInv

\* The worker expires rows of orders that are not paid.
LEMMA ExpireOrdersRows ==
    ASSUME IInv, NEW w \in Worker, NEW skipped, ExpireOrders(w, skipped)
    PROVE  RowsInv'
<1> DEFINE E == R!Expirable(w, skipped)
<1>1. /\ status' = [r \in R!Row |-> IF r \in E THEN "EXPIRED" ELSE status[r]]
      /\ \A r \in E : r \in R!Row /\ status[r] \in R!Live
      /\ UNCHANGED <<quantity, forSale, paymentStatus, captured, razorpayOrder, calling>>
  BY DEF ExpireOrders, R!ExpireCandidates, R!FreeRows, R!Expirable, R!Lockable, R!LiveRows,
         gatewayVars
<1>2. \A o \in Order : \/ orderStatus'[o] = orderStatus[o]
                       \/ orderStatus'[o] = "payment_expired"
  BY DEF ExpireOrders
<1> HIDE DEF E
<1> USE DEF R!LiveRows, R!Live
<1>3. Target \ Delistable \subseteq forSale' /\ Placed'
  BY <1>1 DEF IInv, Placed
<1>4. EndsTogether'
  BY <1>1 DEF IInv, EndsTogether, R!Terminal, R!ReleaseReason
<1>5. SoldOrReleased'
  BY <1>1 DEF IInv, SoldOrReleased, PlacedRows, R!RowsOf, R!LinesOf
<1>6. PaidHoldsNothing' /\ RefusedIsUnknown'
  BY <1>1 DEF IInv, PaidHoldsNothing, RefusedIsUnknown, Paid, R!Row, R!Line
<1>7. PaidNeverExpired'
  BY <1>1 DEF IInv, PaidNeverExpired, PaidHoldsNothing, Paid, R!Row, R!Line
<1>8. EndedHoldsNothing' /\ SoldMeansCaptured'
  BY <1>1, <1>2 DEF IInv, EndedHoldsNothing, SoldMeansCaptured, R!CompletedRows, R!Row,
     R!Line
<1>9. QED
  BY <1>3, <1>4, <1>5, <1>6, <1>7, <1>8 DEF RowsInv

\* Every step keeps the conjuncts about rows.
LEMMA RowsStep == IInv /\ [Next]_vars => RowsInv'
<1> SUFFICES ASSUME IInv, [Next]_vars
             PROVE  RowsInv'
  OBVIOUS
<1>1. ASSUME NEW o \in Order, IntentStep(o)
      PROVE  RowsInv'
  <2>1. ASSUME NEW S \in SUBSET Target, NEW cart \in [S -> 1..MaxQuantity], CreateIntent(o, cart)
        PROVE  RowsInv'
    BY <2>1, CreateIntentRows
  <2>2. CASE IntentFails(o)
    <3>1. RowsEnd(o, "PAYMENT_FAILED")
      BY <2>2, RowsEndBy DEF IntentFails
    <3>2. "PAYMENT_FAILED" \in R!Terminal \ {"EXPIRED"}
      BY DEF R!Terminal, R!ReleaseReason
    <3>3. /\ captured' = captured /\ razorpayOrder' = razorpayOrder /\ calling' = calling \ {o}
          /\ o \in calling /\ o \notin razorpayOrder
          /\ paymentStatus' = paymentStatus
          /\ \A p \in Order \ {o} : orderStatus'[p] = orderStatus[p]
      BY <2>2 DEF IntentFails, gatewayVars, IInv, GatewayKnown, TypeOK
    <3>4. QED
      BY <3>1, <3>2, <3>3, OrderEnds DEF Paid
  <2>3. CASE IntentSucceeds(o)
    <3>1. /\ \A r \in R!Row : \/ status'[r] = status[r]
                              \/ status[r] \in R!Live /\ status'[r] \in R!Live
          /\ UNCHANGED <<quantity, forSale>>
      BY <2>3 DEF IntentSucceeds, R!LockForCheckout, R!GrantWindow, R!Live
    <3>2. /\ captured' = captured /\ paymentStatus' = paymentStatus
          /\ \A p \in Order : p \in calling' \cup razorpayOrder' => p \in calling \cup razorpayOrder
          /\ \A p \in Order : \/ orderStatus'[p] = orderStatus[p]
                              \/ orderStatus'[p] = "payment_pending"
      BY <2>3 DEF IntentSucceeds, gatewayVars, IInv, TypeOK
    <3>3. QED
      BY <3>1, <3>2, RowsStay DEF IInv
  <2>4. CASE IntentLost(o)
    BY <2>4, RowsStay DEF IntentLost, inventoryVars, orderVars, gatewayVars, IInv
  <2>5. QED
    BY <1>1, <2>1, <2>2, <2>3, <2>4 DEF IntentStep
<1>2. ASSUME NEW o \in Order, PaymentCaptured(o) \/ AttemptFails(o)
      PROVE  RowsInv'
  BY <1>2, RowsStay DEF PaymentCaptured, AttemptFails, inventoryVars, orderVars,
     gatewayVars, IInv
<1>3. ASSUME NEW q \in Request, RequestBegins(q)
      PROVE  RowsInv'
  <2>1. UNCHANGED <<inventoryVars, orderVars, razorpayOrder, calling, gatewayVars>>
    BY <1>3 DEF RequestBegins, VerifyBegin, CapturedBegin, FailedBegin, CustomerCancels,
                AdminCancels, Begin
  <2>2. QED
    BY <2>1, RowsStay DEF inventoryVars, orderVars, gatewayVars, IInv
<1>4. ASSUME NEW q \in Request, RequestEnds(q)
      PROVE  RowsInv'
  <2> DEFINE o == request[q].order
  <2>1. UNCHANGED <<razorpayOrder, calling, captured>>
    BY <1>4 DEF RequestEnds, VerifyCommit, CapturedCommit, FailedCommit, CancelCommit,
                RequestDies, End, gatewayVars
  <2>2. CASE VerifyCommit(q) \/ CapturedCommit(q)
    <3>1. Fulfil(o) /\ o \in Order /\ o \in captured
      BY <2>2, RequestOrder DEF VerifyCommit, CapturedCommit, IInv, GatewayKnown
    <3>2. RowsEnd(o, "COMPLETED")
      BY <3>1, RowsEndBy DEF Fulfil
    <3>3. \A r \in R!RowsOf(o) : status[r] # "EXPIRED"
      BY <3>1 DEF Fulfil, R!RefundRequired
    <3>4. \A p \in Order \ {o} : orderStatus'[p] = orderStatus[p] /\ paymentStatus'[p] = paymentStatus[p]
      BY <3>1 DEF Fulfil, IInv, TypeOK
    <3>5. "COMPLETED" \in R!Terminal \ {"EXPIRED"}
      BY DEF R!Terminal
    <3> HIDE DEF o
    <3>6. QED
      BY <2>1, <3>1, <3>2, <3>3, <3>4, <3>5, OrderEnds
  <2>3. CASE FailedCommit(q)
    <3>1. o \in Order
      BY <2>3, RequestOrder DEF FailedCommit, IInv
    <3>2. CASE UNCHANGED <<inventoryVars, orderVars>>
      BY <2>1, <3>2, RowsStay DEF inventoryVars, orderVars, IInv
    <3>3. CASE /\ R!ReleaseOrder(o, "RELEASED")
               /\ orderStatus' = [orderStatus EXCEPT ![o] = "payment_failed"]
               /\ paymentStatus' = [paymentStatus EXCEPT ![o] = "failed"]
      <4>1. RowsEnd(o, "RELEASED")
        BY <3>3, RowsEndBy
      <4>2. "RELEASED" \in R!Terminal \ {"EXPIRED"}
        BY DEF R!Terminal, R!ReleaseReason
      <4>3. /\ \A p \in Order \ {o} : orderStatus'[p] = orderStatus[p] /\ paymentStatus'[p] = paymentStatus[p]
            /\ paymentStatus'[o] # "paid"
        BY <3>1, <3>3 DEF IInv, TypeOK
      <4> HIDE DEF o
      <4>4. QED
        BY <2>1, <3>1, <4>1, <4>2, <4>3, OrderEnds
    <3>4. QED
      BY <2>3, <3>2, <3>3 DEF FailedCommit
  <2>4. CASE CancelCommit(q)
    <3>1. o \in Order
      BY <2>4, RequestOrder DEF CancelCommit, IInv
    <3>2. RowsEnd(o, "CANCELLED")
      BY <2>4, RowsEndBy DEF CancelCommit
    <3>3. "CANCELLED" \in R!Terminal \ {"EXPIRED"}
      BY DEF R!Terminal, R!ReleaseReason
    <3>4. \A p \in Order \ {o} : orderStatus'[p] = orderStatus[p] /\ paymentStatus'[p] = paymentStatus[p]
      BY <2>4 DEF CancelCommit, IInv, TypeOK
    <3>5. paymentStatus' = paymentStatus
      BY <2>4 DEF CancelCommit
    <3> HIDE DEF o
    <3>6. QED
      BY <2>1, <3>1, <3>2, <3>3, <3>4, <3>5, OrderEnds DEF Paid
  <2>5. CASE RequestDies(q)
    BY <2>1, <2>5, RowsStay DEF RequestDies, inventoryVars, orderVars, IInv
  <2>6. QED
    BY <1>4, <2>2, <2>3, <2>4, <2>5 DEF RequestEnds
<1>5. ASSUME NEW w \in Worker, WorkerStep(w)
      PROVE  RowsInv'
  <2>1. CASE ListCandidates(w)
    BY <2>1, RowsStay DEF ListCandidates, R!ListCandidates, R!stockVars, R!rowVars,
                          InventoryOnly, orderVars, gatewayVars, IInv
  <2>2. ASSUME NEW skipped, ExpireOrders(w, skipped)
        PROVE  RowsInv'
    BY <2>2, ExpireOrdersRows
  <2>3. QED
    BY <1>5, <2>1, <2>2 DEF WorkerStep
<1>6. ASSUME NEW r \in R!Row, PassExpiry(r)
      PROVE  RowsInv'
  BY <1>6, RowsStay DEF PassExpiry, R!PassExpiry, InventoryOnly, orderVars, gatewayVars,
     IInv
<1>7. ASSUME NEW t \in Target, SetForSale(t)
      PROVE  RowsInv'
  <2>1. Target \ Delistable \subseteq forSale'
    BY <1>7 DEF SetForSale, R!SetForSale, IInv
  <2>2. QED
    BY <1>7, <2>1, RowsStay DEF SetForSale, R!SetForSale, R!rowVars, InventoryOnly,
       orderVars, gatewayVars
<1>8. CASE UNCHANGED vars
  BY <1>8, RowsStay DEF vars, inventoryVars, orderVars, gatewayVars, IInv
<1>9. QED
  BY <1>1, <1>2, <1>3, <1>4, <1>5, <1>6, <1>7, <1>8 DEF Next

\* IInv holds before anyone has come.
LEMMA InitIInv == Init => IInv
<1> SUFFICES ASSUME Init
             PROVE  IInv
  OBVIOUS
<1>1. TypeOK
  BY InitTypes
<1>2. /\ forSale = Target
      /\ \A r \in R!Row : status[r] = "none" /\ quantity[r] = 0
      /\ \A o \in Order : orderStatus[o] = "none" /\ paymentStatus[o] = "pending"
      /\ captured = {} /\ razorpayOrder = {} /\ calling = {}
      /\ \A q \in Request : request[q].kind = "idle"
  BY DEF Init, R!Init, Idle
<1>3. GatewayKnown /\ Placed /\ RefusedIsUnknown /\ SoldMeansCaptured
  BY <1>2 DEF GatewayKnown, Paid, Placed, RefusedIsUnknown, SoldMeansCaptured,
     R!CompletedRows
<1>4. EndsTogether /\ PaidHoldsNothing /\ EndedHoldsNothing /\ PaidNeverExpired
  BY <1>2 DEF EndsTogether, PaidHoldsNothing, EndedHoldsNothing, PaidNeverExpired,
     R!LiveRows,
              R!Live
<1>5. SoldOrReleased
  BY <1>2 DEF SoldOrReleased, R!RowsOf, R!LinesOf
<1>6. QED
  BY <1>1, <1>2, <1>3, <1>4, <1>5 DEF IInv

\* IInv holds always.
LEMMA Invariance == Spec => []IInv
<1>1. IInv /\ [Next]_vars => IInv'
  BY GatewayStep, RowsStep, InventoryTypes, OrderTypesStep DEF IInv, RowsInv, TypeOK,
     OrderTypes
<1>2. QED
  BY <1>1, InitIInv, PTL DEF Spec

-----------------------------------------------------------------------------
(***************************************************************************)
(* The properties                                                          *)
(***************************************************************************)

\* No path that ends an order forgets its reservations, whatever reads are
\* old by the time they are used.
THEOREM CheckoutEndedHoldsNothing == Spec => []EndedHoldsNothing
<1>1. IInv => EndedHoldsNothing
  BY DEF IInv
<1>2. QED
  BY <1>1, Invariance, PTL

\* The worker expires no row of a paid order.
THEOREM CheckoutPaidNeverExpired == Spec => []PaidNeverExpired
<1>1. IInv => PaidNeverExpired
  BY DEF IInv
<1>2. QED
  BY <1>1, Invariance, PTL

\* Units are sold only to orders whose payment Razorpay has captured.
THEOREM CheckoutSoldMeansCaptured == Spec => []SoldMeansCaptured
<1>1. IInv => SoldMeansCaptured
  BY DEF IInv
<1>2. QED
  BY <1>1, Invariance, PTL

\* The rows of an order that is fulfilled are sold then, unless they were
\* cancelled before.
LEMMA FulfilSells ==
    ASSUME IInv, NEW o \in Order, o \in captured, Fulfil(o),
           \A r \in PlacedRows(o) : r[2] \notin Delistable,
           NEW r \in PlacedRows(o)
    PROVE  status[r] = "CANCELLED" \/ status'[r] = "COMPLETED"
<1>1. /\ r \in R!Row /\ r[1] = o /\ quantity[r] # 0 /\ r[2] \in forSale /\ r \in R!RowsOf(o)
  BY DEF PlacedRows, R!RowsOf, R!LinesOf, R!Row, R!Line, IInv
<1>2. /\ status' = [c \in R!Row |-> IF c \in Held(o) THEN "COMPLETED" ELSE status[c]]
      /\ ~R!RefundRequired(o)
  BY RowsEndBy DEF Fulfil, RowsEnd
<1>3. status[r] # "none"
  BY <1>1 DEF IInv, Placed
<1>4. status[r] # "PAYMENT_FAILED"
  BY <1>1 DEF IInv, RefusedIsUnknown, GatewayKnown
<1>5. status[r] # "EXPIRED"
  BY <1>1, <1>2 DEF R!RefundRequired
<1>6. CASE status[r] \in R!Live
  BY <1>1, <1>2, <1>6, HeldRows
<1>7. CASE status[r] = "COMPLETED"
  BY <1>1, <1>2, <1>7
<1>8. CASE status[r] = "RELEASED"
  <2>1. \/ Held(o) # {}
        \/ \E c \in R!RowsOf(o) : status[c] = "COMPLETED"
    BY <1>1, <1>2, <1>8 DEF R!RefundRequired, Held
  <2>2. Held(o) = {}
    <3> SUFFICES ASSUME NEW h \in Held(o)
                 PROVE  FALSE
      OBVIOUS
    <3>1. h \in R!Row /\ h[1] = o /\ h \in R!LiveRows /\ status[h] # "none" /\ h \in R!RowsOf(o)
      BY HeldRows DEF R!LiveRows, R!Live, R!RowsOf, R!LinesOf
    <3>2. quantity[h] > 0
      BY <3>1 DEF IInv, TypeOK, R!TypeOK, Placed
    <3>3. h[2] \notin Delistable
      BY <3>1, <3>2 DEF PlacedRows
    <3>4. QED
      BY <1>1, <1>8, <3>1, <3>3 DEF IInv, EndsTogether, R!Terminal, R!ReleaseReason
  <2>3. QED
    BY <1>1, <1>8, <2>1, <2>2 DEF IInv, SoldOrReleased
<1>9. status[r] \in R!Status
  BY <1>1 DEF IInv, TypeOK, R!TypeOK
<1>10. QED
  BY <1>3, <1>4, <1>5, <1>6, <1>7, <1>8, <1>9 DEF R!Status, R!Terminal, R!ReleaseReason

\* Only a commit that fulfils an order confirms it.
LEMMA StatusStep ==
    ASSUME IInv, [Next]_vars, NEW o \in Order,
           orderStatus[o] # "confirmed", orderStatus'[o] = "confirmed"
    PROVE  o \in captured /\ Fulfil(o)
<1>0. OrderTypes
  BY DEF IInv, TypeOK, OrderTypes
<1> USE DEF OrderTypes
<1>1. ASSUME NEW p \in Order, IntentStep(p) PROVE FALSE
  BY <1>0, <1>1 DEF IntentStep, CreateIntent, IntentFails, IntentSucceeds, IntentLost,
     orderVars
<1>2. ASSUME NEW q \in Request, RequestEnds(q) PROVE o \in captured /\ Fulfil(o)
  <2> DEFINE p == request[q].order
  <2>1. CASE VerifyCommit(q) \/ CapturedCommit(q)
    <3>1. Fulfil(p) /\ p \in captured
      BY <2>1 DEF VerifyCommit, CapturedCommit, IInv, GatewayKnown
    <3>2. orderStatus' = [orderStatus EXCEPT ![p] = "confirmed"]
      BY <3>1 DEF Fulfil
    <3> HIDE DEF p
    <3>3. QED
      BY <1>0, <3>1, <3>2
  <2>2. CASE FailedCommit(q)
    BY <1>0, <2>2 DEF FailedCommit, orderVars
  <2>3. CASE CancelCommit(q) \/ RequestDies(q)
    BY <1>0, <2>3 DEF CancelCommit, RequestDies, orderVars
  <2>4. QED
    BY <1>2, <2>1, <2>2, <2>3 DEF RequestEnds
<1>3. ASSUME NEW w \in Worker, WorkerStep(w) PROVE FALSE
  BY <1>3 DEF WorkerStep, ListCandidates, ExpireOrders, InventoryOnly, orderVars
<1>4. ASSUME \/ \E p \in Order : PaymentCaptured(p) \/ AttemptFails(p)
             \/ \E q \in Request : RequestBegins(q)
             \/ \E r \in R!Row : PassExpiry(r)
             \/ \E t \in Target : SetForSale(t)
             \/ UNCHANGED vars
      PROVE  FALSE
  BY <1>4 DEF PaymentCaptured, AttemptFails, RequestBegins, VerifyBegin, CapturedBegin,
              FailedBegin, CustomerCancels, AdminCancels, Begin, PassExpiry, SetForSale,
              InventoryOnly, vars, orderVars
<1>5. QED
  BY <1>1, <1>2, <1>3, <1>4 DEF Next

\* No order becomes confirmed with units that expired or were released: what it
\* was placed with is sold in the step that confirms it.
THEOREM CheckoutConfirmedWithItsStock == Spec => ConfirmedWithItsStock
<1>1. IInv /\ [Next]_vars =>
        [\A o \in Order :
          /\ orderStatus[o] # "confirmed" /\ orderStatus'[o] = "confirmed"
          /\ \A r \in PlacedRows(o) : r[2] \notin Delistable
          => \A r \in PlacedRows(o) : status[r] = "CANCELLED" \/ status'[r] = "COMPLETED"]_vars
  BY StatusStep, FulfilSells
<1>2. QED
  BY <1>1, Invariance, PTL DEF Spec, ConfirmedWithItsStock
-----------------------------------------------------------------------------
(***************************************************************************)
(* The checkout with a coupon.  It uses the coupon as Coupons.tla has it,  *)
(* so the limits of the coupon hold in it; and it is a checkout, so all    *)
(* that is shown above does, too.  From both together: a usage with an     *)
(* order id never outlives the order that was confirmed with it.           *)
(***************************************************************************)

\* Without its coupon, every step is a step of the checkout or leaves it alone.
LEMMA StepOfCheckout == [NextWithCoupon]_varsWithCoupon => [Next]_vars
<1> SUFFICES ASSUME [NextWithCoupon]_varsWithCoupon
             PROVE  [Next]_vars
  OBVIOUS
<1>1. ASSUME NEW o \in Order, NEW S \in (SUBSET Target) \ {{}},
             NEW cart \in [S -> 1..MaxQuantity], CreateIntentWithCoupon(o, cart)
      PROVE  Next
  BY <1>1 DEF CreateIntentWithCoupon, Next, IntentStep
<1>2. ASSUME NEW q \in Request,
             \/ VerifyCommitWithCoupon(q) \/ CapturedCommitWithCoupon(q)
             \/ FailedCommitWithCoupon(q) \/ CancelCommitWithCoupon(q)
      PROVE  Next
  BY <1>2 DEF VerifyCommitWithCoupon, CapturedCommitWithCoupon, FailedCommitWithCoupon,
     CancelCommitWithCoupon, Next, RequestEnds
<1>3. ASSUME NEW w \in Worker, WorkerStepWithCoupon(w)
      PROVE  [Next]_vars
  <2>1. CASE \/ ListCandidatesWithCoupon(w)
             \/ \E skipped \in SUBSET candidates[w] : ExpireOrdersWithCoupon(w, skipped)
    BY <2>1 DEF ListCandidatesWithCoupon, ExpireOrdersWithCoupon, Next, WorkerStep
  <2>2. CASE RevertExpired(w) \/ RevertLost(w)
    BY <2>2 DEF RevertExpired, RevertLost, vars, inventoryVars, orderVars,
                gatewayVars
  <2>3. QED
    BY <1>3, <2>1, <2>2 DEF WorkerStepWithCoupon
<1>4. CASE CheckoutOnly
  BY <1>4 DEF CheckoutOnly, Next, IntentStep, RequestEnds
<1>5. CASE UNCHANGED varsWithCoupon
  BY <1>5 DEF varsWithCoupon, vars, inventoryVars, orderVars, gatewayVars
<1>6. QED
  BY <1>1, <1>2, <1>3, <1>4, <1>5 DEF NextWithCoupon

\* A coupon adds nothing to what can become of orders, payments and stock.
THEOREM CouponsKeepCheckout == SpecWithCoupon => Spec
<1>1. InitWithCoupon => Init
  BY DEF InitWithCoupon
<1>2. QED
  BY <1>1, StepOfCheckout, PTL DEF SpecWithCoupon, Spec

\* The inductive invariant of the checkout.
LEMMA CheckoutInvariance == SpecWithCoupon => []IInv
BY Invariance, CouponsKeepCheckout, PTL

\* What is proved of orders, payments and reservations holds in the checkout
\* with coupons.
THEOREM CouponCheckoutSafe ==
    SpecWithCoupon =>
        /\ KeepsReservation
        /\ [](EndedHoldsNothing /\ PaidNeverExpired /\ SoldMeansCaptured)
        /\ ConfirmedWithItsStock
BY CouponsKeepCheckout, CheckoutKeepsReservation, CheckoutEndedHoldsNothing,
   CheckoutPaidNeverExpired, CheckoutSoldMeansCaptured, CheckoutConfirmedWithItsStock, PTL

-----------------------------------------------------------------------------
\* The orders with a coupon, and those a worker has still to revert.
CouponOrders ==
    /\ couponOrder \subseteq Order
    /\ revertDue \in [Worker -> SUBSET Order]

\* Only a checkout adds an order, and only a worker its own list.
LEMMA CouponOrdersStep == CouponOrders /\ [NextWithCoupon]_varsWithCoupon => CouponOrders'
<1> SUFFICES ASSUME CouponOrders, [NextWithCoupon]_varsWithCoupon
             PROVE  CouponOrders'
  OBVIOUS
<1>1. ASSUME NEW o \in Order, NEW cart, CreateIntentWithCoupon(o, cart)
      PROVE  CouponOrders'
  BY <1>1 DEF CreateIntentWithCoupon, CouponOrders
<1>2. ASSUME NEW w \in Worker, WorkerStepWithCoupon(w)
      PROVE  CouponOrders'
  <2>1. couponOrder' = couponOrder
    BY <1>2 DEF WorkerStepWithCoupon, ListCandidatesWithCoupon, ExpireOrdersWithCoupon,
                RevertExpired, RevertLost
  <2>2. ASSUME NEW skipped, ExpireOrdersWithCoupon(w, skipped)
        PROVE  CouponOrders'
    BY <2>1, <2>2 DEF ExpireOrdersWithCoupon, CouponOrders
  <2>3. CASE RevertExpired(w) \/ RevertLost(w)
    BY <2>1, <2>3 DEF RevertExpired, RevertLost, CouponOrders
  <2>4. CASE ListCandidatesWithCoupon(w)
    BY <2>4 DEF ListCandidatesWithCoupon, CouponOrders
  <2>5. QED
    BY <1>2, <2>2, <2>3, <2>4 DEF WorkerStepWithCoupon
<1>3. CASE UNCHANGED <<couponOrder, revertDue>>
  BY <1>3 DEF CouponOrders
<1>4. QED
  BY <1>1, <1>2, <1>3 DEF NextWithCoupon, VerifyCommitWithCoupon, CapturedCommitWithCoupon,
     FailedCommitWithCoupon, CancelCommitWithCoupon, CheckoutOnly, varsWithCoupon

\* CouponOrders holds always.
LEMMA CouponOrdersAlways == SpecWithCoupon => []CouponOrders
<1>1. InitWithCoupon => CouponOrders
  BY DEF InitWithCoupon, CouponOrders
<1>2. QED
  BY <1>1, CouponOrdersStep, PTL DEF SpecWithCoupon

\* What the invariant of the checkout says of the statuses of orders.
LEMMA OrderFacts ==
    ASSUME IInv
    PROVE  /\ orderStatus \in [Order -> OrderStatus]
           /\ \A o \in Order : orderStatus[o] = "confirmed" => o \notin calling
           /\ calling \subseteq Order
           /\ \A q \in Request : request[q].kind \in {"verify", "captured", "failed", "cancel"}
                                   => request[q].order \in Order
<1>1. /\ orderStatus \in [Order -> OrderStatus]
      /\ calling \subseteq Order
  BY DEF IInv, TypeOK, OrderStatus, OrderStatus
<1>2. \A o \in Order : orderStatus[o] = "confirmed" => o \notin calling
  BY DEF IInv, GatewayKnown
<1>3. \A q \in Request : request[q].kind \in {"verify", "captured", "failed", "cancel"}
                           => request[q].order \in Order
  BY DEF IInv, TypeOK, OrderRequest, Idle
<1>4. QED
  BY <1>1, <1>2, <1>3

-----------------------------------------------------------------------------
\* Finalizing and reverting the usage of an order are steps of the coupon, or
\* leave it alone.
LEMMA CouponStep ==
    ASSUME NEW o \in Order
    PROVE  /\ FinalizeFor(o) => [C!Next]_couponVars
           /\ \A S \in SUBSET Order : RevertFor(S) => [C!Next]_couponVars
<1>1. FinalizeFor(o) => [C!Next]_couponVars
  BY DEF FinalizeFor, C!Next
<1>2. ASSUME NEW S \in SUBSET Order, RevertFor(S)
      PROVE  [C!Next]_couponVars
  <2>1. S \cap couponOrder \in SUBSET Order
    OBVIOUS
  <2>2. QED
    BY <1>2, <2>1 DEF RevertFor, C!Next
<1>3. QED
  BY <1>1, <1>2

\* Every step of the checkout is a step of the coupon or leaves it alone.
LEMMA StepKeepsCoupons ==
    ASSUME IInv, CouponOrders, [NextWithCoupon]_varsWithCoupon
    PROVE  [C!Next]_couponVars
<1>1. ASSUME NEW o \in Order, NEW cart, CreateIntentWithCoupon(o, cart)
      PROVE  [C!Next]_couponVars
  <2>1. C!ApplyAndReserve(o) \/ UNCHANGED couponVars
    BY <1>1 DEF CreateIntentWithCoupon
  <2>2. QED
    BY <2>1 DEF C!Next
<1>2. ASSUME NEW q \in Request,
             \/ VerifyCommitWithCoupon(q) \/ CapturedCommitWithCoupon(q)
             \/ FailedCommitWithCoupon(q) \/ CancelCommitWithCoupon(q)
      PROVE  [C!Next]_couponVars
  <2>4. request[q].order \in Order
    BY <1>2, OrderFacts DEF VerifyCommitWithCoupon, CapturedCommitWithCoupon,
       FailedCommitWithCoupon, CancelCommitWithCoupon, VerifyCommit, CapturedCommit,
       FailedCommit, CancelCommit
  <2>5. \/ FinalizeFor(request[q].order)
        \/ RevertFor({request[q].order})
        \/ UNCHANGED couponVars
    BY <1>2 DEF VerifyCommitWithCoupon, CapturedCommitWithCoupon, FailedCommitWithCoupon,
       CancelCommitWithCoupon
  <2>6. {request[q].order} \in SUBSET Order
    BY <2>4
  <2>7. QED
    BY <2>4, <2>5, <2>6, CouponStep
<1>3. ASSUME NEW w \in Worker, WorkerStepWithCoupon(w)
      PROVE  [C!Next]_couponVars
  <2>1. RevertFor(revertDue[w]) \/ UNCHANGED couponVars
    BY <1>3 DEF WorkerStepWithCoupon, ListCandidatesWithCoupon, ExpireOrdersWithCoupon,
       RevertExpired, RevertLost
  <2>2. revertDue[w] \cap couponOrder \in SUBSET Order
    BY DEF CouponOrders
  <2>3. QED
    BY <2>1, <2>2 DEF RevertFor, C!Next
<1>4. CASE CheckoutOnly
  BY <1>4 DEF CheckoutOnly
<1>5. CASE UNCHANGED varsWithCoupon
  BY <1>5 DEF varsWithCoupon
<1>6. QED
  BY <1>1, <1>2, <1>3, <1>4, <1>5 DEF NextWithCoupon

\* Whatever happens to orders, payments and requests, the usage of the coupon
\* changes only as CouponService changes it.
THEOREM CheckoutKeepsCoupons == SpecWithCoupon => KeepsCoupons
<1>1. InitWithCoupon => C!Init
  BY DEF InitWithCoupon
<1>2. IInv /\ CouponOrders /\ [NextWithCoupon]_varsWithCoupon => [C!Next]_(C!couponVars)
  BY StepKeepsCoupons DEF C!couponVars, couponVars
<1>3. QED
  BY <1>1, <1>2, CheckoutInvariance, CouponOrdersAlways, PTL
     DEF SpecWithCoupon, KeepsCoupons, C!Spec

-----------------------------------------------------------------------------
(***************************************************************************)
(* The coupon                                                              *)
(***************************************************************************)

\* The size of a set is the same in the instance of Coupons.
LEMMA SameSizes ==
    /\ \A X : C!IsFiniteSet(X) <=> IsFiniteSet(X)
    /\ \A X : C!Cardinality(X) = Cardinality(X)
  BY Zenon DEF C!Cardinality, Cardinality, C!IsFiniteSet, IsFiniteSet

\* What is assumed of the coupon.
LEMMA CouponConstants ==
    /\ IsFiniteSet(Order)
    /\ Owner \in [Order -> User]
    /\ UsageLimit \in Nat \ {0}
    /\ CustomerLimit \in Nat \ {0}
  BY CheckoutCouponAssumption, SameSizes DEF C!CouponAssumption

\* The inductive invariant.  Neither of the limits is inductive alone: a revert
\* takes one off the counter for each customer, so it must know that the
\* counter covers the rows that go, and a reservation respects the cap because
\* the counter covers the rows.
CouponInv ==
    /\ C!TypeOK
    /\ C!CountMatches
    /\ C!WithinLimits
    /\ usageCount <= UsageLimit

\* All sets of orders are finite, and have a size.
LEMMA OrdersFinite ==
    ASSUME NEW X \in SUBSET Order
    PROVE  IsFiniteSet(X) /\ Cardinality(X) \in Nat
<1>1. IsFiniteSet(X)
  BY CouponConstants, FS_Subset
<1>2. QED
  BY <1>1, FS_CardinalityType

\* The size of what is left when Y is taken away.
LEMMA SizeWithout ==
    ASSUME NEW X \in SUBSET Order, NEW Y
    PROVE  /\ Cardinality(X \cap Y) \in Nat
           /\ Cardinality(X \cap Y) <= Cardinality(X)
           /\ Cardinality(X \ Y) = Cardinality(X) - Cardinality(X \cap Y)
<1>1. IsFiniteSet(X)
  BY OrdersFinite
<1>2. X \cap Y \in SUBSET Order
  OBVIOUS
<1>3. Cardinality(X \cap Y) \in Nat
  BY <1>2, OrdersFinite
<1>4. Cardinality(X \cap Y) <= Cardinality(X)
  BY <1>1, FS_Intersection
<1>5. Cardinality(X \ Y) = Cardinality(X) - Cardinality(X \cap Y)
  BY <1>1, FS_Difference
<1>6. QED
  BY <1>3, <1>4, <1>5

\* Customers are no more than the rows they have, and as many when none has two.
LEMMA CustomersOfRows ==
    ASSUME NEW P \in SUBSET Order, NEW F,
           \A o \in P : Owner[o] \in F,
           \A u \in F : \E o \in P : Owner[o] = u
    PROVE  /\ Cardinality(F) \in Nat
           /\ Cardinality(F) <= Cardinality(P)
           /\ (\A o, p \in P : Owner[o] = Owner[p] => o = p)
                 => Cardinality(F) = Cardinality(P)
<1> DEFINE f == [o \in P |-> Owner[o]]
<1>1. f \in Surjection(P, F)
  BY DEF Surjection
<1>2. IsFiniteSet(P)
  BY OrdersFinite
<1>3. (\A o, p \in P : Owner[o] = Owner[p] => o = p) => f \in Injection(P, F)
  BY DEF Injection, IsInjective
<1> HIDE DEF f
<1>4. /\ IsFiniteSet(F)
      /\ Cardinality(F) <= Cardinality(P)
      /\ Cardinality(F) = Cardinality(P) <=> f \in Injection(P, F)
  BY <1>1, <1>2, FS_Surjection
<1>5. Cardinality(F) \in Nat
  BY <1>4, FS_CardinalityType
<1>6. QED
  BY <1>3, <1>4, <1>5

\* Fewer rows are fewer usages of every customer.
LEMMA FewerRows ==
    ASSUME C!TypeOK, NEW u,
           pending' \subseteq pending, linked' \subseteq linked
    PROVE  C!UserUsages(u)' <= C!UserUsages(u)
<1>1. /\ C!PendingOf(u) \in SUBSET Order /\ C!PendingOf(u)' \in SUBSET C!PendingOf(u)
      /\ C!LinkedOf(u) \in SUBSET Order /\ C!LinkedOf(u)' \in SUBSET C!LinkedOf(u)
  BY DEF C!PendingOf, C!LinkedOf, C!TypeOK
<1>2. /\ IsFiniteSet(C!PendingOf(u)) /\ IsFiniteSet(C!LinkedOf(u))
      /\ Cardinality(C!PendingOf(u)) \in Nat /\ Cardinality(C!LinkedOf(u)) \in Nat
      /\ Cardinality(C!PendingOf(u)') \in Nat /\ Cardinality(C!LinkedOf(u)') \in Nat
  BY <1>1, OrdersFinite
<1>3. Cardinality(C!PendingOf(u)') <= Cardinality(C!PendingOf(u))
  BY <1>1, <1>2, FS_Subset
<1>4. Cardinality(C!LinkedOf(u)') <= Cardinality(C!LinkedOf(u))
  BY <1>1, <1>2, FS_Subset
<1>5. /\ C!UserUsages(u) = Cardinality(C!PendingOf(u)) + Cardinality(C!LinkedOf(u))
      /\ C!UserUsages(u)' = Cardinality(C!PendingOf(u)') + Cardinality(C!LinkedOf(u)')
  BY SameSizes DEF C!UserUsages
<1>6. \A a, b, c, d \in Nat : a <= c /\ b <= d => a + b <= c + d
  OBVIOUS
<1>7. QED
  BY <1>2, <1>3, <1>4, <1>5, <1>6, Zenon

\* A revert takes one off the counter for each customer whose pending rows go:
\* never more than there are rows, and exactly as many when none has two.
LEMMA RevertKeepsCount ==
    ASSUME CouponInv, NEW S \in SUBSET Order, C!RevertUsages(S)
    PROVE  C!CountMatches' /\ usageCount' \in Nat /\ usageCount' <= usageCount
<1> DEFINE F == C!FallBack(S)
           P == {o \in pending : Owner[o] \in F}
           p == Cardinality(pending)
           l == Cardinality(linked)
           k == Cardinality(linked \cap S)
           m == Cardinality(P)
           n == Cardinality(F)
<1>1. /\ P \in SUBSET Order /\ pending \in SUBSET Order /\ linked \in SUBSET Order
      /\ \A o \in P : Owner[o] \in F
      /\ \A u \in F : \E o \in P : Owner[o] = u
  BY DEF C!FallBack, C!PendingOf, CouponInv, C!TypeOK
<1>2. CustomerLimit = 1 => \A o, q \in P : Owner[o] = Owner[q] => o = q
  <2> SUFFICES ASSUME CustomerLimit = 1, NEW o \in P, NEW q \in P, Owner[o] = Owner[q]
               PROVE  o = q
    OBVIOUS
  <2> DEFINE u == Owner[o]
  <2>1. u \in User /\ o \in C!PendingOf(u) /\ q \in C!PendingOf(u)
    BY CouponConstants, <1>1 DEF C!PendingOf
  <2>2. C!PendingOf(u) \in SUBSET Order /\ C!LinkedOf(u) \in SUBSET Order
    BY <1>1 DEF C!PendingOf, C!LinkedOf
  <2> HIDE DEF u
  <2>3. /\ IsFiniteSet(C!PendingOf(u)) /\ Cardinality(C!PendingOf(u)) \in Nat
        /\ Cardinality(C!LinkedOf(u)) \in Nat
    BY <2>2, OrdersFinite
  <2>4. Cardinality(C!PendingOf(u)) + Cardinality(C!LinkedOf(u)) <= 1
    BY SameSizes, <2>1 DEF CouponInv, C!WithinLimits, C!UserUsages
  <2>5. Cardinality(C!PendingOf(u)) = 0 \/ Cardinality(C!PendingOf(u)) = 1
    BY <2>3, <2>4
  <2>6. C!PendingOf(u) = {} \/ \E x : C!PendingOf(u) = {x}
    BY <2>3, <2>5, FS_EmptySet, FS_Singleton
  <2>7. QED
    BY <2>1, <2>6
<1>3. n \in Nat /\ n <= m /\ (CustomerLimit = 1 => n = m)
  BY <1>1, <1>2, CustomersOfRows
<1>4. pending \cap P = P
  OBVIOUS
<1>5. m \in Nat /\ m <= p /\ Cardinality(pending \ P) = p - m
  <2> HIDE DEF P
  <2>1. /\ Cardinality(pending \cap P) \in Nat
        /\ Cardinality(pending \cap P) <= Cardinality(pending)
        /\ Cardinality(pending \ P) = Cardinality(pending) - Cardinality(pending \cap P)
    BY <1>1, SizeWithout
  <2>2. QED
    BY <1>4, <2>1
<1>6. k \in Nat /\ k <= l /\ Cardinality(linked \ S) = l - k
  BY <1>1, SizeWithout
<1>7. p \in Nat /\ l \in Nat
  BY <1>1, OrdersFinite
<1>8. /\ C!Usages = p + l
      /\ usageCount \in Nat /\ usageCount >= p + l
      /\ CustomerLimit = 1 => usageCount = p + l
  BY SameSizes DEF C!Usages, CouponInv, C!TypeOK, C!CountMatches
<1>9. linked' = linked \ S /\ pending' = pending \ P
  BY SameSizes DEF C!RevertUsages
<1>10. C!Usages' = (p - m) + (l - k)
  BY SameSizes, <1>5, <1>6, <1>9 DEF C!Usages
<1>11. usageCount' = IF k + n < usageCount THEN usageCount - (k + n) ELSE 0
  <2>1. S \cap linked = linked \cap S
    OBVIOUS
  <2>2. QED
    BY SameSizes, <2>1 DEF C!RevertUsages
<1> HIDE DEF F, P, p, l, k, m, n
<1>12. /\ usageCount' \in Nat /\ usageCount' <= usageCount
       /\ usageCount' >= (p - m) + (l - k)
       /\ CustomerLimit = 1 => usageCount' = (p - m) + (l - k)
  BY <1>3, <1>5, <1>6, <1>7, <1>8, <1>11
<1>13. QED
  BY <1>10, <1>12 DEF C!CountMatches

-----------------------------------------------------------------------------
\* A coupon nobody has used.
LEMMA CouponInit ==
    ASSUME C!Init
    PROVE  CouponInv
<1>1. Cardinality({}) = 0
  BY FS_EmptySet
<1>2. C!Usages = 0
  BY SameSizes, <1>1 DEF C!Init, C!Usages
<1>3. ASSUME NEW u \in User
      PROVE  C!UserUsages(u) = 0
  <2>1. C!PendingOf(u) = {} /\ C!LinkedOf(u) = {}
    BY DEF C!Init, C!PendingOf, C!LinkedOf
  <2>2. QED
    BY SameSizes, <1>1, <2>1 DEF C!UserUsages
<1>4. QED
  BY CouponConstants, <1>2, <1>3 DEF CouponInv, C!TypeOK, C!CountMatches, C!WithinLimits,
     C!Init

\* A reservation is one more row and one more on the counter.
LEMMA ApplyInv ==
    ASSUME CouponInv, NEW o \in Order, C!ApplyAndReserve(o)
    PROVE  CouponInv'
<1>1. /\ pending' = pending \cup {o} /\ linked' = linked /\ usageCount' = usageCount + 1
      /\ usageCount < UsageLimit /\ o \notin pending
      /\ pending \in SUBSET Order /\ linked \in SUBSET Order
      /\ usageCount \in Nat /\ UsageLimit \in Nat /\ CustomerLimit \in Nat
  BY CouponConstants, SameSizes DEF C!ApplyAndReserve, CouponInv, C!TypeOK
<1>2. C!Usages' = C!Usages + 1 /\ C!Usages \in Nat
  <2>1. /\ IsFiniteSet(pending) /\ Cardinality(pending) \in Nat
        /\ Cardinality(linked) \in Nat
    BY <1>1, OrdersFinite
  <2>2. Cardinality(pending \cup {o}) = Cardinality(pending) + 1
    BY <1>1, <2>1, FS_AddElement
  <2>3. QED
    BY SameSizes, <1>1, <2>1, <2>2 DEF C!Usages
<1>3. ASSUME NEW u \in User
      PROVE  C!UserUsages(u)' <= CustomerLimit
  <2>1. CASE Owner[o] # u
    <3>1. C!PendingOf(u)' = C!PendingOf(u) /\ C!LinkedOf(u)' = C!LinkedOf(u)
      BY <1>1, <2>1 DEF C!PendingOf, C!LinkedOf
    <3>2. QED
      BY SameSizes, <3>1 DEF C!UserUsages, CouponInv, C!WithinLimits
  <2>2. CASE Owner[o] = u
    <3>1. /\ C!PendingOf(u)' = C!PendingOf(u) \cup {o} /\ C!LinkedOf(u)' = C!LinkedOf(u)
          /\ o \notin C!PendingOf(u)
          /\ C!PendingOf(u) \in SUBSET Order /\ C!LinkedOf(u) \in SUBSET Order
      BY <1>1, <2>2 DEF C!PendingOf, C!LinkedOf
    <3>2. /\ IsFiniteSet(C!PendingOf(u)) /\ Cardinality(C!PendingOf(u)) \in Nat
          /\ Cardinality(C!LinkedOf(u)) \in Nat
      BY <3>1, OrdersFinite
    <3>3. Cardinality(C!PendingOf(u) \cup {o}) = Cardinality(C!PendingOf(u)) + 1
      BY <3>1, <3>2, FS_AddElement
    <3>4. Cardinality(C!PendingOf(u)) + Cardinality(C!LinkedOf(u)) < CustomerLimit
      BY SameSizes, <2>2 DEF C!ApplyAndReserve, C!UserUsages
    <3>5. C!UserUsages(u)' = Cardinality(C!PendingOf(u)) + 1 + Cardinality(C!LinkedOf(u))
      BY SameSizes, <3>1, <3>3 DEF C!UserUsages
    <3>6. \A a, b, c \in Nat : a + b < c => a + 1 + b <= c
      OBVIOUS
    <3>7. QED
      BY <1>1, <3>2, <3>4, <3>5, <3>6, Zenon
  <2>3. QED
    BY <2>1, <2>2
<1>4. C!Usages <= usageCount /\ (CustomerLimit = 1 => usageCount = C!Usages)
  BY <1>1, <1>2 DEF CouponInv, C!CountMatches
<1>5. C!TypeOK' /\ C!CountMatches' /\ usageCount' <= UsageLimit /\ C!Usages' <= UsageLimit
  BY <1>1, <1>2, <1>4 DEF C!TypeOK, C!CountMatches
<1>6. UsageLimit' = UsageLimit /\ CustomerLimit' = CustomerLimit
  OBVIOUS
<1>7. QED
  BY <1>3, <1>5 DEF CouponInv, C!WithinLimits

\* What is finalized changes from a pending row to a linked one of the same
\* customer, or nothing changes.
LEMMA FinalizeInv ==
    ASSUME CouponInv, NEW o \in Order, C!FinalizeUsage(o)
    PROVE  CouponInv'
<1> DEFINE rows == C!PendingOf(Owner[o])
<1>1. /\ rows \in SUBSET Order /\ pending \in SUBSET Order /\ linked \in SUBSET Order
      /\ rows \subseteq pending
  BY DEF C!PendingOf, CouponInv, C!TypeOK
<1>2. CASE rows = {}
  <2>1. UNCHANGED C!couponVars
    BY SameSizes, <1>2 DEF C!FinalizeUsage, C!couponVars
  <2>2. QED
    BY SameSizes, <2>1 DEF C!couponVars, CouponInv, C!TypeOK, C!CountMatches,
       C!WithinLimits, C!Usages,
                C!UserUsages, C!PendingOf, C!LinkedOf
<1>3. CASE rows # {}
  <2>1. /\ Cardinality(rows) + Cardinality(linked \cap {o}) <= 1
        /\ pending' = pending \ rows /\ linked' = linked \cup {o}
        /\ usageCount' = usageCount
    BY SameSizes, <1>3 DEF C!FinalizeUsage
  <2>2. /\ IsFiniteSet(rows) /\ Cardinality(rows) \in Nat
        /\ IsFiniteSet(linked \cap {o}) /\ Cardinality(linked \cap {o}) \in Nat
    <3>1. linked \cap {o} \in SUBSET Order
      BY <1>1
    <3> HIDE DEF rows
    <3>2. QED
      BY <1>1, <3>1, OrdersFinite
  <2>3. Cardinality(rows) # 0
    <3> HIDE DEF rows
    <3>1. QED
      BY <1>3, <2>2, FS_EmptySet
  <2>4. Cardinality(rows) = 1 /\ Cardinality(linked \cap {o}) = 0
    <3> HIDE DEF rows
    <3>1. QED
      BY <2>1, <2>2, <2>3
  <2>5. \E x : rows = {x}
    <3> HIDE DEF rows
    <3>1. QED
      BY <2>2, <2>4, FS_Singleton
  <2>6. o \notin linked
    <3>1. linked \cap {o} = {}
      BY <2>2, <2>4, FS_EmptySet
    <3>2. QED
      BY <3>1
  <2>7. PICK x : rows = {x}
    BY <2>5
  <2>8. x \in pending /\ x \in Order /\ Owner[x] = Owner[o] /\ pending' = pending \ {x}
    BY <1>1, <2>1, <2>7 DEF C!PendingOf
  <2>9. C!Usages' = C!Usages
    <3>1. /\ IsFiniteSet(pending) /\ Cardinality(pending) \in Nat
          /\ IsFiniteSet(linked) /\ Cardinality(linked) \in Nat
      BY <1>1, OrdersFinite
    <3>2. /\ Cardinality(pending \ {x}) = Cardinality(pending) - 1
          /\ Cardinality(linked \cup {o}) = Cardinality(linked) + 1
      BY <2>6, <2>8, <3>1, FS_AddElement, FS_RemoveElement
    <3>3. C!Usages' = Cardinality(pending) - 1 + (Cardinality(linked) + 1)
      BY SameSizes, <2>1, <2>8, <3>2, Zenon DEF C!Usages
    <3>4. \A a, b \in Nat : a - 1 + (b + 1) = a + b
      OBVIOUS
    <3>5. QED
      BY SameSizes, <3>1, <3>3, <3>4, Zenon DEF C!Usages
  <2>10. ASSUME NEW u \in User
         PROVE  C!UserUsages(u)' = C!UserUsages(u)
    <3>1. CASE Owner[o] # u
      <4>1. C!PendingOf(u)' = C!PendingOf(u) /\ C!LinkedOf(u)' = C!LinkedOf(u)
        BY <2>1, <2>8, <3>1 DEF C!PendingOf, C!LinkedOf
      <4>2. QED
        BY SameSizes, <4>1 DEF C!UserUsages
    <3>2. CASE Owner[o] = u
      <4>1. /\ C!PendingOf(u)' = C!PendingOf(u) \ {x} /\ x \in C!PendingOf(u)
            /\ C!LinkedOf(u)' = C!LinkedOf(u) \cup {o} /\ o \notin C!LinkedOf(u)
            /\ C!PendingOf(u) \in SUBSET Order /\ C!LinkedOf(u) \in SUBSET Order
        BY <1>1, <2>1, <2>6, <2>8, <3>2 DEF C!PendingOf, C!LinkedOf
      <4>2. /\ IsFiniteSet(C!PendingOf(u)) /\ Cardinality(C!PendingOf(u)) \in Nat
            /\ IsFiniteSet(C!LinkedOf(u)) /\ Cardinality(C!LinkedOf(u)) \in Nat
        BY <4>1, OrdersFinite
      <4>3. /\ Cardinality(C!PendingOf(u) \ {x}) = Cardinality(C!PendingOf(u)) - 1
            /\ Cardinality(C!LinkedOf(u) \cup {o}) = Cardinality(C!LinkedOf(u)) + 1
        BY <4>1, <4>2, FS_AddElement, FS_RemoveElement
      <4>4. QED
        BY SameSizes, <4>1, <4>2, <4>3 DEF C!UserUsages
    <3>3. QED
      BY <3>1, <3>2
  <2>11. C!TypeOK'
    BY <1>1, <2>1, <2>8 DEF C!TypeOK, CouponInv
  <2>12. QED
    BY <2>1, <2>9, <2>10, <2>11 DEF CouponInv, C!CountMatches, C!WithinLimits
<1>4. QED
  BY <1>2, <1>3

\* A revert leaves fewer rows, and a counter that covers them.
LEMMA RevertInv ==
    ASSUME CouponInv, NEW S \in SUBSET Order, C!RevertUsages(S)
    PROVE  CouponInv'
<1>1. C!CountMatches' /\ usageCount' \in Nat /\ usageCount' <= usageCount
  BY RevertKeepsCount
<1>2. /\ pending' \subseteq pending /\ linked' \subseteq linked
      /\ pending \in SUBSET Order /\ linked \in SUBSET Order
  BY SameSizes DEF C!RevertUsages, CouponInv, C!TypeOK
<1>3. C!TypeOK'
  BY <1>1, <1>2 DEF C!TypeOK
<1>4. usageCount' <= UsageLimit
  BY CouponConstants, <1>1 DEF CouponInv, C!TypeOK
<1>5. C!Usages' <= usageCount' /\ C!Usages' \in Nat
  <2>1. Cardinality(pending') \in Nat /\ Cardinality(linked') \in Nat
    BY <1>2, OrdersFinite
  <2>2. C!Usages' \in Nat
    BY SameSizes, <2>1 DEF C!Usages
  <2>3. QED
    BY <1>1, <2>2 DEF C!CountMatches
<1>6. C!Usages' <= UsageLimit
  BY CouponConstants, <1>1, <1>4, <1>5
<1>7. ASSUME NEW u \in User
      PROVE  C!UserUsages(u)' <= CustomerLimit
  <2>1. C!UserUsages(u)' <= C!UserUsages(u)
    BY <1>2, FewerRows DEF CouponInv
  <2>2. /\ C!PendingOf(u) \in SUBSET Order /\ C!LinkedOf(u) \in SUBSET Order
        /\ C!PendingOf(u)' \in SUBSET Order /\ C!LinkedOf(u)' \in SUBSET Order
    BY <1>2 DEF C!PendingOf, C!LinkedOf
  <2>3. C!UserUsages(u) \in Nat /\ C!UserUsages(u)' \in Nat
    <3>1. /\ Cardinality(C!PendingOf(u)) \in Nat /\ Cardinality(C!LinkedOf(u)) \in Nat
          /\ Cardinality(C!PendingOf(u)') \in Nat /\ Cardinality(C!LinkedOf(u)') \in Nat
      BY <2>2, OrdersFinite
    <3>2. QED
      BY SameSizes, <3>1 DEF C!UserUsages
  <2>4. C!UserUsages(u) <= CustomerLimit /\ CustomerLimit \in Nat
    BY CouponConstants DEF CouponInv, C!WithinLimits
  <2>5. \A a, b, c \in Nat : a <= b /\ b <= c => a <= c
    OBVIOUS
  <2>6. QED
    BY <2>1, <2>3, <2>4, <2>5, Zenon
<1>8. QED
  BY <1>1, <1>3, <1>4, <1>6, <1>7 DEF CouponInv, C!WithinLimits

\* Every operation keeps CouponInv.
LEMMA CouponNext ==
    ASSUME CouponInv, [C!Next]_(C!couponVars)
    PROVE  CouponInv'
<1>1. ASSUME NEW o \in Order, C!ApplyAndReserve(o)
      PROVE  CouponInv'
  BY <1>1, ApplyInv
<1>2. ASSUME NEW o \in Order, C!FinalizeUsage(o)
      PROVE  CouponInv'
  BY <1>2, FinalizeInv
<1>3. ASSUME NEW S \in SUBSET Order, C!RevertUsages(S)
      PROVE  CouponInv'
  BY <1>3, RevertInv
<1>4. CASE UNCHANGED C!couponVars
  BY SameSizes, <1>4 DEF C!couponVars, CouponInv, C!TypeOK, C!CountMatches,
     C!WithinLimits, C!Usages,
              C!UserUsages, C!PendingOf, C!LinkedOf
<1>5. QED
  BY <1>1, <1>2, <1>3, <1>4 DEF C!Next

\* CouponInv holds always.
LEMMA CouponInductive == C!Spec => []CouponInv
<1>1. C!Init => CouponInv
  BY CouponInit
<1>2. CouponInv /\ [C!Next]_(C!couponVars) => CouponInv'
  BY CouponNext
<1>3. QED
  BY <1>1, <1>2, PTL DEF C!Spec

\* usage_count is never less than the rows of coupon_usages, whatever is
\* reverted how often, and equals them when a customer may use the coupon once;
\* and neither the cap of the coupon nor that of a customer is passed.
THEOREM CouponSafe == C!Spec => [](C!CountMatches /\ C!WithinLimits)
<1>1. CouponInv => C!CountMatches /\ C!WithinLimits
  BY DEF CouponInv
<1>2. QED
  BY <1>1, CouponInductive, PTL

\* The counter of the coupon covers its usages in the whole checkout.
THEOREM CheckoutCountMatches == SpecWithCoupon => []CountMatches
<1>1. C!CountMatches => CountMatches
  BY DEF CountMatches
<1>2. QED
  BY <1>1, CouponSafe, CheckoutKeepsCoupons, PTL DEF KeepsCoupons

\* The limits of the coupon hold in the whole checkout.
THEOREM CheckoutWithinLimits == SpecWithCoupon => []WithinLimits
<1>1. C!WithinLimits => WithinLimits
  BY DEF WithinLimits
<1>2. QED
  BY <1>1, CouponSafe, CheckoutKeepsCoupons, PTL DEF KeepsCoupons

\* Requests, orders, the coupon and the workers' lists keep their types.
THEOREM CouponCheckoutTypes == SpecWithCoupon => []TypeOKWithCoupon
<1>1. IInv /\ CouponInv /\ CouponOrders => TypeOKWithCoupon
  BY DEF IInv, CouponInv, CouponOrders, TypeOKWithCoupon
<1>2. SpecWithCoupon => []CouponInv
  BY CheckoutKeepsCoupons, CouponInductive, PTL DEF KeepsCoupons
<1>3. QED
  BY <1>1, <1>2, CheckoutInvariance, CouponOrdersAlways, PTL

-----------------------------------------------------------------------------
(***************************************************************************)
(* A usage with an order id belongs to a confirmed order                   *)
(***************************************************************************)

LinkedInv ==
    /\ linked \subseteq couponOrder
    /\ LinkedIsConfirmed

\* Reverting the usage of an order takes its id away.
LEMMA RevertUnlinks ==
    ASSUME LinkedInv, NEW S, RevertFor(S)
    PROVE  linked' = linked \ S
BY DEF LinkedInv, RevertFor, C!RevertUsages

\* The steps that leave the coupon alone confirm no order and take no
\* confirmed one back.
LEMMA CheckoutOnlyStatus ==
    ASSUME IInv, CheckoutOnly, NEW o \in Order, orderStatus[o] = "confirmed"
    PROVE  orderStatus'[o] = "confirmed"
<1>1. ASSUME NEW p \in Order, IntentFails(p) \/ IntentSucceeds(p)
      PROVE  orderStatus'[o] = "confirmed"
  BY <1>1, OrderFacts DEF IntentFails, IntentSucceeds
<1>2. CASE UNCHANGED orderStatus
  BY <1>2
<1>3. QED
  BY <1>1, <1>2 DEF CheckoutOnly, IntentLost, PaymentCaptured, AttemptFails, RequestBegins,
     VerifyBegin, CapturedBegin, FailedBegin, CustomerCancels, AdminCancels, Begin,
     RequestDies, PassExpiry, SetForSale, InventoryOnly, orderVars

\* LinkedInv is inductive.
LEMMA LinkedStep ==
    IInv /\ CouponOrders /\ LinkedInv /\ [NextWithCoupon]_varsWithCoupon => LinkedInv'
<1> SUFFICES ASSUME IInv, CouponOrders, LinkedInv, [NextWithCoupon]_varsWithCoupon
             PROVE  LinkedInv'
  OBVIOUS
<1>1. ASSUME NEW o \in Order, NEW cart, CreateIntentWithCoupon(o, cart)
      PROVE  LinkedInv'
  <2>1. linked' = linked /\ couponOrder \subseteq couponOrder'
    BY <1>1 DEF CreateIntentWithCoupon, C!ApplyAndReserve, couponVars, LinkedInv
  <2>2. \A p \in Order : orderStatus[p] = "confirmed" => orderStatus'[p] = "confirmed"
    BY <1>1 DEF CreateIntentWithCoupon, CreateIntent, PendingOf, PendingStatus
  <2>3. QED
    BY <2>1, <2>2 DEF LinkedInv, LinkedIsConfirmed, CouponOrders
<1>2. ASSUME NEW q \in Request, VerifyCommitWithCoupon(q) \/ CapturedCommitWithCoupon(q)
      PROVE  LinkedInv'
  <2> DEFINE o == request[q].order
  <2>1. /\ orderStatus' = [orderStatus EXCEPT ![o] = "confirmed"]
        /\ FinalizeFor(o)
        /\ couponOrder' = couponOrder
        /\ o \in Order
    BY <1>2, OrderFacts DEF VerifyCommitWithCoupon, CapturedCommitWithCoupon,
       VerifyCommit, CapturedCommit, Fulfil
  <2>2. linked' \subseteq linked \cup {o} /\ linked' \subseteq couponOrder
    BY <2>1 DEF FinalizeFor, C!FinalizeUsage, couponVars, LinkedInv
  <2>3. QED
    BY <2>1, <2>2, OrderFacts DEF LinkedInv, LinkedIsConfirmed, CouponOrders
<1>3. ASSUME NEW q \in Request, FailedCommitWithCoupon(q) \/ CancelCommitWithCoupon(q)
      PROVE  LinkedInv'
  <2> DEFINE o == request[q].order
  <2>1. CASE request[q].paid /\ FailedCommitWithCoupon(q)
    <3>1. linked' = linked /\ couponOrder' = couponOrder /\ orderStatus' = orderStatus
      BY <2>1 DEF FailedCommitWithCoupon, FailedCommit, orderVars, couponVars
    <3>2. QED
      BY <3>1 DEF LinkedInv, LinkedIsConfirmed
  <2>2. CASE ~(request[q].paid /\ FailedCommitWithCoupon(q))
    <3>1. /\ RevertFor({o})
          /\ couponOrder' = couponOrder
          /\ \A p \in Order \ {o} : orderStatus'[p] = orderStatus[p]
      BY <1>3, <2>2, OrderFacts DEF FailedCommitWithCoupon, CancelCommitWithCoupon,
         FailedCommit, CancelCommit
    <3>2. linked' = linked \ {o}
      BY <3>1, RevertUnlinks
    <3>3. QED
      BY <3>1, <3>2 DEF LinkedInv, LinkedIsConfirmed, CouponOrders
  <2>3. QED
    BY <2>1, <2>2
<1>4. ASSUME NEW w \in Worker, WorkerStepWithCoupon(w)
      PROVE  LinkedInv'
  <2>1. couponOrder' = couponOrder /\ linked' \subseteq linked
    BY <1>4, RevertUnlinks DEF WorkerStepWithCoupon, ListCandidatesWithCoupon,
       ExpireOrdersWithCoupon, RevertExpired, RevertLost,
                               couponVars
  <2>2. \A p \in Order : orderStatus[p] = "confirmed" => orderStatus'[p] = "confirmed"
    BY <1>4 DEF WorkerStepWithCoupon, ListCandidatesWithCoupon, ExpireOrdersWithCoupon,
       RevertExpired, RevertLost, vars,
       ListCandidates, InventoryOnly, orderVars, ExpireOrders, PendingStatus
  <2>3. QED
    BY <2>1, <2>2 DEF LinkedInv, LinkedIsConfirmed, CouponOrders
<1>5. CASE CheckoutOnly
  <2>1. linked' = linked /\ couponOrder' = couponOrder
    BY <1>5 DEF CheckoutOnly, couponVars
  <2>2. QED
    BY <1>5, <2>1, CheckoutOnlyStatus DEF LinkedInv, LinkedIsConfirmed, CouponOrders
<1>6. CASE UNCHANGED varsWithCoupon
  BY <1>6 DEF varsWithCoupon, couponVars, vars, orderVars, LinkedInv, LinkedIsConfirmed
<1>7. QED
  BY <1>1, <1>2, <1>3, <1>4, <1>5, <1>6 DEF NextWithCoupon

\* No usage outlives the order that was confirmed with it: whoever ends the
\* order, however late, frees the usage in the same step.
THEOREM CheckoutLinkedIsConfirmed == SpecWithCoupon => []LinkedIsConfirmed
<1>1. InitWithCoupon => LinkedInv
  BY DEF InitWithCoupon, C!Init, LinkedInv, LinkedIsConfirmed
<1>2. LinkedInv => LinkedIsConfirmed
  BY DEF LinkedInv
<1>3. QED
  BY <1>1, <1>2, LinkedStep, CouponOrdersAlways, CheckoutInvariance, PTL DEF SpecWithCoupon
=============================================================================
