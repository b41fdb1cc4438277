------------------------------ MODULE Checkout ------------------------------
(***************************************************************************)
(* The life of an order, from the checkout to its payment, expiry or       *)
(* cancellation: OrderService (Backend/app/modules/orders/service.py), the *)
(* Razorpay webhooks (Backend/app/modules/webhooks/service.py) and the     *)
(* expiry worker, over the reservations of Reservation.tla.                *)
(*                                                                         *)
(* Stock rows and reservation rows are locked, order and payment rows are  *)
(* not: a request reads the order first, decides, and writes it in the     *)
(* commit of the same transaction, and other requests commit in between.   *)
(* So every request is two steps, Begin (its reads and early returns) and  *)
(* Commit, and the checkout is two transactions with the call to Razorpay  *)
(* between them.                                                           *)
(***************************************************************************)
EXTENDS Units

CONSTANTS
    Worker, MaxStock, BatchLimit, Backorder,  \* as in Reservation
    User,        \* the customers
    Owner,       \* Owner[o]: the customer who places order o
    Request,     \* requests that can be in flight at once
    Delistable   \* bound of the model: the targets that may leave the shop

VARIABLES
    stock, reserved, sold, forSale, status, quantity, overdue, candidates,
    orderStatus,    \* orders.status, "none" before the insert
    paymentStatus,  \* orders.payment_status
    payment,        \* the statuses of the payment rows of each order
    razorpayOrder,  \* the orders with a razorpay_order_id
    calling,        \* the orders whose Razorpay order is being created
    captured,       \* Razorpay: the orders with a captured payment attempt
    failedAttempt,  \* Razorpay: the orders with a failed payment attempt
    request         \* request[q]: what request q read before its commit

R == INSTANCE Reservation

ASSUME CheckoutAssumption ==
    /\ R!ReservationAssumption
    /\ Owner \in [Order -> User]
    /\ Delistable \subseteq Target

inventoryVars == <<stock, reserved, sold, forSale, status, quantity, overdue, candidates>>
orderVars == <<orderStatus, paymentStatus>>
gatewayVars == <<captured, failedAttempt>>
vars == <<inventoryVars, orderVars, payment, razorpayOrder, calling, gatewayVars, request>>

OrderStatus == {"none", "stock_reserved", "payment_pending", "confirmed",
                "cancelled", "payment_failed", "payment_expired"}

\* The statuses idx_one_pending_order_per_user allows one order of for each customer.
PendingStatus == {"stock_reserved", "payment_pending"}
PendingOf(u) == {o \in Order : Owner[o] = u /\ orderStatus[o] \in PendingStatus}

Idle == [kind |-> "idle"]
OrderRequest ==
    [kind : {"verify", "captured", "failed", "cancel"}, order : Order,
     status : OrderStatus, paid : BOOLEAN, rows : SUBSET {"captured", "failed"}]

\* What a request has read when it goes on to write.
Reading(kind, o) ==
    [kind |-> kind, order |-> o, status |-> orderStatus[o],
     paid |-> paymentStatus[o] = "paid", rows |-> payment[o]]

TypeOK ==
    /\ R!TypeOK
    /\ orderStatus \in [Order -> OrderStatus]
    /\ paymentStatus \in [Order -> {"pending", "paid", "failed"}]
    /\ payment \in [Order -> SUBSET {"captured", "failed"}]
    /\ razorpayOrder \subseteq Order
    /\ calling \subseteq Order
    /\ captured \subseteq Order
    /\ failedAttempt \subseteq Order
    /\ request \in [Request -> {Idle} \cup OrderRequest]

Init ==
    /\ R!Init
    /\ orderStatus = [o \in Order |-> "none"]
    /\ paymentStatus = [o \in Order |-> "pending"]
    /\ payment = [o \in Order |-> {}]
    /\ razorpayOrder = {}
    /\ calling = {}
    /\ captured = {}
    /\ failedAttempt = {}
    /\ request = [q \in Request |-> Idle]

-----------------------------------------------------------------------------
(***************************************************************************)
(* create_payment_intent                                                   *)
(***************************************************************************)

\* The cart of an order that has been placed.
CartOf(o) ==
    [t \in {t \in Target : quantity[<<o, t>>] > 0} |-> quantity[<<o, t>>]]

\* Faulty variant: the stale orders fail but keep their reservations.
CreateIntentKeepingStale(o, cart) ==
    LET stale == PendingOf(Owner[o])
    IN  /\ orderStatus[o] = "none"
        /\ \A p \in stale : CartOf(p) # cart
        /\ R!ReserveItems(o, cart, {})
        /\ orderStatus' = [p \in Order |-> IF p = o THEN "stock_reserved"
                                           ELSE IF p \in stale THEN "payment_failed"
                                           ELSE orderStatus[p]]
        /\ calling' = calling \cup {o}
        /\ UNCHANGED <<paymentStatus, payment, razorpayOrder, gatewayVars, request>>

\* The first transaction, serialised for each customer by an advisory lock:
\* no pending order of the customer has the same cart (such an order is
\* answered again and nothing changes), the other pending ones fail, and
\* their units and the free ones are what the new order can hold.
CreateIntent(o, cart) ==
    LET stale == PendingOf(Owner[o])
    IN  /\ orderStatus[o] = "none"
        /\ \A p \in stale : CartOf(p) # cart
        /\ R!ReserveItems(o, cart, stale)
        /\ orderStatus' = [p \in Order |-> IF p = o THEN "stock_reserved"
                                           ELSE IF p \in stale THEN "payment_failed"
                                           ELSE orderStatus[p]]
        /\ calling' = calling \cup {o}
        /\ UNCHANGED <<paymentStatus, payment, razorpayOrder, gatewayVars, request>>

\* Faulty variant: the failed order keeps its reservations.
IntentFailsKeepingHold(o) ==
    /\ o \in calling
    /\ calling' = calling \ {o}
    /\ orderStatus' = [orderStatus EXCEPT ![o] = "payment_failed"]
    /\ UNCHANGED <<inventoryVars, paymentStatus, payment, razorpayOrder, gatewayVars, request>>

\* Razorpay refuses the order, or the call raises.
IntentFails(o) ==
    /\ o \in calling
    /\ calling' = calling \ {o}
    /\ R!ReleaseOrder(o, "PAYMENT_FAILED")
    /\ orderStatus' = [orderStatus EXCEPT ![o] = "payment_failed"]
    /\ UNCHANGED <<paymentStatus, payment, razorpayOrder, gatewayVars, request>>

\* The second transaction writes the order without reading it again; only the
\* unique index on pending orders can refuse it.
IntentSucceeds(o) ==
    /\ o \in calling
    /\ calling' = calling \ {o}
    /\ PendingOf(Owner[o]) \subseteq {o}
    /\ R!LockForCheckout(o)
    /\ orderStatus' = [orderStatus EXCEPT ![o] = "payment_pending"]
    /\ razorpayOrder' = razorpayOrder \cup {o}
    /\ UNCHANGED <<paymentStatus, payment, gatewayVars, request>>

\* The server stops during the call, or the index refuses the second transaction.
IntentLost(o) ==
    /\ o \in calling
    /\ calling' = calling \ {o}
    /\ UNCHANGED <<inventoryVars, orderVars, payment, razorpayOrder, gatewayVars, request>>

-----------------------------------------------------------------------------
(***************************************************************************)
(* Razorpay: attempts to pay an order it knows                             *)
(***************************************************************************)

PaymentCaptured(o) ==
    /\ o \in razorpayOrder \ captured
    /\ captured' = captured \cup {o}
    /\ UNCHANGED <<inventoryVars, orderVars, payment, razorpayOrder, calling, failedAttempt, request>>

AttemptFails(o) ==
    /\ o \in razorpayOrder \ (captured \cup failedAttempt)
    /\ failedAttempt' = failedAttempt \cup {o}
    /\ UNCHANGED <<inventoryVars, orderVars, payment, razorpayOrder, calling, captured, request>>

-----------------------------------------------------------------------------
(***************************************************************************)
(* Requests                                                                *)
(***************************************************************************)

Begin(q, kind, o) ==
    /\ request[q] = Idle
    /\ request' = [request EXCEPT ![q] = Reading(kind, o)]
    /\ UNCHANGED <<inventoryVars, orderVars, payment, razorpayOrder, calling, gatewayVars>>

End(q) ==
    /\ request' = [request EXCEPT ![q] = Idle]
    /\ UNCHANGED <<razorpayOrder, calling, gatewayVars>>

\* A request fails and its transaction rolls back, for whatever reason.
RequestDies(q) ==
    /\ request[q] # Idle
    /\ End(q)
    /\ UNCHANGED <<inventoryVars, orderVars, payment>>

\* Faulty variant: the signature of the payment is not verified.
VerifyBeginUnsigned(q, o) ==
    /\ o \in razorpayOrder
    /\ orderStatus[o] # "cancelled"
    /\ paymentStatus[o] # "paid"
    /\ Begin(q, "verify", o)

\* verify_and_fulfill, up to the reservations: Razorpay signs captured payments only.
VerifyBegin(q, o) ==
    /\ o \in razorpayOrder \cap captured
    /\ orderStatus[o] # "cancelled"
    /\ paymentStatus[o] # "paid"
    /\ Begin(q, "verify", o)

\* Faulty variant: a late payment takes stock although its hold is gone.
FulfilAnyway(o) ==
    /\ R!SellRows(R!RowsOf(o))
    /\ orderStatus' = [orderStatus EXCEPT ![o] = "confirmed"]
    /\ paymentStatus' = [paymentStatus EXCEPT ![o] = "paid"]

\* The order is paid and what it holds is sold.  When
\* complete_reservations_for_order answers "refund_required" there is no such
\* step: handle_late_payment_refund writes the status "refund_pending", which
\* orders_status_check rejects, and the transaction rolls back (RequestDies).
Fulfil(o) ==
    /\ ~R!RefundRequired(o)
    /\ R!CompleteOrder(o)
    /\ orderStatus' = [orderStatus EXCEPT ![o] = "confirmed"]
    /\ paymentStatus' = [paymentStatus EXCEPT ![o] = "paid"]

\* The rest of verify_and_fulfill; a payment row with this payment id is kept.
VerifyCommit(q) ==
    LET o == request[q].order
    IN  /\ request[q].kind = "verify"
        /\ Fulfil(o)
        /\ payment' = [payment EXCEPT ![o] = @ \cup {"captured"}]
        /\ End(q)

\* The reads of _on_payment_captured and _on_order_paid: the order has at
\* most one payment row (two of them raise), it is not captured and the order
\* is not paid.
CapturedBegin(q, o) ==
    /\ o \in razorpayOrder \cap captured
    /\ Cardinality(payment[o]) <= 1
    /\ "captured" \notin payment[o]
    /\ paymentStatus[o] # "paid"
    /\ Begin(q, "captured", o)

\* The payment row it inserts or updates has the unique razorpay_payment_id
\* that verify_and_fulfill may have inserted since.
CapturedCommit(q) ==
    LET o == request[q].order
    IN  /\ request[q].kind = "captured"
        /\ IF request[q].rows = {}
           THEN /\ "captured" \notin payment[o]
                /\ payment' = [payment EXCEPT ![o] = @ \cup {"captured"}]
           ELSE /\ payment[o] # {"captured", "failed"}
                /\ payment' = [payment EXCEPT ![o] = {"captured"}]
        /\ Fulfil(o)
        /\ End(q)

\* The reads of _on_payment_failed
FailedBegin(q, o) ==
    /\ o \in failedAttempt
    /\ Cardinality(payment[o]) <= 1
    /\ "failed" \notin payment[o]
    /\ Begin(q, "failed", o)

\* The payment row it read becomes "failed" before the order is looked at;
\* an order it read as unpaid fails, whatever it is by now.
FailedCommit(q) ==
    LET o == request[q].order
    IN  /\ request[q].kind = "failed"
        /\ payment' = [payment EXCEPT ![o] =
              IF request[q].rows = {} \/ "failed" \in @ THEN @ ELSE {"failed"}]
        /\ IF request[q].paid
           THEN UNCHANGED <<inventoryVars, orderVars>>
           ELSE /\ R!ReleaseOrder(o, "RELEASED")
                /\ orderStatus' = [orderStatus EXCEPT ![o] = "payment_failed"]
                /\ paymentStatus' = [paymentStatus EXCEPT ![o] = "failed"]
        /\ End(q)

\* The guards of cancel_order (the customer) and of update_status to
\* "cancelled" (an administrator)
CustomerCancels(q, o) ==
    /\ orderStatus[o] \in {"stock_reserved", "confirmed"}
    /\ Begin(q, "cancel", o)

AdminCancels(q, o) ==
    /\ orderStatus[o] \notin {"none", "cancelled"}
    /\ Begin(q, "cancel", o)

\* _restock_cancelled_order, by the status it read, and the new status
CancelCommit(q) ==
    LET o == request[q].order
    IN  /\ request[q].kind = "cancel"
        /\ IF request[q].status = "confirmed"
           THEN R!ReleaseAndReturn(o)
           ELSE R!ReleaseOrder(o, "CANCELLED")
        /\ orderStatus' = [orderStatus EXCEPT ![o] = "cancelled"]
        /\ UNCHANGED <<paymentStatus, payment>>
        /\ End(q)

-----------------------------------------------------------------------------
(***************************************************************************)
(* The expiry worker, the clock and the back office                        *)
(***************************************************************************)

\* Faulty variant: only orders whose customer is paying are moved.
ExpireOrdersInPayment(w, skipped) ==
    LET expired == {r[1] : r \in R!Expirable(w, skipped)}
    IN  /\ R!ExpireCandidates(w, skipped)
        /\ orderStatus' = [o \in Order |->
              IF /\ o \in expired
                 /\ orderStatus[o] = "payment_pending"
                 /\ paymentStatus[o] # "paid"
              THEN "payment_expired" ELSE orderStatus[o]]
        /\ UNCHANGED <<paymentStatus, payment, razorpayOrder, calling, gatewayVars, request>>

\* The batch of expire_stale_reservations, with the orders it moves.
ExpireOrders(w, skipped) ==
    LET expired == {r[1] : r \in R!Expirable(w, skipped)}
    IN  /\ R!ExpireCandidates(w, skipped)
        /\ orderStatus' = [o \in Order |->
              IF /\ o \in expired
                 /\ orderStatus[o] \in PendingStatus
                 /\ paymentStatus[o] # "paid"
              THEN "payment_expired" ELSE orderStatus[o]]
        /\ UNCHANGED <<paymentStatus, payment, razorpayOrder, calling, gatewayVars, request>>

InventoryOnly == UNCHANGED <<orderVars, payment, razorpayOrder, calling, gatewayVars, request>>

PassExpiry(r) == R!PassExpiry(r) /\ InventoryOnly

ListCandidates(w) == R!ListCandidates(w) /\ InventoryOnly

SetForSale(t) == t \in Delistable /\ R!SetForSale(t) /\ InventoryOnly

-----------------------------------------------------------------------------
IntentStep(o) ==
    \/ \E S \in (SUBSET Target) \ {{}} :
          \E cart \in [S -> 1..MaxQuantity] : CreateIntent(o, cart)
    \/ IntentFails(o)
    \/ IntentSucceeds(o)
    \/ IntentLost(o)

RequestBegins(q) ==
    \E o \in Order :
        \/ VerifyBegin(q, o)
        \/ CapturedBegin(q, o)
        \/ FailedBegin(q, o)
        \/ CustomerCancels(q, o)
        \/ AdminCancels(q, o)

RequestEnds(q) ==
    \/ VerifyCommit(q)
    \/ CapturedCommit(q)
    \/ FailedCommit(q)
    \/ CancelCommit(q)
    \/ RequestDies(q)

WorkerStep(w) ==
    \/ ListCandidates(w)
    \/ \E skipped \in SUBSET candidates[w] : ExpireOrders(w, skipped)

Next ==
    \/ \E o \in Order : IntentStep(o) \/ PaymentCaptured(o) \/ AttemptFails(o)
    \/ \E q \in Request : RequestBegins(q) \/ RequestEnds(q)
    \/ \E w \in Worker : WorkerStep(w)
    \/ \E r \in R!Row : PassExpiry(r)
    \/ \E t \in Target : SetForSale(t)

Spec == Init /\ [][Next]_vars

\* Time passes, the scheduler runs the worker again and again, the call to
\* Razorpay and every request end in one way or another, and Razorpay delivers
\* a capture again and again: its handler can fail, but if it keeps being able
\* to commit it does.
Fairness ==
    /\ \A r \in R!Row : WF_vars(PassExpiry(r))
    /\ \A w \in Worker : WF_vars(ListCandidates(w)) /\ SF_vars(ExpireOrders(w, {}))
    /\ \A o \in Order : WF_vars(IntentFails(o) \/ IntentSucceeds(o) \/ IntentLost(o))
    /\ \A o \in Order : SF_vars(\E q \in Request : CapturedBegin(q, o))
    /\ \A q \in Request : WF_vars(RequestEnds(q)) /\ SF_vars(CapturedCommit(q))

FairSpec == Spec /\ Fairness

-----------------------------------------------------------------------------
(***************************************************************************)
(* Properties                                                              *)
(***************************************************************************)

\* Every request, worker run and clock tick is a call that the service
\* protocol of Reservation.tla allows, or leaves the inventory alone: what is
\* shown of the reservations holds of the whole checkout.
KeepsReservation == R!Spec

\* An order that is confirmed, cancelled or failed holds no units any more of
\* what can always be locked: no path that ends an order forgets its
\* reservations, and no hold appears after the end.
EndedHoldsNothing ==
    \A r \in R!LiveRows :
        r[2] \notin Delistable =>
            orderStatus[r[1]] \notin {"confirmed", "cancelled", "payment_failed"}

\* The worker never expires a row of a paid order, although it lists rows,
\* and the payment reads the order, before they take a lock.
PaidNeverExpired ==
    \A r \in R!Row :
        paymentStatus[r[1]] = "paid" /\ r[2] \notin Delistable => status[r] # "EXPIRED"

\* Units are sold only against money: a completed reservation belongs to an
\* order whose payment Razorpay has captured.
SoldMeansCaptured == \A r \in R!CompletedRows : r[1] \in captured

\* What handle_late_payment_refund says, "never silently drop a
\* captured-but-unfulfilled payment": a captured payment is recorded in the end.
CapturedIsRecorded == \A o \in Order : o \in captured ~> payment[o] # {}

\* The rows order o was placed with.
PlacedRows(o) == {r \in R!RowsOf(o) : quantity[r] > 0}

\* What complete_reservations_for_order says, when the stock hold is gone
\* "captured money must be refunded rather than the order silently confirmed":
\* no order becomes confirmed with units that expired or were released.  Left out
\* are rows that were cancelled, which the code does not look for (a capture
\* reported after a cancellation confirms the order without stock), and orders
\* of which a product left the shop: one of their rows can stay to be completed,
\* and then those released beside it are not looked for either.
ConfirmedWithItsStock ==
    [][\A o \in Order :
          /\ orderStatus[o] # "confirmed" /\ orderStatus'[o] = "confirmed"
          /\ \A r \in PlacedRows(o) : r[2] \notin Delistable
          => \A r \in PlacedRows(o) : status[r] = "CANCELLED" \/ status'[r] = "COMPLETED"]_vars

\* What _on_payment_failed says, "never downgrade a paid order": an order that
\* is paid stays paid.
PaidStaysPaid ==
    [][\A o \in Order : paymentStatus[o] = "paid" => paymentStatus'[o] = "paid"]_vars

\* What create_payment_intent says of an order that waits for Razorpay, that it
\* "will either succeed [...] or fail and be cleaned up by the expiry worker":
\* no order whose products stay for sale remains in stock_reserved, also when
\* the server stopped during the call.
ReservedEnds ==
    <>[](forSale = Target) =>
        \A o \in Order : orderStatus[o] = "stock_reserved" ~> orderStatus[o] # "stock_reserved"

\* A hold on stock that stays for sale does not last for ever, whatever becomes
\* of the order, its payment and the requests about it.
HoldsEnd == R!HoldsEnd
=============================================================================
