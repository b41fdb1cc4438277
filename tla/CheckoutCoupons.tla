--------------------------- MODULE CheckoutCoupons ---------------------------
(***************************************************************************)
(* The checkout of an order with a coupon: Checkout.tla and Coupons.tla in *)
(* the same transactions.  The worker reverts the usages of the orders it  *)
(* has expired in a transaction of its own, after the one that expires     *)
(* them; everyone else changes the usage with the order.                   *)
(***************************************************************************)
EXTENDS Checkout

CONSTANTS UsageLimit, CustomerLimit   \* as in Coupons

VARIABLES
    usageCount, pending, linked,
    couponOrder,   \* the orders with a coupon_id
    revertDue      \* revertDue[w]: orders worker w has expired in this run

C == INSTANCE Coupons

ASSUME CheckoutCouponAssumption == C!CouponAssumption

couponVars == <<usageCount, pending, linked>>
varsWithCoupon == <<vars, couponVars, couponOrder, revertDue>>

TypeOKWithCoupon ==
    /\ TypeOK
    /\ C!TypeOK
    /\ couponOrder \subseteq Order
    /\ revertDue \in [Worker -> SUBSET Order]

InitWithCoupon ==
    /\ Init
    /\ C!Init
    /\ couponOrder = {}
    /\ revertDue = [w \in Worker |-> {}]

-----------------------------------------------------------------------------
\* Faulty variant: a usage that is not found is inserted.
FinalizeInserting(o) ==
    /\ linked' = IF o \in couponOrder THEN linked \cup {o} ELSE linked
    /\ pending' = IF o \in couponOrder THEN pending \ C!PendingOf(Owner[o]) ELSE pending
    /\ UNCHANGED usageCount

FinalizeFor(o) == IF o \in couponOrder THEN C!FinalizeUsage(o) ELSE UNCHANGED couponVars

RevertFor(S) == C!RevertUsages(S \cap couponOrder)

\* A checkout without a coupon, or with it: its usage is reserved in the
\* transaction that inserts the order.
CreateIntentWithCoupon(o, cart) ==
    /\ CreateIntent(o, cart)
    /\ \/ C!ApplyAndReserve(o) /\ couponOrder' = couponOrder \cup {o}
       \/ UNCHANGED <<couponVars, couponOrder>>
    /\ UNCHANGED revertDue

VerifyCommitWithCoupon(q) ==
    /\ VerifyCommit(q)
    /\ FinalizeFor(request[q].order)
    /\ UNCHANGED <<couponOrder, revertDue>>

CapturedCommitWithCoupon(q) ==
    /\ CapturedCommit(q)
    /\ FinalizeFor(request[q].order)
    /\ UNCHANGED <<couponOrder, revertDue>>

FailedCommitWithCoupon(q) ==
    /\ FailedCommit(q)
    /\ IF request[q].paid THEN UNCHANGED couponVars ELSE RevertFor({request[q].order})
    /\ UNCHANGED <<couponOrder, revertDue>>

\* Faulty variant: only orders that were not confirmed give their usage back.
CancelKeepingUsage(q) ==
    /\ CancelCommit(q)
    /\ IF request[q].status = "confirmed"
       THEN UNCHANGED couponVars ELSE RevertFor({request[q].order})
    /\ UNCHANGED <<couponOrder, revertDue>>

CancelCommitWithCoupon(q) ==
    /\ CancelCommit(q)
    /\ RevertFor({request[q].order})
    /\ UNCHANGED <<couponOrder, revertDue>>

-----------------------------------------------------------------------------
\* The worker remembers the orders it has moved to payment_expired.
ExpireOrdersWithCoupon(w, skipped) ==
    /\ ExpireOrders(w, skipped)
    /\ revertDue' = [revertDue EXCEPT ![w] = {o \in Order : orderStatus'[o] # orderStatus[o]}]
    /\ UNCHANGED <<couponVars, couponOrder>>

\* handle_expired_order_side_effects
RevertExpired(w) ==
    /\ revertDue[w] # {}
    /\ RevertFor(revertDue[w])
    /\ revertDue' = [revertDue EXCEPT ![w] = {}]
    /\ UNCHANGED <<vars, couponOrder>>

\* The worker stops after the commit that expires the orders.
RevertLost(w) ==
    /\ revertDue[w] # {}
    /\ revertDue' = [revertDue EXCEPT ![w] = {}]
    /\ UNCHANGED <<vars, couponVars, couponOrder>>

\* One run of the worker ends before its next one starts.
ListCandidatesWithCoupon(w) ==
    /\ revertDue[w] = {}
    /\ ListCandidates(w)
    /\ UNCHANGED <<couponVars, couponOrder, revertDue>>

\* The steps that leave the coupon alone, whatever becomes of the order.
CheckoutOnly ==
    /\ \/ \E o \in Order :
             \/ IntentFails(o) \/ IntentSucceeds(o) \/ IntentLost(o)
             \/ PaymentCaptured(o) \/ AttemptFails(o)
       \/ \E q \in Request : RequestBegins(q) \/ RequestDies(q)
       \/ \E r \in R!Row : PassExpiry(r)
       \/ \E t \in Target : SetForSale(t)
    /\ UNCHANGED <<couponVars, couponOrder, revertDue>>

WorkerStepWithCoupon(w) ==
    \/ ListCandidatesWithCoupon(w)
    \/ \E skipped \in SUBSET candidates[w] : ExpireOrdersWithCoupon(w, skipped)
    \/ RevertExpired(w)
    \/ RevertLost(w)

NextWithCoupon ==
    \/ \E o \in Order, S \in (SUBSET Target) \ {{}} :
          \E cart \in [S -> 1..MaxQuantity] : CreateIntentWithCoupon(o, cart)
    \/ \E q \in Request :
          \/ VerifyCommitWithCoupon(q)
          \/ CapturedCommitWithCoupon(q)
          \/ FailedCommitWithCoupon(q)
          \/ CancelCommitWithCoupon(q)
    \/ \E w \in Worker : WorkerStepWithCoupon(w)
    \/ CheckoutOnly

SpecWithCoupon == InitWithCoupon /\ [][NextWithCoupon]_varsWithCoupon

-----------------------------------------------------------------------------
\* Every transaction of the checkout uses the coupon as Coupons.tla has it, so
\* the limits that are proved there hold for all the ways an order can end.
KeepsCoupons == C!Spec

CountMatches == C!CountMatches

WithinLimits == C!WithinLimits

\* A usage that has its order id belongs to a confirmed order: whoever ends an
\* order that was paid, by cancelling it or by reporting a failure too late,
\* frees its usage in the same step.
LinkedIsConfirmed == \A o \in linked : orderStatus[o] = "confirmed"

=============================================================================
