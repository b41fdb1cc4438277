------------------------------- MODULE Coupons -------------------------------
(***************************************************************************)
(* The usage of one coupon: CouponService and CouponRepository             *)
(* (Backend/app/modules/coupons).  A redemption is recorded twice, as a    *)
(* row of coupon_usages and in coupons.usage_count.  The row is inserted   *)
(* before its order exists, without an order id (it is pending), and gets  *)
(* the id when the order is paid.  Every operation runs inside the         *)
(* transaction of its caller and locks the coupon or the rows it changes.  *)
(***************************************************************************)
EXTENDS Integers, FiniteSets

CONSTANTS
    User, Order,
    Owner,          \* Owner[o]: the customer who places order o
    UsageLimit,     \* coupons.usage_limit, of a coupon that is capped
    CustomerLimit   \* one_time_per_customer or per_user_limit

\* What the theorems assume of the constants, and CheckoutCoupons of its own.
CouponAssumption ==
    /\ IsFiniteSet(Order)
    /\ Owner \in [Order -> User]
    /\ UsageLimit \in Nat \ {0}
    /\ CustomerLimit \in Nat \ {0}

VARIABLES
    usageCount,   \* coupons.usage_count
    pending,      \* the rows without an order id, by the order whose checkout inserted them
    linked        \* the rows with an order id, by that id

couponVars == <<usageCount, pending, linked>>

PendingOf(u) == {o \in pending : Owner[o] = u}
LinkedOf(u) == {o \in linked : Owner[o] = u}

Usages == Cardinality(pending) + Cardinality(linked)
UserUsages(u) == Cardinality(PendingOf(u)) + Cardinality(LinkedOf(u))

-----------------------------------------------------------------------------
TypeOK ==
    /\ usageCount \in Nat
    /\ pending \subseteq Order
    /\ linked \subseteq Order

Init ==
    /\ usageCount = 0
    /\ pending = {}
    /\ linked = {}

\* Faulty variant: only validate looks at the limits, before the lock.
ApplyUnlocked(o) ==
    /\ o \notin pending \cup linked
    /\ pending' = pending \cup {o}
    /\ usageCount' = usageCount + 1
    /\ UNCHANGED linked

\* apply_and_reserve, which counts both limits again once it has the lock.
ApplyAndReserve(o) ==
    /\ o \notin pending \cup linked
    /\ usageCount < UsageLimit
    /\ UserUsages(Owner[o]) < CustomerLimit
    /\ pending' = pending \cup {o}
    /\ usageCount' = usageCount + 1
    /\ UNCHANGED linked

\* finalize_usage: every pending row of the customer gets the id of the order;
\* uq_coupon_usage_order refuses a second row with that id.
FinalizeUsage(o) ==
    LET rows == PendingOf(Owner[o])
    IN  /\ Cardinality(rows) + Cardinality(linked \cap {o}) <= 1
        /\ pending' = pending \ rows
        /\ linked' = IF rows = {} THEN linked ELSE linked \cup {o}
        /\ UNCHANGED usageCount

\* The customers of S for whom revert_usage falls back to the pending rows.
FallBack(S) == {u \in User : PendingOf(u) # {} /\ \E o \in S \ linked : Owner[o] = u}

\* Faulty variant: the fallback always takes a unit off the counter.
RevertUncheckedCount(S) ==
    LET users == {Owner[o] : o \in S \ linked}
        n == Cardinality(S \cap linked) + Cardinality(users)
    IN  /\ linked' = linked \ S
        /\ pending' = {o \in pending : Owner[o] \notin users}
        /\ usageCount' = IF n < usageCount THEN usageCount - n ELSE 0

\* revert_usage for the orders of S, one after the other: the row with the id
\* of the order goes, or else all pending rows of its customer; when a row
\* has gone, the counter drops by one, however many there were.
RevertUsages(S) ==
    LET n == Cardinality(S \cap linked) + Cardinality(FallBack(S))
    IN  /\ linked' = linked \ S
        /\ pending' = {o \in pending : Owner[o] \notin FallBack(S)}
        /\ usageCount' = IF n < usageCount THEN usageCount - n ELSE 0

Next ==
    \/ \E o \in Order : ApplyAndReserve(o) \/ FinalizeUsage(o)
    \/ \E S \in SUBSET Order : RevertUsages(S)

Spec == Init /\ [][Next]_couponVars

-----------------------------------------------------------------------------
\* usage_count never says less than there are rows, whatever is finalized and
\* reverted how often: a capped coupon is not given away beyond its cap.  For
\* a coupon that each customer can use once it says exactly how many there are.
CountMatches ==
    /\ usageCount >= Usages
    /\ CustomerLimit = 1 => usageCount = Usages

\* Neither the cap of the coupon nor that of a customer is passed, by rows
\* that wait for their order and rows that have it together.
WithinLimits ==
    /\ Usages <= UsageLimit
    /\ \A u \in User : UserUsages(u) <= CustomerLimit
=============================================================================
