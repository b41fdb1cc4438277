------------------------- MODULE MCCheckoutCoupons -------------------------
(***************************************************************************)
(* Instances of CheckoutCoupons for TLC.                                   *)
(***************************************************************************)
EXTENDS CheckoutCoupons

CONSTANTS o1, o2, t1, u1, q1, w1

MCOrders == {o1, o2}
MCTarget == {t1}
MCUser == {u1}
MCRequest == {q1}
MCWorker == {w1}
MCNone == {}

\* Both orders come from one customer.
MCOwner == [o \in Order |-> u1]

\* Bound of the model: payment attempts fail for the first order only.
MCOneFailure == failedAttempt \subseteq {o1}
=============================================================================
