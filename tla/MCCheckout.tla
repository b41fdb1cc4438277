----------------------------- MODULE MCCheckout -----------------------------
(***************************************************************************)
(* Instances of Checkout for TLC.                                          *)
(***************************************************************************)
EXTENDS Checkout, TLC

CONSTANTS o1, o2, t1, t2, u1, u2, q1, q2, w1

MCOneOrder == {o1}
MCOrders == {o1, o2}
MCOneTarget == {t1}
MCTargets == {t1, t2}
MCUsers == {u1, u2}
MCOneRequest == {q1}
MCRequests == {q1, q2}
MCWorker == {w1}
MCNone == {}

\* All orders come from one customer, or each from another one.
MCSameOwner == [o \in Order |-> u1]
MCOwners == [o \in Order |-> IF o = o1 THEN u1 ELSE u2]

MCSymmetry == Permutations(Request)
=============================================================================
