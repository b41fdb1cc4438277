--------------------------- MODULE MCReservation ---------------------------
(***************************************************************************)
(* Instances of Reservation for TLC.                                       *)
(***************************************************************************)
EXTENDS Reservation, TLC

CONSTANTS o1, o2, t1, t2, w1, w2

MCOneOrder == {o1}
MCOrders == {o1, o2}
MCOneTarget == {t1}
MCTargets == {t1, t2}
MCOneWorker == {w1}
MCWorkers == {w1, w2}

MCNoBackorder == {}
MCBackorder == {t2}

\* Orders are interchangeable; the targets are not when one allows backorder.
MCSymmetry == Permutations(Order)
=============================================================================
