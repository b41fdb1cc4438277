--------------------------- MODULE MCCheckoutPage ---------------------------
(***************************************************************************)
(* Instances of CheckoutPage for TLC.                                      *)
(***************************************************************************)
EXTENDS CheckoutPage, TLC

CONSTANTS p1, p2, o1, o2, a1, a2

MCOneProduct == {p1}
MCProducts == {p1, p2}
MCOneOrder == {o1}
MCOrders == {o1, o2}
MCOneAttempt == {a1}
MCAttempts == {a1, a2}

\* Bound of the model: no POST is still on its way when a payment opens or
\* the page is mounted again.
MCStrays == strays # {} => page = 1 /\ modals = <<>> /\ captured \cup over = {}

\* Nothing tells the members of these sets apart.
MCSymmetry == Permutations(Product) \cup Permutations(Order) \cup Permutations(Attempt)
=============================================================================
