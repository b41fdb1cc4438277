------------------------------- MODULE Units -------------------------------
(***************************************************************************)
(* Order lines and the units behind them.  A line is an order with one of  *)
(* the rows that own stock (a product, or a variant of one); a quantity is *)
(* counted as a set with one element for each unit, so that the SUM of a   *)
(* column over any set of lines is a cardinality and needs no recursion.   *)
(***************************************************************************)
EXTENDS Integers, FiniteSets

CONSTANTS
    Order,        \* the orders that can hold stock
    Target,       \* the rows that own stock: products and product variants
    MaxQuantity   \* the largest quantity of one order line

ASSUME UnitsAssumption ==
    /\ IsFiniteSet(Order)
    /\ IsFiniteSet(Target)
    /\ MaxQuantity \in Nat \ {0}

Line == Order \X Target

LinesAt(L, t) == {l \in L : l[2] = t}
LinesOf(L, o) == {l \in L : l[1] = o}

UnitsOf(L, q) == {u \in L \X (1..MaxQuantity) : u[2] <= q[u[1]]}

\* The sum of the quantities q of the lines of L whose target is t.
Sum(L, t, q) == Cardinality(UnitsOf(LinesAt(L, t), q))

\* GREATEST(n, 0), the clamp of every UPDATE that takes units off a counter
AtLeastZero(n) == IF n < 0 THEN 0 ELSE n
=============================================================================
