---------------------------- MODULE StockLedger ----------------------------
(***************************************************************************)
(* What the inventory of Hadha promises, without its mechanism: a ledger   *)
(* of the units each order holds and of the units that are sold.  There is *)
(* no reserved counter, no reservation status, no expiry time and no       *)
(* worker here: Reservation.tla has those and is shown to implement this   *)
(* module.                                                                 *)
(***************************************************************************)
EXTENDS Units

CONSTANTS
    MaxStock,   \* bound of the model: the largest warehouse count
    Backorder   \* the targets whose product allows selling beyond its stock

VARIABLES
    total,  \* total[t]: the units the warehouse owns
    held,   \* held[<<o, t>>]: the units of t set aside for order o
    sold    \* sold[t]: the units sold and not returned

vars == <<total, held, sold>>

HeldAt(t) == Sum(Line, t, held)

Room(t) == total[t] - HeldAt(t) - sold[t]

-----------------------------------------------------------------------------
TypeOK ==
    /\ total \in [Target -> Nat]
    /\ held \in [Line -> 0..MaxQuantity]
    /\ sold \in [Target -> Nat]

Init ==
    /\ total \in [Target -> 0..MaxStock]
    /\ held = [l \in Line |-> 0]
    /\ sold = [t \in Target |-> 0]

\* Order o sets aside every line of its cart, or nothing; lines of stale
\* orders are dropped first, in the same step.
Hold(o, cart, L) ==
    /\ \A t \in Target : held[<<o, t>>] = 0
    /\ \A t \in DOMAIN cart : t \in Backorder \/ cart[t] <= Room(t) + Sum(L, t, held)
    /\ held' = [l \in Line |-> IF l[1] = o /\ l[2] \in DOMAIN cart THEN cart[l[2]]
                               ELSE IF l \in L THEN 0 ELSE held[l]]
    /\ UNCHANGED <<total, sold>>

\* Lines turn what they hold into a sale: a unit is never sold unheld.
Sell(L) ==
    /\ held' = [l \in Line |-> IF l \in L THEN 0 ELSE held[l]]
    /\ sold' = [t \in Target |-> sold[t] + Sum(L, t, held)]
    /\ UNCHANGED total

\* Lines drop what they hold and sold units come back, never more of them
\* than are sold.
GiveBack(L, back) ==
    /\ \A t \in Target : back[t] <= sold[t]
    /\ held' = [l \in Line |-> IF l \in L THEN 0 ELSE held[l]]
    /\ sold' = [t \in Target |-> sold[t] - back[t]]
    /\ UNCHANGED total

\* The warehouse count changes, never to below what is held and sold unless
\* it grows.
Recount(t, n) ==
    /\ n > total[t] \/ n >= HeldAt(t) + sold[t]
    /\ total' = [total EXCEPT ![t] = n]
    /\ UNCHANGED <<held, sold>>

Next ==
    \/ \E o \in Order, S \in SUBSET Target, L \in SUBSET Line :
          \E cart \in [S -> 1..MaxQuantity] : Hold(o, cart, L)
    \/ \E L \in SUBSET Line :
          \/ Sell(L)
          \/ \E back \in [Target -> 0..MaxQuantity] : GiveBack(L, back)
    \/ \E t \in Target, n \in 0..MaxStock : Recount(t, n)

Spec == Init /\ [][Next]_vars

-----------------------------------------------------------------------------
\* Nothing is promised twice: what is held and what is sold fits in the
\* warehouse, for every target that may not be sold beyond its stock.
Promise == \A t \in Target \ Backorder : HeldAt(t) + sold[t] <= total[t]
=============================================================================
