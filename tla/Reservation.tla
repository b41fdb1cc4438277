---------------------------- MODULE Reservation ----------------------------
(***************************************************************************)
(* ReservationService (Backend/app/modules/inventory/                      *)
(* reservation_service.py): the three counters of every stock row, the     *)
(* reservation rows that hold units for orders, and the worker that        *)
(* expires them.                                                           *)
(*                                                                         *)
(* Every method runs in its caller's transaction and touches stock only    *)
(* under the row lock it takes with SELECT ... FOR UPDATE, so one call is  *)
(* one step.  The exception is the expiry worker: it lists its candidates  *)
(* without a lock and locks them one by one afterwards, so listing and     *)
(* expiring are two steps.                                                 *)
(*                                                                         *)
(* A reservation row is the pair of its order and its stock target: the    *)
(* only caller of reserve_items links the rows to a fresh order in the     *)
(* same transaction, and an order has one line for a target.               *)
(***************************************************************************)
EXTENDS Units

CONSTANTS
    Worker,      \* runs of the expiry worker that can overlap
    MaxStock,    \* bound of the model: the largest stock_quantity
    BatchLimit,  \* the worker's LIMIT (500 in the code)
    Backorder    \* the targets whose product has allow_backorder

ASSUME ReservationAssumption ==
    /\ MaxStock \in Nat
    /\ BatchLimit \in Nat \ {0}
    /\ Backorder \subseteq Target

VARIABLES
    stock,       \* stock[t]: stock_quantity, the warehouse total
    reserved,    \* reserved[t]: reserved_quantity
    sold,        \* sold[t]: sold_quantity
    forSale,     \* the targets whose product and variant are active and not deleted
    status,      \* status[r]: the status of reservation row r, "none" before its insert
    quantity,    \* quantity[r]: the quantity of row r
    overdue,     \* the live rows with expires_at < now()
    candidates   \* candidates[w]: the rows worker w listed and has not handled

stockVars == <<stock, reserved, sold>>
rowVars == <<status, quantity, overdue>>
vars == <<stock, reserved, sold, forSale, status, quantity, overdue, candidates>>

Row == Line
Live == {"ACTIVE", "CHECKOUT_IN_PROGRESS"}
ReleaseReason == {"RELEASED", "CANCELLED", "PAYMENT_FAILED"}
Terminal == ReleaseReason \cup {"COMPLETED", "EXPIRED"}
Status == {"none"} \cup Live \cup Terminal

RowsOf(o) == LinesOf(Row, o)
LiveRows == {r \in Row : status[r] \in Live}
CompletedRows == {r \in Row : status[r] = "COMPLETED"}

\* _lock_stock_target finds the stock row of a reservation only while its
\* product and variant are for sale; otherwise the row is skipped.
Lockable(R) == {r \in R : r[2] \in forSale}

\* The live rows of a set of orders that a transaction can lock and change.
LiveLockable(orders) == Lockable({r \in LiveRows : r[1] \in orders})

-----------------------------------------------------------------------------
TypeOK ==
    /\ stock \in [Target -> Nat]
    /\ reserved \in [Target -> Nat]
    /\ sold \in [Target -> Nat]
    /\ forSale \subseteq Target
    /\ status \in [Row -> Status]
    /\ quantity \in [Row -> 0..MaxQuantity]
    /\ overdue \subseteq Row
    /\ candidates \in [Worker -> SUBSET Row]

Init ==
    /\ stock \in [Target -> 0..MaxStock]
    /\ reserved = [t \in Target |-> 0]
    /\ sold = [t \in Target |-> 0]
    /\ forSale = Target
    /\ status = [r \in Row |-> "none"]
    /\ quantity = [r \in Row |-> 0]
    /\ overdue = {}
    /\ candidates = [w \in Worker |-> {}]

-----------------------------------------------------------------------------
(***************************************************************************)
(* The transactions of the checkout                                        *)
(***************************************************************************)

\* What reserve_items finds free for target t once its transaction has
\* released the rows of the stale orders.
AvailableWithout(stale, t) ==
    stock[t] - AtLeastZero(reserved[t] - Sum(LiveLockable(stale), t, quantity)) - sold[t]

\* The new rows of order o hold its cart, the rows of the stale orders are
\* released.
InsertRows(o, cart, stale) ==
    LET New == {r \in RowsOf(o) : r[2] \in DOMAIN cart}
        Old == LiveLockable(stale)
    IN  /\ reserved' = [t \in Target |->
              AtLeastZero(reserved[t] - Sum(Old, t, quantity))
                + (IF t \in DOMAIN cart THEN cart[t] ELSE 0)]
        /\ status' = [r \in Row |-> IF r \in New THEN "ACTIVE"
                                    ELSE IF r \in Old THEN "RELEASED" ELSE status[r]]
        /\ quantity' = [r \in Row |-> IF r \in New THEN cart[r[2]] ELSE quantity[r]]
        /\ overdue' = overdue \ Old
        /\ UNCHANGED <<stock, sold, forSale, candidates>>

\* Faulty variant: the check forgets the units that are already sold.
ReserveItemsIgnoringSold(o, cart, stale) ==
    /\ o \notin stale
    /\ \A r \in RowsOf(o) : status[r] = "none"
    /\ \A t \in DOMAIN cart :
          /\ t \in forSale
          /\ t \in Backorder \/ AvailableWithout(stale, t) + sold[t] >= cart[t]
    /\ InsertRows(o, cart, stale)

\* reserve_items and link_reservations_to_order, after the release of the
\* customer's stale orders in the same transaction: every line of the cart
\* is held for order o, or the request fails and nothing changes.
ReserveItems(o, cart, stale) ==
    /\ o \notin stale
    /\ \A r \in RowsOf(o) : status[r] = "none"
    /\ \A t \in DOMAIN cart :
          /\ t \in forSale
          /\ t \in Backorder \/ AvailableWithout(stale, t) >= cart[t]
    /\ InsertRows(o, cart, stale)

\* Rows get the window of a customer who is paying.
GrantWindow(R) ==
    /\ status' = [r \in Row |-> IF r \in R THEN "CHECKOUT_IN_PROGRESS" ELSE status[r]]
    /\ overdue' = overdue \ R
    /\ UNCHANGED <<stockVars, forSale, quantity, candidates>>

\* lock_for_checkout: only the ACTIVE rows of o get a fresh window.
LockForCheckout(o) == GrantWindow({r \in RowsOf(o) : status[r] = "ACTIVE"})

\* Rows go from reserved to sold.
SellRows(R) ==
    /\ reserved' = [t \in Target |-> AtLeastZero(reserved[t] - Sum(R, t, quantity))]
    /\ sold' = [t \in Target |-> sold[t] + Sum(R, t, quantity)]
    /\ status' = [r \in Row |-> IF r \in R THEN "COMPLETED" ELSE status[r]]
    /\ overdue' = overdue \ R
    /\ UNCHANGED <<stock, forSale, quantity, candidates>>

\* Faulty variant: a second capture sells the completed rows again.
CompleteOrderAgain(o) ==
    SellRows(LiveLockable({o}) \cup Lockable(CompletedRows \cap RowsOf(o)))

\* complete_order_reservations: the live rows of o, and no others, are sold.
CompleteOrder(o) == SellRows(LiveLockable({o}))

\* Faulty variant: only what the worker expired is looked for.
RefundRequiredIfExpired(o) == \E r \in RowsOf(o) : status[r] = "EXPIRED"

\* Whether complete_reservations_for_order answers "refund_required" once it
\* has completed the rows of o that it can.
RefundRequired(o) ==
    \E r \in RowsOf(o) :
        \/ status[r] = "EXPIRED"
        \/ /\ status[r] = "RELEASED"
           /\ LiveLockable({o}) = {}
           /\ \A c \in RowsOf(o) : status[c] # "COMPLETED"

\* Rows end and their units are no longer reserved.
FreeRows(R, reason) ==
    /\ reserved' = [t \in Target |-> AtLeastZero(reserved[t] - Sum(R, t, quantity))]
    /\ status' = [r \in Row |-> IF r \in R THEN reason ELSE status[r]]
    /\ overdue' = overdue \ R
    /\ UNCHANGED <<stock, forSale, quantity>>

\* release_order_reservations
ReleaseOrder(o, reason) ==
    /\ FreeRows(LiveLockable({o}), reason)
    /\ UNCHANGED <<sold, candidates>>

\* Faulty variant: no clamp on the new sold_quantity.
ReleaseAndReturnUnclamped(o) ==
    /\ \A r \in RowsOf(o) : status[r] # "none" => r[2] \in forSale
    /\ FreeRows(LiveLockable({o}), "CANCELLED")
    /\ sold' = [t \in Target |-> sold[t] - quantity[<<o, t>>]]
    /\ UNCHANGED candidates

\* The cancellation of a confirmed order: release_order_reservations, then
\* record_return for every item, which fails when an item has left the shop.
ReleaseAndReturn(o) ==
    /\ \A r \in RowsOf(o) : status[r] # "none" => r[2] \in forSale
    /\ FreeRows(LiveLockable({o}), "CANCELLED")
    /\ sold' = [t \in Target |-> AtLeastZero(sold[t] - quantity[<<o, t>>])]
    /\ UNCHANGED candidates

-----------------------------------------------------------------------------
(***************************************************************************)
(* The expiry worker: expire_stale_reservations                            *)
(***************************************************************************)

\* Time reaches the expires_at of a live row.
PassExpiry(r) ==
    /\ r \in LiveRows \ overdue
    /\ overdue' = overdue \cup {r}
    /\ UNCHANGED <<stockVars, forSale, status, quantity, candidates>>

\* Faulty variant: only ACTIVE rows are looked for.
ListActiveCandidates(w) ==
    /\ candidates[w] = {}
    /\ \E R \in (SUBSET {r \in overdue : status[r] = "ACTIVE"}) \ {{}} :
          /\ Cardinality(R) <= BatchLimit
          /\ candidates' = [candidates EXCEPT ![w] = R]
    /\ UNCHANGED <<stockVars, forSale, rowVars>>

\* SELECT ... WHERE expires_at < now() LIMIT n: no lock, no order.
ListCandidates(w) ==
    /\ candidates[w] = {}
    /\ \E R \in (SUBSET overdue) \ {{}} :
          /\ R = overdue \/ Cardinality(R) = BatchLimit
          /\ Cardinality(R) <= BatchLimit
          /\ candidates' = [candidates EXCEPT ![w] = R]
    /\ UNCHANGED <<stockVars, forSale, rowVars>>

\* Faulty variant: the worker trusts its list and does not look at the status
\* again once it has the row lock.
ExpirableUnchecked(w, skipped) == Lockable(candidates[w] \ skipped)

\* The candidates the worker expires: not the ones whose row another
\* transaction has locked (SKIP LOCKED), and not the ones that are no longer
\* live.  That a row is still overdue is not asked again.
Expirable(w, skipped) == Lockable((candidates[w] \ skipped) \cap LiveRows)

\* The batch, up to its commit.
ExpireCandidates(w, skipped) ==
    /\ candidates[w] # {}
    /\ FreeRows(Expirable(w, skipped), "EXPIRED")
    /\ candidates' = [candidates EXCEPT ![w] = {}]
    /\ UNCHANGED sold

-----------------------------------------------------------------------------
(***************************************************************************)
(* Stock movements of the back office                                      *)
(***************************************************************************)

\* record_restock
RecordRestock(t, n) ==
    /\ n > 0
    /\ t \in forSale
    /\ stock[t] + n <= MaxStock  \* bound of the model
    /\ stock' = [stock EXCEPT ![t] = @ + n]
    /\ UNCHANGED <<reserved, sold, forSale, rowVars, candidates>>

\* record_return
RecordReturn(t, n) ==
    /\ n > 0
    /\ t \in forSale
    /\ sold' = [sold EXCEPT ![t] = AtLeastZero(@ - n)]
    /\ UNCHANGED <<stock, reserved, forSale, rowVars, candidates>>

\* Faulty variant: the recount may cut into the units held for customers.
RecordAdjustmentIgnoringHolds(t, n) ==
    /\ t \in forSale
    /\ n >= sold[t]
    /\ stock' = [stock EXCEPT ![t] = n]
    /\ UNCHANGED <<reserved, sold, forSale, rowVars, candidates>>

\* record_adjustment, by the stock_quantity n it results in
RecordAdjustment(t, n) ==
    /\ t \in forSale
    /\ n >= reserved[t] + sold[t]
    /\ stock' = [stock EXCEPT ![t] = n]
    /\ UNCHANGED <<reserved, sold, forSale, rowVars, candidates>>

\* An administrator takes a product or a variant off the shop, or puts it back.
SetForSale(t) ==
    /\ forSale' = IF t \in forSale THEN forSale \ {t} ELSE forSale \cup {t}
    /\ UNCHANGED <<stockVars, rowVars, candidates>>

-----------------------------------------------------------------------------
OrderStep(o) ==
    \/ \E S \in (SUBSET Target) \ {{}}, stale \in SUBSET Order :
          \E cart \in [S -> 1..MaxQuantity] : ReserveItems(o, cart, stale)
    \/ LockForCheckout(o)
    \/ CompleteOrder(o)
    \/ \E reason \in ReleaseReason : ReleaseOrder(o, reason)
    \/ ReleaseAndReturn(o)

WorkerStep(w) ==
    \/ ListCandidates(w)
    \/ \E skipped \in SUBSET candidates[w] : ExpireCandidates(w, skipped)

BackOfficeStep(t) ==
    \/ \E n \in 1..MaxQuantity : RecordRestock(t, n) \/ RecordReturn(t, n)
    \/ \E n \in 0..MaxStock : RecordAdjustment(t, n)
    \/ SetForSale(t)

Next ==
    \/ \E o \in Order : OrderStep(o)
    \/ \E r \in Row : PassExpiry(r)
    \/ \E w \in Worker : WorkerStep(w)
    \/ \E t \in Target : BackOfficeStep(t)

Spec == Init /\ [][Next]_vars

\* Time passes, the scheduler runs the worker again and again, and the row
\* locks other transactions hold are short: a run that meets none of them
\* comes back as long as runs do.
Fairness ==
    /\ \A r \in Row : WF_vars(PassExpiry(r))
    /\ \A w \in Worker : WF_vars(ListCandidates(w))
    /\ \A w \in Worker : SF_vars(ExpireCandidates(w, {}))

FairSpec == Spec /\ Fairness

-----------------------------------------------------------------------------
(***************************************************************************)
(* Properties                                                              *)
(***************************************************************************)

\* The reserved_quantity of a stock row is the sum of the quantities of its
\* live reservations: no path that ends a reservation forgets to give its
\* units back, gives them back twice or is caught by the GREATEST clamp.
HoldsMatch == \A t \in Target : reserved[t] = Sum(LiveRows, t, quantity)

\* Without allow_backorder, what is held and sold never exceeds the stock,
\* whatever checkouts, payments, expiries and recounts interleave.
NoOversell ==
    \A t \in Target \ Backorder : reserved[t] + sold[t] <= stock[t]

\* Units are counted as sold only when an order's reservation completed:
\* sold_quantity never exceeds the completed quantities.
SoldWasHeld ==
    \A t \in Target : sold[t] <= Sum(CompletedRows, t, quantity)

\* A reservation that was completed, released or expired stays what it is: the
\* worker with its old list, a second webhook and a late cancellation all
\* leave it alone.
TerminalIsFinal ==
    [][\A r \in Row : status[r] \in Terminal => status'[r] = status[r]]_vars

\* A hold on stock that stays for sale does not last for ever: it is
\* completed, released or expired.
HoldsEnd ==
    \A r \in Row : <>[](r[2] \in forSale) => (r \in LiveRows ~> r \notin LiveRows)

-----------------------------------------------------------------------------
(***************************************************************************)
(* The ledger this service keeps                                           *)
(***************************************************************************)

\* The units each order line holds, by the status of its reservation row.
HeldUnits == [r \in Row |-> IF status[r] \in Live THEN quantity[r] ELSE 0]

Ledger == INSTANCE StockLedger WITH total <- stock, held <- HeldUnits, sold <- sold

\* The counters and statuses implement the ledger: a unit is held for one
\* order at a time, sold only from a hold, and taken back only once sold.
KeepsLedger == Ledger!Spec
=============================================================================
