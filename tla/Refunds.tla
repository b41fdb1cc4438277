------------------------------ MODULE Refunds ------------------------------
(***************************************************************************)
(* The refunds of one captured payment: PaymentService.initiate_refund,    *)
(* called by administrators, against the refund webhooks of Razorpay and   *)
(* the payment webhooks that arrive late.                                  *)
(*                                                                         *)
(* initiate_refund locks the row of the payment (FOR UPDATE), asks         *)
(* Razorpay for the refund while it holds the lock, and records it in the  *)
(* same transaction.  The handler of a refund webhook reads the row of the *)
(* refund without a lock.  Inserting such a row takes a key-share lock on  *)
(* the payment, which waits for FOR UPDATE; updating it locks the row of   *)
(* the refund until the commit; updating the payment waits for FOR UPDATE. *)
(* A handler is three steps: what it reads, what it writes, the commit.    *)
(*                                                                         *)
(* Events come in any order and any number of times: the handled ones are  *)
(* marked in a second transaction, so each may come back.                  *)
(***************************************************************************)
EXTENDS Integers, FiniteSets

CONSTANTS Refund,        \* refunds Razorpay may make of this payment
          Handler,       \* webhook requests the server works on at a time
          Total,         \* the amount of the payment
          MaxDeaths      \* transactions that roll back on their own

ASSUME RefundsAssumption ==
  IsFiniteSet(Refund) /\ Total \in Nat \ {0} /\ MaxDeaths \in Nat

VARIABLES
  asked,        \* amount of each refund at Razorpay, 0: not asked for
  razorpay,     \* its state at Razorpay
  row,          \* its committed row in refunds
  payment,      \* payments.status
  payment_id,   \* the attempt payments.razorpay_payment_id names
  order,        \* orders.status and orders.payment_status
  asking,       \* calls of initiate_refund that hold the lock
  job,          \* the webhook each handler works on
  granted,      \* refunds whose initiate_refund committed
  told,         \* RefundCreatedEvents published for each refund
  deaths

vars == <<asked, razorpay, row, payment, payment_id, order, asking, job, granted, told, deaths>>

Idle == [event |-> "none"]

Busy == {h \in Handler : job[h] # Idle}

\* The SUM of the amounts of S, as a set with one element for each unit.
AmountOf(S, amounts) == Cardinality({u \in S \X (1..Total) : u[2] <= amounts[u[1]]})

Init ==
  /\ asked = [r \in Refund |-> 0]
  /\ razorpay = [r \in Refund |-> "none"]
  /\ row = [r \in Refund |-> "none"]
  /\ payment = "captured" /\ payment_id = "captured"
  /\ order = [status |-> "confirmed", payment_status |-> "paid"]
  /\ asking = {} /\ granted = {}
  /\ job = [h \in Handler |-> Idle]
  /\ told = [r \in Refund |-> 0]
  /\ deaths = 0

----------------------------------------------------------------------------
(* The administrator *)

\* The lock of the payment is free for FOR UPDATE.
Unlocked == asking = {} /\ \A h \in Busy : ~job[h].inserted

TotalRefunded == AmountOf({r \in Refund : row[r] \in {"processed", "pending"}}, asked)

Asks(r, a) ==
  /\ asked' = [asked EXCEPT ![r] = a]
  /\ razorpay' = [razorpay EXCEPT ![r] = "created"]

\* (faulty: without FOR UPDATE)
InitiateUnlocked(r, a) ==
  /\ asked[r] = 0 /\ payment = "captured" /\ a <= Total - TotalRefunded
  /\ Asks(r, a)
  /\ asking' = asking \cup {[refund |-> r, refunded |-> TotalRefunded]}
  /\ UNCHANGED <<row, payment, payment_id, order, job, granted, told, deaths>>

\* (faulty: trusts the status of the payment)
InitiateByStatus(r, a) ==
  /\ Unlocked /\ asked[r] = 0 /\ payment = "captured"
  /\ Asks(r, a)
  /\ asking' = asking \cup {[refund |-> r, refunded |-> TotalRefunded]}
  /\ UNCHANGED <<row, payment, payment_id, order, job, granted, told, deaths>>

\* initiate_refund up to the answer of Razorpay.  A request without an amount
\* asks for all of Total.  A refusal changes nothing.
Initiate(r, a) ==
  /\ Unlocked /\ asked[r] = 0
  /\ payment = "captured"
  /\ a <= Total - TotalRefunded
  /\ Asks(r, a)
  /\ asking' = asking \cup {[refund |-> r, refunded |-> TotalRefunded]}
  /\ UNCHANGED <<row, payment, payment_id, order, job, granted, told, deaths>>

\* What a refund that brings the total to t makes of payment and order.
Settle(t) ==
  LET status == IF t = Total THEN "refunded" ELSE "partially_refunded"
  IN  /\ payment' = status
      /\ order' = [status |-> IF t = Total THEN "refunded" ELSE "processing",
                   payment_status |-> status]

\* initiate_refund from the SAVEPOINT to the event.
Grant(q) ==
  /\ asking' = asking \ {q}
  /\ row' = [row EXCEPT ![q.refund] = IF @ = "none" THEN "processed" ELSE @]
  /\ Settle(q.refunded + asked[q.refund])
  /\ granted' = granted \cup {q.refund}
  /\ told' = [told EXCEPT ![q.refund] = @ + 1]
  /\ UNCHANGED <<asked, razorpay, payment_id, job, deaths>>

\* The process stops after Razorpay's answer, or the database rolls the call
\* back to break its deadlock with a webhook that inserts the same refund.
Loses(q) ==
  /\ deaths < MaxDeaths /\ deaths' = deaths + 1
  /\ asking' = asking \ {q}
  /\ UNCHANGED <<asked, razorpay, row, payment, payment_id, order, job, granted, told>>

----------------------------------------------------------------------------
(* Razorpay *)

\* A refund made in Razorpay's own dashboard.
DashboardRefund(r, a) ==
  /\ asked[r] = 0
  /\ Asks(r, a)
  /\ UNCHANGED <<row, payment, payment_id, order, asking, job, granted, told, deaths>>

Concludes(r) ==
  /\ razorpay[r] = "created"
  /\ \E s \in {"processed", "failed"} : razorpay' = [razorpay EXCEPT ![r] = s]
  /\ UNCHANGED <<asked, row, payment, payment_id, order, asking, job, granted, told, deaths>>

\* The events refund.created, refund.processed, refund.failed it has sent of r.
Reports(r) == IF razorpay[r] = "none" THEN {} ELSE {"created", razorpay[r]}

----------------------------------------------------------------------------
(* The refund webhooks *)

\* (faulty: a processed refund nobody has recorded is dropped)
HasWorkIfKnown(r, e) ==
  CASE e = "created" -> row[r] = "none" /\ payment_id = "captured"
    [] e = "processed" -> row[r] \notin {"none", "processed"}
    [] e = "failed" -> row[r] \notin {"none", "failed"}

\* A refund of the captured attempt has a row, or its payment is found.
Known(r) == row[r] # "none" \/ payment_id = "captured"

\* A handler that finds nothing to do answers at once.  A refund without a
\* row needs the payment, which is looked up by the id of the attempt that
\* Razorpay refunds: the handler raises when AttemptFailed took that id away.
HasWork(r, e) ==
  CASE e = "created" -> row[r] = "none" /\ payment_id = "captured"
    [] e = "processed" -> row[r] # "processed" /\ Known(r)
    [] e = "failed" -> row[r] \notin {"none", "failed"}

Receive(h, r, e) ==
  /\ job[h] = Idle
  /\ e \in Reports(r) /\ HasWork(r, e)
  /\ job' = [job EXCEPT ![h] = [event |-> e, refund |-> r, new |-> row[r] = "none",
                                written |-> FALSE, inserted |-> FALSE,
                                refunded |-> 0, closed |-> FALSE]]
  /\ UNCHANGED <<asked, razorpay, row, payment, payment_id, order, asking, granted, told, deaths>>

\* Another transaction has written the row of r and not committed yet.
RowLocked(r) == \E h \in Busy : job[h].refund = r /\ job[h].written

\* (faulty: there is no such index)
NoIndex(j) == TRUE

\* The unique index of refunds.razorpay_refund_id.
IndexAllows(j) == j.new => row[j.refund] = "none"

\* The statements of a handler: the row of the refund, the sum of the
\* processed ones, the status of the order.
Write(h) ==
  LET j == job[h] IN
  /\ h \in Busy /\ ~j.written
  /\ ~RowLocked(j.refund) /\ IndexAllows(j)
  /\ j.new => asking = {}
  /\ job' = [job EXCEPT ![h] =
               [j EXCEPT !.written = TRUE, !.inserted = j.new,
                         !.refunded = AmountOf({j.refund} \cup {r \in Refund : row[r] = "processed"}, asked),
                         !.closed = order.status = "refunded"]]
  /\ UNCHANGED <<asked, razorpay, row, payment, payment_id, order, asking, granted, told, deaths>>

\* The insert is refused: the handler fails and Razorpay delivers again.
Conflict(h) ==
  /\ h \in Busy /\ ~job[h].written
  /\ ~RowLocked(job[h].refund) /\ ~IndexAllows(job[h])
  /\ job' = [job EXCEPT ![h] = Idle]
  /\ UNCHANGED <<asked, razorpay, row, payment, payment_id, order, asking, granted, told, deaths>>

Committed(h, e, s) ==
  LET j == job[h] IN
  /\ h \in Busy /\ j.event = e /\ j.written
  /\ row' = [row EXCEPT ![j.refund] = s]
  /\ job' = [job EXCEPT ![h] = Idle]
  /\ UNCHANGED <<asked, razorpay, asking, granted, deaths>>

RefundCreated(h) ==
  /\ Committed(h, "created", "pending")
  /\ order' = [order EXCEPT !.status = IF job[h].closed THEN @ ELSE "processing"]
  /\ told' = [told EXCEPT ![job[h].refund] = @ + 1]
  /\ UNCHANGED <<payment, payment_id>>

RefundProcessed(h) ==
  /\ asking = {}
  /\ Committed(h, "processed", "processed")
  /\ Settle(job[h].refunded)
  /\ UNCHANGED <<payment_id, told>>

RefundFailed(h) ==
  /\ Committed(h, "failed", "failed")
  /\ UNCHANGED <<payment, payment_id, order, told>>

HandlerDies(h) ==
  /\ h \in Busy
  /\ deaths < MaxDeaths /\ deaths' = deaths + 1
  /\ job' = [job EXCEPT ![h] = Idle]
  /\ UNCHANGED <<asked, razorpay, row, payment, payment_id, order, asking, granted, told>>

----------------------------------------------------------------------------
(* The payment webhooks, late or again.  Each writes the payment first and   *)
(* the order under its lock, so that one step is enough.                     *)

\* payment.captured or order.paid: the reservations of the order are
\* COMPLETED already, which counts as fulfilled.
PaymentCaptured ==
  /\ asking = {}
  /\ payment # "captured" /\ order.payment_status # "paid"
  /\ payment' = "captured" /\ payment_id' = "captured"
  /\ order' = [status |-> "confirmed", payment_status |-> "paid"]
  /\ UNCHANGED <<asked, razorpay, row, asking, job, granted, told, deaths>>

\* payment.failed of an attempt that came before the captured one.  The id it
\* writes stays when a refund settles: only PaymentCaptured writes another.
AttemptFailed ==
  /\ asking = {}
  /\ payment # "failed"
  /\ payment' = "failed" /\ payment_id' = "failed"
  /\ order' = IF order.payment_status = "paid" THEN order
              ELSE [status |-> "payment_failed", payment_status |-> "failed"]
  /\ UNCHANGED <<asked, razorpay, row, asking, job, granted, told, deaths>>

----------------------------------------------------------------------------
Works(h) == Write(h) \/ Conflict(h) \/ RefundCreated(h) \/ RefundProcessed(h) \/ RefundFailed(h)

Next ==
  \/ \E r \in Refund, a \in 1..Total : Initiate(r, a) \/ DashboardRefund(r, a)
  \/ \E q \in asking : Grant(q) \/ Loses(q)
  \/ \E r \in Refund : Concludes(r)
  \/ \E h \in Handler, r \in Refund : \E e \in Reports(r) : Receive(h, r, e)
  \/ \E h \in Handler : Works(h) \/ HandlerDies(h)
  \/ PaymentCaptured
  \/ AttemptFailed

Spec == Init /\ [][Next]_vars

\* The server answers its requests, and Razorpay delivers a refund.processed
\* again until it is handled, whatever else keeps the handlers busy.
Fairness ==
  /\ \A r \in Refund : SF_vars(\E h \in Handler : Receive(h, r, "processed"))
  /\ \A h \in Handler : WF_vars(Works(h))
  /\ WF_vars(\E q \in asking : Grant(q))

FairSpec == Spec /\ Fairness

----------------------------------------------------------------------------
TypeOK ==
  /\ asked \in [Refund -> 0..Total]
  /\ razorpay \in [Refund -> {"none", "created", "processed", "failed"}]
  /\ row \in [Refund -> {"none", "pending", "processed", "failed"}]
  /\ payment \in {"captured", "partially_refunded", "refunded", "failed"}
  /\ payment_id \in {"captured", "failed"}
  /\ order \in [status : {"confirmed", "processing", "refunded", "payment_failed"},
                payment_status : {"paid", "partially_refunded", "refunded", "failed"}]
  /\ asking \subseteq [refund : Refund, refunded : 0..Total]
  /\ \A q, p \in asking : q = p
  /\ granted \subseteq Refund
  /\ told \in [Refund -> 0..2]
  /\ deaths \in 0..MaxDeaths
  /\ \A h \in Busy : job[h].refund \in Refund

\* Administrators never get more refunds than the payment is worth, however
\* many ask at once and whatever late webhooks do to the statuses the request
\* looks at: the refunds that were granted and have not failed fit in it.
\* (The lock and the sum in initiate_refund.)
GrantsFit == AmountOf({r \in granted : razorpay[r] # "failed"}, asked) <= Total

\* The customer is told of a refund at most once, by the request or by the
\* webhook, whichever records it.
ToldOnce == \A r \in Refund : told[r] <= 1

\* No refund is lost: what Razorpay has paid back is recorded as processed in
\* the end, also when the request that asked for it died or refund.created
\* never came, unless nobody has recorded it when a report of a failed attempt
\* takes the payment's id away.
ProcessedIsRecorded ==
  \A r \in Refund :
    (razorpay[r] = "processed" /\ Known(r)) ~> (row[r] = "processed" \/ ~Known(r))
=============================================================================
