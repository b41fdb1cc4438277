---------------------------- MODULE RefundProofs ----------------------------
(***************************************************************************)
(* Administrators grant no more than the payment is worth, and customers   *)
(* are told of a refund once, for any refunds, handlers and amounts.       *)
(***************************************************************************)
EXTENDS Refunds, FiniteSetTheorems, TLAPS

\* The refunds that count for GrantsFit.
Standing == {r \in granted : razorpay[r] # "failed"}

Job ==
  [event : {"created", "processed", "failed"}, refund : Refund, new : BOOLEAN,
   written : BOOLEAN, inserted : BOOLEAN, refunded : Nat, closed : BOOLEAN]

\* What the handlers work on.
JobTypes ==
  /\ job \in [Handler -> {Idle} \cup Job]
  /\ \A h \in Busy :
       /\ job[h].inserted <=> job[h].new /\ job[h].written
       /\ job[h].event = "created" => job[h].new
       /\ job[h].event = "failed" => ~job[h].new

\* Nobody has heard of a refund that was not asked for.
UnaskedUnknown ==
  /\ \A r \in Refund : asked[r] = 0 => razorpay[r] = "none"
  /\ \A r \in Refund : razorpay[r] = "none" => row[r] = "none" /\ r \notin granted
  /\ \A q \in asking : razorpay[q.refund] # "none"
  /\ \A h \in Busy : razorpay[job[h].refund] # "none"

\* A row of a refund that Razorpay has not refused is not written off.
StandingRecorded ==
  /\ \A r \in Standing : row[r] \in {"pending", "processed"}
  /\ \A h \in Busy : job[h].event = "failed" => razorpay[job[h].refund] = "failed"

\* A refund is recorded by one transaction at a time: the lock of the payment
\* keeps the webhooks from inserting while a request asks and the other way
\* round, and the lock of the row keeps the webhooks apart.
OneWriter ==
  /\ \A q \in asking : row[q.refund] = "none" /\ q.refund \notin granted
  /\ \A h \in Busy : job[h].inserted => asking = {} /\ row[job[h].refund] = "none"
  /\ \A h \in Busy : ~job[h].new => row[job[h].refund] # "none"
  /\ \A h, g \in Busy : job[h].written /\ job[g].written /\ job[h].refund = job[g].refund => h = g

\* What is asked for fits beside what was granted.
AskedFits == \A q \in asking : AmountOf(Standing, asked) + asked[q.refund] <= Total

\* Who was told of a refund has a row of it.
ToldRecorded == \A r \in Refund : told[r] > 0 => row[r] # "none"

IInv ==
  /\ TypeOK
  /\ JobTypes
  /\ UnaskedUnknown
  /\ StandingRecorded
  /\ OneWriter
  /\ AskedFits
  /\ GrantsFit
  /\ ToldRecorded
  /\ ToldOnce
-----------------------------------------------------------------------------
(***************************************************************************)
(* Amounts                                                                 *)
(***************************************************************************)

\* The units behind the amounts of S.
UnitsIn(S, a) == {u \in S \X (1..Total) : u[2] <= a[u[1]]}

\* Amounts are natural numbers.
LEMMA AmountType ==
    ASSUME NEW S \in SUBSET Refund, NEW a
    PROVE  /\ IsFiniteSet(UnitsIn(S, a))
           /\ AmountOf(S, a) = Cardinality(UnitsIn(S, a))
           /\ AmountOf(S, a) \in Nat
<1>1. IsFiniteSet(S)
  BY RefundsAssumption, FS_Subset
<1>2. IsFiniteSet(1..Total)
  BY RefundsAssumption, FS_Interval
<1>3. IsFiniteSet(S \X (1..Total))
  BY <1>1, <1>2, FS_Product
<1>4. IsFiniteSet(UnitsIn(S, a))
  BY <1>3, FS_Subset DEF UnitsIn
<1>5. QED
  BY <1>4, FS_CardinalityType DEF AmountOf, UnitsIn

\* Fewer refunds are worth no more.
LEMMA AmountSubset ==
    ASSUME NEW S \in SUBSET Refund, NEW T \in SUBSET S, NEW a
    PROVE  AmountOf(T, a) <= AmountOf(S, a)
<1>1. UnitsIn(T, a) \subseteq UnitsIn(S, a)
  BY DEF UnitsIn
<1>2. QED
  BY <1>1, AmountType, FS_Subset

\* Amounts of other refunds do not matter.
LEMMA AmountSame ==
    ASSUME NEW S, NEW a, NEW b, \A r \in S : a[r] = b[r]
    PROVE  AmountOf(S, a) = AmountOf(S, b)
<1>1. UnitsIn(S, a) = UnitsIn(S, b)
  BY DEF UnitsIn
<1>2. QED
  BY <1>1 DEF AmountOf, UnitsIn

\* One more refund adds its amount.
LEMMA AmountAdd ==
    ASSUME NEW S \in SUBSET Refund, NEW r \in Refund \ S, NEW a, a[r] \in 0..Total
    PROVE  AmountOf(S \cup {r}, a) = AmountOf(S, a) + a[r]
<1> DEFINE One == {r} \X (1..a[r])
<1>1. a[r] \in 0..Total
  OBVIOUS
<1>2. UnitsIn(S \cup {r}, a) = UnitsIn(S, a) \cup One
  BY <1>1, RefundsAssumption DEF UnitsIn
<1>3. UnitsIn(S, a) \cap One = {}
  BY DEF UnitsIn
<1>4. IsFiniteSet(One) /\ Cardinality(One) = a[r]
  <2> DEFINE n == a[r]
  <2>1. IsFiniteSet({r}) /\ Cardinality({r}) = 1
    BY FS_Singleton
  <2>2. n \in Nat
    BY <1>1, RefundsAssumption
  <2> HIDE DEF n
  <2>3. IsFiniteSet(1..n) /\ Cardinality(1..n) = n
    <3>1. /\ IsFiniteSet(1..n)
          /\ Cardinality(1..n) = IF 1 > n THEN 0 ELSE n - 1 + 1
      BY <2>2, FS_Interval
    <3>2. (IF 1 > n THEN 0 ELSE n - 1 + 1) = n
      BY <2>2
    <3>3. QED
      BY <3>1, <3>2
  <2>4. IsFiniteSet({r} \X (1..n)) /\ Cardinality({r} \X (1..n)) = 1 * n
    <3> DEFINE X == {r}
               Y == 1..n
    <3>1. IsFiniteSet(X) /\ Cardinality(X) = 1 /\ IsFiniteSet(Y) /\ Cardinality(Y) = n
      BY <2>1, <2>3
    <3> HIDE DEF X, Y
    <3>2. IsFiniteSet(X \X Y) /\ Cardinality(X \X Y) = Cardinality(X) * Cardinality(Y)
      BY <3>1, FS_Product
    <3>3. QED
      BY <3>1, <3>2 DEF X, Y
  <2>5. 1 * n = n
    BY <2>2
  <2>6. QED
    BY <2>4, <2>5 DEF n
<1>5. IsFiniteSet(UnitsIn(S, a)) /\ AmountOf(S, a) = Cardinality(UnitsIn(S, a)) /\ AmountOf(S, a) \in Nat
  BY AmountType
<1>6. AmountOf(S \cup {r}, a) = Cardinality(UnitsIn(S, a) \cup One)
  <2>1. S \cup {r} \in SUBSET Refund
    OBVIOUS
  <2>2. QED
    BY <1>2, <2>1, AmountType, Zenon
<1> HIDE DEF One
<1>7. Cardinality(UnitsIn(S, a) \cap One) = 0
  BY <1>3, FS_EmptySet
<1>8. Cardinality(UnitsIn(S, a) \cup One)
        = Cardinality(UnitsIn(S, a)) + Cardinality(One) - Cardinality(UnitsIn(S, a) \cap One)
  BY <1>4, <1>5, FS_Union
<1>9. AmountOf(S \cup {r}, a) = AmountOf(S, a) + a[r] - 0
  BY <1>4, <1>5, <1>6, <1>7, <1>8, Zenon
<1>10. a[r] \in Int
  BY <1>1, RefundsAssumption
<1>11. QED
  BY <1>5, <1>9, <1>10

-----------------------------------------------------------------------------
(***************************************************************************)
(* The steps                                                               *)
(***************************************************************************)

\* What Razorpay is asked for keeps the types.
LEMMA AskedTypes ==
    ASSUME TypeOK, NEW r \in Refund, NEW a \in 1..Total, Asks(r, a)
    PROVE  /\ asked' \in [Refund -> 0..Total]
           /\ razorpay' \in [Refund -> {"none", "created", "processed", "failed"}]
BY RefundsAssumption DEF TypeOK, Asks

\* The statuses a refund leaves.
LEMMA SettledTypes ==
    ASSUME NEW t, Settle(t)
    PROVE  /\ payment' \in {"captured", "partially_refunded", "refunded", "failed"}
           /\ order' \in [status : {"confirmed", "processing", "refunded", "payment_failed"},
                          payment_status : {"paid", "partially_refunded", "refunded", "failed"}]
BY DEF Settle

\* Every step keeps the types.
LEMMA TypeStep == IInv /\ [Next]_vars => TypeOK' /\ JobTypes'
<1> SUFFICES ASSUME IInv, [Next]_vars
             PROVE  TypeOK' /\ JobTypes'
  OBVIOUS
<1>0. TypeOK /\ JobTypes
  BY DEF IInv
<1>1. ASSUME NEW r \in Refund, NEW a \in 1..Total, Initiate(r, a)
      PROVE  TypeOK' /\ JobTypes'
  <2>1. TotalRefunded \in 0..Total
    <3>1. TotalRefunded \in Nat
      BY AmountType DEF TotalRefunded
    <3>2. a <= Total - TotalRefunded
      BY <1>1 DEF Initiate
    <3>3. QED
      BY <3>1, <3>2, RefundsAssumption
  <2>2. asking = {} /\ asking' = {[refund |-> r, refunded |-> TotalRefunded]}
    BY <1>1 DEF Initiate, Unlocked
  <2>3. asking' \subseteq [refund : Refund, refunded : 0..Total]
    BY <2>1, <2>2
  <2>4. \A q, p \in asking' : q = p
    BY <2>2
  <2>5. Asks(r, a) /\ UNCHANGED <<row, payment, payment_id, order, job, granted, told, deaths>>
    BY <1>1 DEF Initiate
  <2>6. QED
    BY <1>0, <2>3, <2>4, <2>5, AskedTypes DEF TypeOK, JobTypes, Busy
<1>2. ASSUME NEW r \in Refund, NEW a \in 1..Total, DashboardRefund(r, a)
      PROVE  TypeOK' /\ JobTypes'
  BY <1>0, <1>2, AskedTypes DEF DashboardRefund, TypeOK, JobTypes, Busy
<1>3. ASSUME NEW q \in asking, Grant(q)
      PROVE  TypeOK' /\ JobTypes'
  <2>1. q.refund \in Refund
    BY <1>0 DEF TypeOK
  <2>2. told' \in [Refund -> 0..2] /\ row' \in [Refund -> {"none", "pending", "processed", "failed"}]
    BY <1>0, <1>3, <2>1 DEF Grant, TypeOK, IInv, ToldOnce
  <2>3. QED
    BY <1>0, <1>3, <2>1, <2>2, SettledTypes DEF Grant, TypeOK, JobTypes, Busy
<1>4. ASSUME NEW q \in asking, Loses(q)
      PROVE  TypeOK' /\ JobTypes'
  BY <1>0, <1>4, RefundsAssumption DEF Loses, TypeOK, JobTypes, Busy
<1>5. ASSUME NEW r \in Refund, Concludes(r)
      PROVE  TypeOK' /\ JobTypes'
  BY <1>0, <1>5 DEF Concludes, TypeOK, JobTypes, Busy
<1>6. ASSUME NEW h \in Handler, NEW r \in Refund, NEW e \in Reports(r), Receive(h, r, e)
      PROVE  TypeOK' /\ JobTypes'
  <2>1. e \in {"created", "processed", "failed"}
    BY <1>0 DEF Reports, TypeOK
  <2>2. /\ e = "created" => row[r] = "none"
        /\ e = "failed" => row[r] # "none"
    BY <1>6 DEF Receive, HasWork
  <2>3. JobTypes'
    BY <1>0, <1>6, <2>1, <2>2 DEF Receive, JobTypes, Busy, Idle, Job
  <2>4. TypeOK'
    BY <1>0, <1>6, <2>3 DEF Receive, TypeOK, JobTypes, Busy, Job
  <2>5. QED
    BY <2>3, <2>4
<1>7. ASSUME NEW h \in Handler, Write(h)
      PROVE  TypeOK' /\ JobTypes'
  <2>1. h \in Busy /\ job[h].refund \in Refund
    BY <1>0, <1>7 DEF Write, TypeOK
  <2>2. AmountOf({job[h].refund} \cup {r \in Refund : row[r] = "processed"}, asked) \in Nat
    BY <2>1, AmountType
  <2> DEFINE j == job[h]
             paid == AmountOf({j.refund} \cup {r \in Refund : row[r] = "processed"}, asked)
             k == [j EXCEPT !.written = TRUE, !.inserted = j.new, !.refunded = paid,
                            !.closed = order.status = "refunded"]
  <2>3. j \in Job
    BY <1>0, <2>1 DEF JobTypes, Busy
  <2>4. job' = [job EXCEPT ![h] = k]
    BY <1>7 DEF Write
  <2> HIDE DEF j, paid
  <2>5. paid \in Nat
    BY <2>2 DEF paid, j
  <2>6. /\ job' = [job EXCEPT ![h] = k]
        /\ k \in Job
        /\ k.event = j.event /\ k.new = j.new /\ k.inserted = k.new /\ k.written
    BY <2>3, <2>4, <2>5 DEF Job
  <2> USE DEF j
  <2> HIDE DEF k
  <2>7. JobTypes'
    BY <1>0, <2>1, <2>6 DEF JobTypes, Busy
  <2>8. TypeOK'
    BY <1>0, <1>7, <2>7 DEF Write, TypeOK, JobTypes, Busy, Job
  <2>9. QED
    BY <2>7, <2>8
<1>8. ASSUME NEW h \in Handler, Conflict(h) \/ HandlerDies(h)
      PROVE  TypeOK' /\ JobTypes'
  BY <1>0, <1>8, RefundsAssumption DEF Conflict, HandlerDies, TypeOK, JobTypes, Busy
<1>9. ASSUME NEW h \in Handler, RefundCreated(h) \/ RefundProcessed(h) \/ RefundFailed(h)
      PROVE  TypeOK' /\ JobTypes'
  <2>1. JobTypes'
    BY <1>0, <1>9 DEF RefundCreated, RefundProcessed, RefundFailed, Committed, JobTypes, Busy
  <2>2. job[h].refund \in Refund
    BY <1>0, <1>9 DEF RefundCreated, RefundProcessed, RefundFailed, Committed, TypeOK
  <2>3. row' \in [Refund -> {"none", "pending", "processed", "failed"}]
    BY <1>0, <1>9, <2>2 DEF RefundCreated, RefundProcessed, RefundFailed, Committed, TypeOK
  <2>4. told' \in [Refund -> 0..2]
    BY <1>0, <1>9, <2>2 DEF RefundCreated, RefundProcessed, RefundFailed, TypeOK, IInv, ToldOnce
  <2>5. /\ payment' \in {"captured", "partially_refunded", "refunded", "failed"}
        /\ order' \in [status : {"confirmed", "processing", "refunded", "payment_failed"},
                       payment_status : {"paid", "partially_refunded", "refunded", "failed"}]
    BY <1>0, <1>9, SettledTypes DEF RefundCreated, RefundProcessed, RefundFailed, TypeOK
  <2>6. QED
    BY <1>0, <1>9, <2>1, <2>3, <2>4, <2>5
       DEF RefundCreated, RefundProcessed, RefundFailed, Committed, TypeOK, JobTypes, Busy
<1>10. CASE PaymentCaptured \/ AttemptFailed
  BY <1>0, <1>10 DEF PaymentCaptured, AttemptFailed, TypeOK, JobTypes, Busy
<1>11. CASE UNCHANGED vars
  BY <1>0, <1>11 DEF vars, TypeOK, JobTypes, Busy
<1>12. QED
  BY <1>1, <1>2, <1>3, <1>4, <1>5, <1>6, <1>7, <1>8, <1>9, <1>10, <1>11 DEF Next, Works

\* Who records a refund, who has heard of it and who was told.
Records == UnaskedUnknown /\ StandingRecorded /\ OneWriter /\ ToldRecorded /\ ToldOnce

\* A refund that is asked for now was not asked for before.
LEMMA AskRecords ==
    ASSUME IInv, NEW r \in Refund, NEW a \in 1..Total, Initiate(r, a) \/ DashboardRefund(r, a)
    PROVE  Records'
<1>1. /\ asked[r] = 0 /\ razorpay[r] = "none" /\ row[r] = "none" /\ r \notin granted
      /\ \A q \in asking : q.refund # r
      /\ \A h \in Busy : job[h].refund # r
  BY DEF IInv, UnaskedUnknown, Initiate, DashboardRefund
<1>2. /\ asked' = [asked EXCEPT ![r] = a]
      /\ razorpay' = [razorpay EXCEPT ![r] = "created"]
      /\ UNCHANGED <<row, job, granted, told>>
  BY DEF Initiate, DashboardRefund, Asks
<1>3. /\ asking' = asking \/ asking' = {[refund |-> r, refunded |-> TotalRefunded]}
      /\ asking' # asking => \A h \in Busy : ~job[h].inserted
  BY DEF Initiate, DashboardRefund, Unlocked
<1>4. \A q \in asking' : q \in asking \/ q.refund = r
  BY <1>3
<1>5. Busy' = Busy
  BY <1>2 DEF Busy
<1>6. a # 0 /\ asked \in [Refund -> 0..Total] /\ DOMAIN razorpay = Refund
  BY RefundsAssumption DEF IInv, TypeOK
<1>7. UnaskedUnknown'
  BY <1>1, <1>2, <1>4, <1>5, <1>6 DEF IInv, UnaskedUnknown
<1>8. StandingRecorded'
  BY <1>1, <1>2, <1>5, <1>6 DEF IInv, StandingRecorded, Standing
<1>9. OneWriter'
  BY <1>1, <1>2, <1>3, <1>4, <1>5 DEF IInv, OneWriter
<1>10. ToldRecorded' /\ ToldOnce'
  BY <1>2 DEF IInv, ToldRecorded, ToldOnce
<1>11. QED
  BY <1>7, <1>8, <1>9, <1>10 DEF Records

\* The request that asked for a refund is the one that records it.
LEMMA GrantRecords ==
    ASSUME IInv, NEW q \in asking, Grant(q)
    PROVE  Records'
<1> DEFINE r == q.refund
<1>1. /\ r \in Refund /\ row[r] = "none" /\ r \notin granted /\ told[r] = 0
      /\ razorpay[r] # "none"
  BY DEF IInv, TypeOK, OneWriter, ToldRecorded, UnaskedUnknown
<1>2. /\ asking' = {}
      /\ row' = [row EXCEPT ![r] = "processed"]
      /\ granted' = granted \cup {r}
      /\ told' = [told EXCEPT ![r] = 1]
      /\ UNCHANGED <<asked, razorpay, job>>
  BY <1>1 DEF Grant, IInv, TypeOK
<1>3. Busy' = Busy /\ \A h \in Busy : ~job[h].inserted
  BY <1>2 DEF Busy, IInv, OneWriter
<1>4. /\ DOMAIN row = Refund
      /\ told \in [Refund -> 0..2]
      /\ granted \subseteq Refund
  BY DEF IInv, TypeOK
<1> HIDE DEF r
<1>5. UnaskedUnknown'
  BY <1>1, <1>2, <1>3, <1>4 DEF IInv, UnaskedUnknown
<1>6. StandingRecorded'
  BY <1>1, <1>2, <1>3, <1>4 DEF IInv, StandingRecorded, Standing
<1>7. OneWriter'
  BY <1>1, <1>2, <1>3 DEF IInv, OneWriter
<1>8. ToldRecorded' /\ ToldOnce'
  BY <1>1, <1>2, <1>4 DEF IInv, ToldRecorded, ToldOnce
<1>9. QED
  BY <1>5, <1>6, <1>7, <1>8 DEF Records

\* A handler takes on an event or writes, or gives up.
LEMMA HandlerRecords ==
    ASSUME IInv, NEW h \in Handler,
           \/ \E r \in Refund : \E e \in Reports(r) : Receive(h, r, e)
           \/ Write(h)
           \/ Conflict(h)
           \/ HandlerDies(h)
    PROVE  Records'
<1>1. UNCHANGED <<asked, razorpay, row, asking, granted, told>>
  BY DEF Receive, Write, Conflict, HandlerDies
<1>2. \A g \in Busy' : g # h => g \in Busy /\ job'[g] = job[g]
  BY DEF Receive, Write, Conflict, HandlerDies, Busy, IInv, JobTypes
<1>3. h \in Busy' =>
         /\ razorpay[job'[h].refund] # "none"
         /\ job'[h].event = "failed" => razorpay[job'[h].refund] = "failed"
         /\ job'[h].inserted => asking = {} /\ row[job'[h].refund] = "none"
         /\ ~job'[h].new => row[job'[h].refund] # "none"
         /\ job'[h].written =>
               \A g \in Busy : job[g].written => job[g].refund # job'[h].refund
  <2>1. ASSUME NEW r \in Refund, NEW e \in Reports(r), Receive(h, r, e)
        PROVE  /\ job'[h].refund = r /\ job'[h].event = e
               /\ ~job'[h].inserted /\ ~job'[h].written
               /\ ~job'[h].new => row[r] # "none"
               /\ razorpay[r] # "none"
               /\ e = "failed" => razorpay[r] = "failed"
    BY <2>1 DEF Receive, Reports, IInv, JobTypes
  <2>2. CASE Write(h)
    <3>1. /\ job'[h].refund = job[h].refund /\ job'[h].event = job[h].event
          /\ job'[h].inserted = job[h].new /\ job'[h].new = job[h].new
          /\ h \in Busy
          /\ job[h].new => asking = {} /\ row[job[h].refund] = "none"
          /\ ~RowLocked(job[h].refund)
      BY <2>2 DEF Write, IndexAllows, IInv, JobTypes, Busy, Job
    <3>2. QED
      BY <3>1 DEF RowLocked, IInv, UnaskedUnknown, StandingRecorded, OneWriter
  <2>3. CASE Conflict(h) \/ HandlerDies(h)
    BY <2>3 DEF Conflict, HandlerDies, Busy, IInv, JobTypes
  <2>4. QED
    BY <2>1, <2>2, <2>3
<1>4. UnaskedUnknown'
  BY <1>1, <1>2, <1>3 DEF IInv, UnaskedUnknown
<1>5. StandingRecorded'
  BY <1>1, <1>2, <1>3 DEF IInv, StandingRecorded, Standing
<1>6. OneWriter'
  BY <1>1, <1>2, <1>3 DEF IInv, OneWriter
<1>7. ToldRecorded' /\ ToldOnce'
  BY <1>1 DEF IInv, ToldRecorded, ToldOnce
<1>8. QED
  BY <1>4, <1>5, <1>6, <1>7 DEF Records

\* A handler commits the row it alone has written.
LEMMA CommitRecords ==
    ASSUME IInv, NEW h \in Handler, RefundCreated(h) \/ RefundProcessed(h) \/ RefundFailed(h)
    PROVE  Records'
<1> DEFINE r == job[h].refund
<1>1. /\ h \in Busy /\ r \in Refund /\ job[h].written /\ razorpay[r] # "none"
      /\ UNCHANGED <<asked, razorpay, asking, granted>>
  BY DEF RefundCreated, RefundProcessed, RefundFailed, Committed, IInv, TypeOK, UnaskedUnknown
<1>2. \E s \in {"pending", "processed", "failed"} :
         /\ row' = [row EXCEPT ![r] = s]
         /\ s = "failed" => razorpay[r] = "failed"
  BY DEF RefundCreated, RefundProcessed, RefundFailed, Committed, IInv, StandingRecorded
<1>3. /\ \A g \in Busy' : g # h /\ g \in Busy /\ job'[g] = job[g]
  BY DEF RefundCreated, RefundProcessed, RefundFailed, Committed, IInv, JobTypes, Busy
<1>4. told' = told \/ (told' = [told EXCEPT ![r] = 1] /\ told[r] = 0)
  <2>1. CASE RefundCreated(h)
    <3>1. told' = [told EXCEPT ![r] = @ + 1] /\ job[h].inserted
      BY <1>1, <2>1 DEF RefundCreated, Committed, IInv, JobTypes
    <3>2. row[r] = "none"
      BY <1>1, <3>1 DEF IInv, OneWriter
    <3>3. told[r] = 0
      BY <1>1, <3>2 DEF IInv, ToldRecorded, TypeOK
    <3>4. QED
      BY <1>1, <3>1, <3>3 DEF IInv, TypeOK
  <2>2. CASE RefundProcessed(h) \/ RefundFailed(h)
    BY <2>2 DEF RefundProcessed, RefundFailed
  <2>3. QED
    BY <2>1, <2>2
<1>5. asking # {} => ~job[h].inserted /\ \A q \in asking : q.refund # r
  <2>1. asking # {} => ~job[h].inserted
    BY <1>1 DEF IInv, OneWriter
  <2>2. QED
    BY <1>1, <2>1 DEF IInv, OneWriter, JobTypes
<1>6. /\ row \in [Refund -> {"none", "pending", "processed", "failed"}]
      /\ told \in [Refund -> 0..2]
      /\ granted \subseteq Refund
  BY DEF IInv, TypeOK
<1> HIDE DEF r
<1>7. UnaskedUnknown'
  BY <1>1, <1>2, <1>3, <1>6 DEF IInv, UnaskedUnknown
<1>8. StandingRecorded'
  BY <1>1, <1>2, <1>3, <1>6 DEF IInv, StandingRecorded, Standing
<1>9. OneWriter'
  BY <1>1, <1>2, <1>3, <1>5, <1>6 DEF IInv, OneWriter, JobTypes, r
<1>10. ToldRecorded' /\ ToldOnce'
  BY <1>1, <1>2, <1>4, <1>6 DEF IInv, ToldRecorded, ToldOnce
<1>11. QED
  BY <1>7, <1>8, <1>9, <1>10 DEF Records

\* Every step keeps the records.
LEMMA RecordsStep == IInv /\ [Next]_vars => Records'
<1> SUFFICES ASSUME IInv, [Next]_vars
             PROVE  Records'
  OBVIOUS
<1>1. ASSUME NEW r \in Refund, NEW a \in 1..Total, Initiate(r, a) \/ DashboardRefund(r, a)
      PROVE  Records'
  BY <1>1, AskRecords
<1>2. ASSUME NEW q \in asking, Grant(q)
      PROVE  Records'
  BY <1>2, GrantRecords
<1>3. ASSUME NEW q \in asking, Loses(q)
      PROVE  Records'
  BY <1>3 DEF Loses, IInv, Records, UnaskedUnknown, StandingRecorded, Standing, OneWriter,
              ToldRecorded, ToldOnce, Busy
<1>4. ASSUME NEW r \in Refund, Concludes(r)
      PROVE  Records'
  <2>1. /\ \A p \in Refund : razorpay'[p] = razorpay[p]
              \/ (razorpay[p] = "created" /\ razorpay'[p] # "none")
        /\ UNCHANGED <<asked, row, asking, job, granted, told>>
    BY <1>4 DEF Concludes, IInv, TypeOK
  <2>2. \A h \in Busy : job[h].refund \in Refund
    BY DEF IInv, TypeOK
  <2>3. /\ granted \subseteq Refund
        /\ \A q \in asking : q.refund \in Refund
    BY DEF IInv, TypeOK
  <2>4. UnaskedUnknown'
    BY <2>1, <2>2, <2>3 DEF IInv, UnaskedUnknown, Busy
  <2>5. StandingRecorded'
    BY <2>1, <2>2, <2>3 DEF IInv, StandingRecorded, Standing, Busy
  <2>6. OneWriter' /\ ToldRecorded' /\ ToldOnce'
    BY <2>1 DEF IInv, OneWriter, ToldRecorded, ToldOnce, Busy
  <2>7. QED
    BY <2>4, <2>5, <2>6 DEF Records
<1>5. ASSUME NEW h \in Handler,
             \/ \E r \in Refund : \E e \in Reports(r) : Receive(h, r, e)
             \/ Write(h) \/ Conflict(h) \/ HandlerDies(h)
      PROVE  Records'
  BY <1>5, HandlerRecords
<1>6. ASSUME NEW h \in Handler, RefundCreated(h) \/ RefundProcessed(h) \/ RefundFailed(h)
      PROVE  Records'
  BY <1>6, CommitRecords
<1>7. CASE PaymentCaptured \/ AttemptFailed \/ UNCHANGED vars
  BY <1>7 DEF PaymentCaptured, AttemptFailed, vars, IInv, Records, UnaskedUnknown,
              StandingRecorded, Standing, OneWriter, ToldRecorded, ToldOnce, Busy
<1>8. QED
  BY <1>1, <1>2, <1>3, <1>4, <1>5, <1>6, <1>7 DEF Next, Works

-----------------------------------------------------------------------------
(***************************************************************************)
(* What was granted fits in the payment                                    *)
(***************************************************************************)

\* What a request finds recorded covers all that was granted and not refused.
LEMMA RecordedCovers ==
    ASSUME IInv
    PROVE  /\ Standing \in SUBSET Refund
           /\ AmountOf(Standing, asked) \in Nat
           /\ TotalRefunded \in Nat
           /\ AmountOf(Standing, asked) <= TotalRefunded
<1> DEFINE Recorded == {r \in Refund : row[r] \in {"processed", "pending"}}
<1>1. Standing \in SUBSET Recorded /\ Recorded \in SUBSET Refund /\ Standing \in SUBSET Refund
  BY DEF IInv, TypeOK, StandingRecorded, Standing
<1> HIDE DEF Recorded
<1>2. AmountOf(Standing, asked) <= AmountOf(Recorded, asked)
  BY <1>1, AmountSubset
<1>3. TotalRefunded = AmountOf(Recorded, asked)
  BY DEF TotalRefunded, Recorded
<1>4. QED
  BY <1>1, <1>2, <1>3, AmountType

\* Fewer standing refunds and no new request leave the room there was.
LEMMA FewerStanding ==
    ASSUME IInv, asking' \subseteq asking, Standing' \subseteq Standing,
           \A r \in granted \cup {q.refund : q \in asking} : asked'[r] = asked[r]
    PROVE  AskedFits' /\ GrantsFit'
<1>1. Standing \in SUBSET Refund /\ Standing' \in SUBSET Standing /\ Standing \subseteq granted
  BY RecordedCovers DEF Standing
<1>2. AmountOf(Standing', asked') = AmountOf(Standing', asked)
  BY <1>1, AmountSame
<1>3. AmountOf(Standing', asked) <= AmountOf(Standing, asked)
  BY <1>1, AmountSubset
<1>4. AmountOf(Standing', asked) \in Nat /\ AmountOf(Standing, asked) \in Nat
  BY <1>1, AmountType
<1>5. GrantsFit <=> AmountOf(Standing, asked) <= Total
  BY DEF GrantsFit, Standing
<1>6. GrantsFit' <=> AmountOf(Standing', asked') <= Total
  BY DEF GrantsFit, Standing
<1>7. GrantsFit'
  BY <1>2, <1>3, <1>4, <1>5, <1>6, RefundsAssumption DEF IInv
<1>8. ASSUME NEW q \in asking'
      PROVE  AmountOf(Standing', asked') + asked'[q.refund] <= Total
  <2>1. q \in asking /\ asked'[q.refund] = asked[q.refund] /\ asked[q.refund] \in Nat
    BY RefundsAssumption DEF IInv, TypeOK
  <2>2. AmountOf(Standing, asked) + asked[q.refund] <= Total
    BY <2>1 DEF IInv, AskedFits
  <2>3. QED
    BY <1>2, <1>3, <1>4, <2>1, <2>2, RefundsAssumption
<1>9. QED
  BY <1>7, <1>8 DEF AskedFits

\* Every step keeps the room that was found under the lock.
LEMMA AmountsStep == IInv /\ [Next]_vars => AskedFits' /\ GrantsFit'
<1> SUFFICES ASSUME IInv, [Next]_vars
             PROVE  AskedFits' /\ GrantsFit'
  OBVIOUS
<1>0. /\ asked \in [Refund -> 0..Total]
      /\ granted \subseteq Refund
      /\ \A q \in asking : q.refund \in Refund
      /\ \A q, p \in asking : q = p
  BY DEF IInv, TypeOK
<1>1. ASSUME NEW r \in Refund, NEW a \in 1..Total, Initiate(r, a)
      PROVE  AskedFits' /\ GrantsFit'
  <2>1. r \notin granted /\ asking = {}
    BY <1>1 DEF IInv, UnaskedUnknown, Initiate, Unlocked
  <2>2. /\ asked' = [asked EXCEPT ![r] = a] /\ granted' = granted
        /\ razorpay' = [razorpay EXCEPT ![r] = "created"]
        /\ asking' = {[refund |-> r, refunded |-> TotalRefunded]}
        /\ a <= Total - TotalRefunded
    BY <1>1, <2>1 DEF Initiate, Asks
  <2>3. Standing' = Standing /\ Standing \subseteq granted
    BY <1>0, <2>1, <2>2 DEF Standing
  <2>4. AmountOf(Standing', asked') = AmountOf(Standing, asked)
    <3>1. \A p \in Standing : asked'[p] = asked[p]
      BY <1>0, <2>1, <2>2, <2>3
    <3>2. AmountOf(Standing, asked') = AmountOf(Standing, asked)
      BY <3>1, AmountSame
    <3>3. QED
      BY <2>3, <3>2
  <2>5. /\ AmountOf(Standing, asked) \in Nat /\ TotalRefunded \in Nat
        /\ AmountOf(Standing, asked) <= TotalRefunded
    BY RecordedCovers
  <2>6. AmountOf(Standing, asked) + a <= Total /\ AmountOf(Standing, asked) <= Total
    BY <2>2, <2>5, RefundsAssumption
  <2>7. \A q \in asking' : asked'[q.refund] = a
    BY <1>0, <2>2
  <2>8. AskedFits'
    BY <2>4, <2>6, <2>7 DEF AskedFits
  <2>9. GrantsFit'
    <3>1. GrantsFit' <=> AmountOf(Standing', asked') <= Total
      BY DEF GrantsFit, Standing
    <3>2. QED
      BY <2>4, <2>6, <3>1
  <2>10. QED
    BY <2>8, <2>9
<1>2. ASSUME NEW r \in Refund, NEW a \in 1..Total, DashboardRefund(r, a)
      PROVE  AskedFits' /\ GrantsFit'
  <2>1. /\ r \notin granted /\ \A q \in asking : q.refund # r
        /\ asked' = [asked EXCEPT ![r] = a] /\ granted' = granted /\ asking' = asking
        /\ razorpay' = [razorpay EXCEPT ![r] = "created"]
    BY <1>2 DEF DashboardRefund, Asks, IInv, UnaskedUnknown
  <2>2. Standing' \subseteq Standing
    BY <1>0, <2>1 DEF Standing, IInv, TypeOK
  <2>3. \A p \in granted \cup {q.refund : q \in asking} : asked'[p] = asked[p]
    BY <1>0, <2>1
  <2>4. QED
    BY <2>1, <2>2, <2>3, FewerStanding
<1>3. ASSUME NEW q \in asking, Grant(q)
      PROVE  AskedFits' /\ GrantsFit'
  <2> DEFINE r == q.refund
  <2>1. asking' = {} /\ asked' = asked /\ razorpay' = razorpay /\ granted' = granted \cup {r}
    BY <1>0, <1>3 DEF Grant
  <2>2. r \in Refund /\ r \notin granted
    BY <1>0 DEF IInv, OneWriter
  <2>3. AmountOf(Standing, asked) + asked[r] <= Total
    BY DEF IInv, AskedFits
  <2>4. Standing \in SUBSET Refund /\ r \notin Standing
    BY <2>2, RecordedCovers DEF Standing
  <2>5. Standing' = Standing \/ Standing' = Standing \cup {r}
    BY <2>1 DEF Standing
  <2>6. asked[r] \in Nat /\ asked[r] \in 0..Total /\ AmountOf(Standing, asked) \in Nat
    BY <1>0, <2>2, RecordedCovers, RefundsAssumption
  <2> HIDE DEF r
  <2>7. AmountOf(Standing \cup {r}, asked) = AmountOf(Standing, asked) + asked[r]
    BY <2>2, <2>4, <2>6, AmountAdd
  <2>8. AmountOf(Standing', asked') <= Total
    <3>0. asked' = asked
      BY <2>1
    <3>1. CASE Standing' = Standing
      <4>1. AmountOf(Standing', asked') = AmountOf(Standing, asked)
        BY <3>0, <3>1, Zenon DEF AmountOf
      <4>2. QED
        BY <4>1, <2>3, <2>6, RefundsAssumption
    <3>2. CASE Standing' = Standing \cup {r}
      <4>1. AmountOf(Standing', asked') = AmountOf(Standing \cup {r}, asked)
        BY <3>0, <3>2, Zenon DEF AmountOf
      <4>2. QED
        BY <4>1, <2>3, <2>7
    <3>3. QED
      BY <2>5, <3>1, <3>2
  <2>9. GrantsFit' <=> AmountOf(Standing', asked') <= Total
    BY DEF GrantsFit, Standing
  <2>10. QED
    BY <2>1, <2>8, <2>9 DEF AskedFits
<1>4. ASSUME NEW r \in Refund, Concludes(r)
      PROVE  AskedFits' /\ GrantsFit'
  <2>1. Standing' \subseteq Standing /\ asking' = asking /\ asked' = asked
    BY <1>0, <1>4 DEF Concludes, Standing, IInv, TypeOK
  <2>2. QED
    BY <2>1, FewerStanding
<1>5. CASE /\ UNCHANGED <<asked, razorpay, granted>>
           /\ asking' \subseteq asking
  <2>1. Standing' = Standing
    BY <1>5 DEF Standing
  <2>2. QED
    BY <1>5, <2>1, FewerStanding
<1>6. QED
  BY <1>1, <1>2, <1>3, <1>4, <1>5 DEF Next, Works, Loses, Receive, Write, Conflict, RefundCreated,
     RefundProcessed, RefundFailed, Committed, HandlerDies, PaymentCaptured, AttemptFailed, vars

-----------------------------------------------------------------------------
\* The inductive invariant holds at the start.
LEMMA InitIInv == Init => IInv
<1> SUFFICES ASSUME Init
             PROVE  IInv
  OBVIOUS
<1>1. Busy = {}
  BY DEF Init, Busy
<1>2. TypeOK
  BY <1>1, RefundsAssumption DEF Init, TypeOK
<1>3. JobTypes /\ UnaskedUnknown /\ StandingRecorded /\ OneWriter /\ AskedFits /\ ToldRecorded /\ ToldOnce
  BY <1>1 DEF Init, JobTypes, UnaskedUnknown, StandingRecorded, Standing, OneWriter, AskedFits,
     ToldRecorded, ToldOnce, Busy
<1>4. GrantsFit
  <2>1. UnitsIn({}, asked) = {} /\ {} \in SUBSET Refund
    BY DEF UnitsIn
  <2>2. AmountOf({}, asked) = 0
    BY <2>1, AmountType, FS_EmptySet
  <2>3. {r \in granted : razorpay[r] # "failed"} = {}
    BY DEF Init
  <2>4. QED
    BY <2>2, <2>3, RefundsAssumption DEF GrantsFit
<1>5. QED
  BY <1>2, <1>3, <1>4 DEF IInv

\* The inductive invariant holds always.
LEMMA Invariance == Spec => []IInv
<1>1. IInv /\ [Next]_vars => IInv'
  BY TypeStep, RecordsStep, AmountsStep DEF IInv, Records
<1>2. QED
  BY <1>1, InitIInv, PTL DEF Spec

\* Every reachable state is typed: a request never finds more refunded than
\* the payment is worth.
THEOREM RefundTypes == Spec => []TypeOK
<1>1. IInv => TypeOK
  BY DEF IInv
<1>2. QED
  BY <1>1, Invariance, PTL

\* Administrators never get more refunds than the payment is worth.
THEOREM RefundsFit == Spec => []GrantsFit
<1>1. IInv => GrantsFit
  BY DEF IInv
<1>2. QED
  BY <1>1, Invariance, PTL

\* The customer is told of a refund at most once.
THEOREM RefundToldOnce == Spec => []ToldOnce
<1>1. IInv => ToldOnce
  BY DEF IInv
<1>2. QED
  BY <1>1, Invariance, PTL
=============================================================================
