# Verification of Hadha

TLA+ models of the parts of this shop where several actors write the same
rows: stock and its reservations, orders, payments and refunds, coupons,
notifications, images; and of the parts of its frontends where requests,
timers and browser tabs race: the checkout page, the bus between the tabs, the
HTTP client. TLC checks them on small instances, TLAPS proves what matters most
for every instance.

Contents: [inventory](#1-the-system), [models](#2-the-modules),
[runs](#3-the-runs), [findings](#4-where-the-code-and-its-comments-disagree),
[proofs](#5-what-is-proved), [what is left out](#6-what-is-not-modelled),
[plan](#7-plan).

Paths are relative to `Backend/app/` unless they say otherwise; `storefront/`,
`admin/` and `packages/` are in `Frontend_whole/`.

## 1. The system

Hadha is a FastAPI backend over PostgreSQL and Redis, with Celery workers, the
payment provider Razorpay, and two React frontends. Each HTTP request, each
webhook and each worker run is a database transaction (sometimes two) under
READ COMMITTED: what a transaction has read without `FOR UPDATE` can be out of
date when it writes. That is where nearly all the difficulty is.

| component | state it keeps | operations | talks to |
|---|---|---|---|
| Inventory reservations (`modules/inventory`) | `stock_quantity`, `reserved_quantity`, `sold_quantity` of products and variants; reservation rows with status, quantity and `expires_at` | reserve, link, lock for checkout, complete, release, expire, restock, return, adjust | called by orders, webhooks, the expiry worker and the back office, inside their transactions |
| Orders and checkout (`modules/orders`) | `orders.status`, `orders.payment_status`, payment rows, coupon and Razorpay ids | create payment intent, verify and fulfil, cancel (customer, administrator), change status | inventory, coupons, Razorpay, events |
| Webhooks (`modules/webhooks`) | stored events with a status | `payment.captured`, `order.paid`, `payment.failed`, `refund.*` | orders, inventory, coupons, events |
| Payments (`modules/payments`) | payment rows, refund rows | initiate refund | Razorpay, orders |
| Coupons (`modules/coupons`) | usage counters and usage rows | validate, reserve, finalize, revert | called by checkout, payment paths, the expiry worker |
| Returns (`modules/returns`) | return requests over order items | request, decide | orders |
| Fulfillment (`modules/fulfillment`) | shipment and its stages | confirm payment, pack, label, dispatch, deliver | orders, events |
| Notifications (`modules/notifications`) | a log of messages with attempts | dispatch on events, retry sweep | providers, Redis lock |
| Media (`modules/media`, `workers/media_generation.py`) | images, crops, generated variants with versions | upload, crop, replace, generate | Celery, storage |
| Response cache (`core/cache.py`) | Redis entries with a soft and a hard lifetime, a local fallback | get or fetch, stale-while-revalidate, bust | every read endpoint |
| Events (`core/events.py`, `core/pubsub.py`) | subscriber queues | publish after commit, Redis fan-out, SSE | notifications, frontends |
| Authentication (`modules/auth`) | admin sessions, second factor | sign in, verify, expire | Redis, JWKS |
| CMS (`modules/cms`) | drafts, published versions, schedule | edit, publish, roll back | cache, worker |
| Catalog | products, variants, `is_active`, `deleted_at` | CRUD, search | what is for sale decides what reservations can lock |
| Checkout page (`storefront/src/routes/checkout.tsx`) | the step of the checkout (global), the intent and the guard of each mount, the cart and buy-now stores, the customer's cart on the server | place, pay, verify, retry, dismiss, expire, leave, reload | orders, cart, Razorpay's modal, timers |
| API client (`packages/shared-api/src/lib/api/client.ts`) | attempts of a request | send with a timeout, retry, refresh the token after a 401 | every endpoint; the query layer runs a GET again |
| Sync bus and tabs (`packages/shared-api/src/lib/sync`, `AuthProvider.tsx`) | versions seen of each tab; the session and the query cache of a tab | emit, broadcast, receive, invalidate, clear; sign in and out | the other tabs, the event stream, Supabase |
| the other pages, the admin application | forms and dialogs over queries | read, edit, save | HTTP, the cache of queries |
| the rest | single rows each | CRUD, reports | |

### What is hard, and what would make it right

* **One product, many buyers.** Checkouts, payments, releases, expiries and
  recounts change three counters of one row. Right means: the counters say what
  the reservation rows say, nothing is promised twice, nothing is sold that was
  not held, and a reservation that has ended stays ended.
* **A worker with an old list.** `expire_stale_reservations` lists rows without
  a lock and takes the locks afterwards. Right means: it acts on what the row is
  when it has the lock.
* **Orders are not locked.** Payment, failure, cancellation and expiry read the
  order, decide, and write later. Right means: a paid order stays paid, an
  order that ended holds nothing, stock leaves only against money.
* **Razorpay reports in any order and repeatedly**, after the frontend has
  already verified or the worker has already expired the order. Right means:
  money that was captured is recorded; a second report changes nothing.
* **The checkout is two transactions with a remote call between them.** The
  server can stop there. Right means: the order and its units come free.
* **A coupon is redeemed before its order exists.** Its usage row has no order id
  until the order is paid, and every way an order ends takes the row back. Right
  means: the limits hold, the counter covers the rows, and a revert takes the row
  of its own order.
* **A refund is made at Razorpay before it is recorded here**, and is reported by
  three events in any order, twice, two at a time. Right means: administrators
  never grant more than was captured, nothing that was paid back stays
  unrecorded, the customer is told once.
* **A message is sent without a transaction, an image is made by a process that
  may be killed.** Right means: a message goes out once unless something was
  lost, a retry ends; a ready image shows what was asked for last, and a browser
  never sees old bytes under a new address.
* **The page outlives its requests and the requests outlive the page.** Answers,
  timers and modals of one mount meet the next. Right means: what is ordered is
  what was shown, and nothing stays busy with no request in flight.
* **Tabs share a session and not a cache.** Right means: no event is lost between
  them, none shows one customer what another one fetched, and a request that
  was in flight does not undo the news.
* **A request is repeated by three layers.** Right means: a change is made at
  most once, and "nobody is signed in" means that it was not made.

`PROJECT.json` lists the hazards one by one with the line where each bites.

## 2. The modules

```
Units            order lines, sums over lines
 |-- StockLedger        what the inventory promises (abstract)
 |-- Reservation        the reservation service and the expiry worker
 |     |-- MCReservation
 |     `-- ReservationProofs  its counters; it implements StockLedger, and what that is worth
 |-- Checkout           orders, webhooks, Razorpay, over Reservation
 |     |-- MCCheckout
 |     `-- CheckoutCoupons    Checkout and Coupons in the same transactions
 |           |-- MCCheckoutCoupons
 |           `-- CheckoutProofs   both of them
Coupons          the usage of a coupon

Refunds               -- MCRefunds            refunds of one payment
 `-- RefundProofs
NotificationRetry     -- MCNotificationRetry  delivery of messages
 `-- NotificationRetryProofs
ImageGeneration       -- MCImageGeneration    variants of one image
 `-- ImageGenerationProofs
CheckoutPage          -- MCCheckoutPage       the page, its requests, the server's cart
 `-- CheckoutPageProofs
SyncBus               the bus between tabs
 `-- Tabs             -- MCTabs               sessions and caches of the tabs
       `-- TabsProofs
ApiClient             -- MCApiClient          one request and its retries
 `-- ApiClientProofs
```

**Units.** A *line* is an order and a *target*, the product or variant row that
owns the stock (`_lock_stock_target` picks the variant row when there is one).
`Sum(L, t, q)` is the sum of the quantities of a set of lines at one target,
written as the cardinality of a set of units, so that no recursion is needed.

**Reservation** models `modules/inventory/reservation_service.py` and
`tasks/inventory.py`. A reservation row is a line; its `status` is `"none"`
before the insert. Each action is one database transaction or one call inside
the caller's transaction: all of these take the stock row and the reservation
rows `FOR UPDATE` before they decide, so a call is atomic with respect to the
others. What is *not* atomic is kept apart:

| action | code |
|---|---|
| `ReserveItems` | `reserve_items`, `link_reservations_to_order`, and the release of the customer's stale orders before it in the same transaction; all lines or none |
| `LockForCheckout` | `lock_for_checkout` |
| `CompleteOrder`, `RefundRequired` | `complete_order_reservations`, `complete_reservations_for_order` |
| `ReleaseOrder` | `release_order_reservations` with its reasons |
| `ReleaseAndReturn` | release, then `record_return` for each item (`_restock_cancelled_order`) |
| `ListCandidates`, `ExpireCandidates` | the unlocked `SELECT ... LIMIT 500` of `expire_stale_reservations`, and later its locked batch with `SKIP LOCKED` |
| `PassExpiry` | time reaches `expires_at`; expiry is the only thing time does here, so the clock is a set of overdue rows |
| `RecordRestock`, `RecordReturn`, `RecordAdjustment` | the back office |
| `SetForSale` | a product is archived, deleted or put back: `_lock_stock_target` finds only active ones |

The clamps (`GREATEST(reserved - q, 0)`, `max(0, ...)`) are in the model, since a
clamp that bites hides an error that has already happened.

**StockLedger** is the abstract specification: how many units each order holds
and how many are sold. It has no reserved counter, no statuses, no expiry, no
worker. Its actions are holding a cart (all of it or nothing), selling what is
held, giving back, and recounting. `Reservation!Ledger` maps `held` to the
quantity of live rows.

**Checkout** models `modules/orders/service.py` and the payment handlers of
`modules/webhooks/service.py` over `R == INSTANCE Reservation`. A request
(`verify_and_fulfill`, `_process_payment_captured`, `_on_payment_failed`, the
cancellations) is two steps: *Begin* takes the unlocked reads and early
returns, *Commit* the writes, which in the code happen in one transaction and
become visible together. Between the two, other requests commit; that is what
READ COMMITTED allows. `create_payment_intent` is `CreateIntent` (first
transaction; an advisory lock on the customer makes it atomic), the remote
call, and then `IntentSucceeds`, `IntentFails` or `IntentLost` (the server
stops, or the second transaction is refused). `RequestDies` is a request whose
transaction rolls back, for whatever reason.

Razorpay is external. `PaymentCaptured` and `AttemptFails` are what happens
there; it knows an order once `razorpay_order_id` is committed, and it may
deliver any event again at any time (the event store in the code suppresses a
repetition only after it has been processed; each handler must be safe without
it).

**Coupons** models the usage of one capped coupon (`modules/coupons`).
`pending` and `linked` are the rows of `coupon_usages` without and with an order
id, `usageCount` is the counter. `ApplyAndReserve` checks both limits again under
the lock on the coupon row (`validate` has read them before without a lock; the
object it loaded is no longer referenced, so the locked query reads the row
anew). `FinalizeUsage` writes the order id into every pending row of the
customer; the unique constraint refuses a second row with that id.
`RevertUsages` deletes the row of the order or, when there is none, all pending
rows of the customer, and takes one off the counter.

**CheckoutCoupons** puts the two together. It extends `Checkout`: the actions that
touch a usage add it to the action of the same name (`CreateIntentWithCoupon` and so
on), the others are taken as they are (`CheckoutOnly`). `CreateIntentWithCoupon`
reserves the usage in its first transaction; the commits that confirm an order finalize
it, those that fail or cancel it revert it. The worker reverts the usages of the orders it has
expired in a second transaction (`RevertExpired`), and can stop before it
(`RevertLost`). `IntentFails` and the stale orders of `CreateIntent` leave the
usage as it is, because the code does.

**Refunds** models `PaymentService.initiate_refund` and the refund events of
`modules/webhooks/service.py` for one captured payment. `Initiate` takes the row
lock and asks Razorpay, `Grant` records and commits under the lock, `Loses` is a
request that dies in between (the money is gone, nothing is recorded). A webhook
request is three steps: `Receive` reads the row without a lock, `Write` waits for
the locks it needs (`RowLocked`, `IndexAllows`: an insert waits for the payment's
lock and meets the unique index), `Committed` publishes. `HandlerDies` rolls it
back. `DashboardRefund` and `Concludes` are Razorpay. `PaymentCaptured` and
`AttemptFailed` are payment events that come late and overwrite the statuses and
`razorpay_payment_id` (`payment_id`). By that id a refund without a row finds its
payment (`Known`); a refund that is recorded later puts the status right and not the id.

**NotificationRetry** models the delivery of a row of `notification_logs`
(`modules/notifications`, `tasks/notifications.py`). Each attempt is a commit, a
call of the provider, and a record in a new session; between these, processes
are killed (`SenderDies`, `Killed`). The record of `sent` is inside the `try` around
the call: if it raises, before its commit or after it, the `except` clause records a failure
of the message (`SenderRecordRaises`, `SweepRecordRaises`, `AdminRecordRaises`). If the
record of a failure raises too, the attempt is dropped (`SenderDies`, `AdminFails`, `Raises`).
The sweep runs under a lock in Redis that
expires (`Start`, `Tick`, `Finish`); `StartUnguarded` is the sweep with Redis out
of order and the one `POST /admin/notifications/retry` runs, neither of which has
the lock. `Provider` answers: sent; failed; refused (a configuration error); or
*silent*, a failure whose exception has no text, as an httpx timeout, of which
`_update_log_status` records nothing. `copies` counts the messages taken, less the
reasons there were to send another. Templates exist and WhatsApp is on; the
provider's delivery reports are left out; the soft time limit of Celery inside
`_retry_log` is a failure that is recorded.

**ImageGeneration** models `modules/media` and `workers/media_generation.py` for
one image. A handler (crop, replace, regenerate, delete) computes with what it
loaded (`Load`) and saves later; a worker claims (`Claim`, the conditional
UPDATE), makes one variant after the other in storage (`PutVariant`), and writes
the status (`Finish`) or fails (`Fail`, with `MAX_ATTEMPTS`) or is killed (`Kill`);
`Reclaim` is the sweep that puts what a dead worker left back to pending. The task a
request queues and the sweep of beat both are a `Claim`.

**CheckoutPage** models `checkout.tsx` with its stores. The step is global, the
refs belong to a mount (`intent[m]`, `verifying[m]`), and a request keeps the refs
of the mount that started it. An *attempt* is the sequence of requests of one
click: save the cart (buy-now), delete the server's cart, post the lines, create
the payment, restore, load the script, open the modal; each can fail at each step. A DELETE
or POST whose answer is lost, and the other POSTs of a `Promise.all` that was given up, have
been carried out, still are at some later time, or never (`RequestFails`, `strays`). With no lines, as when a
failed payment is tried again after the cart was emptied, `Promise.all([])` is done at
once and the order is asked for as it is (`Emptied`). Modals, the 30 s timer,
the countdown, the answers to verify-payment, leaving and reloading interleave
with all of it. So does the end of the session, which clears the stores and leaves the page
(`SignOut`: `AuthCleanup` of `routes/__root.tsx` and `ProtectedRoute`); the requests that are
under way go on. The server is one cart and the orders it holds.

**SyncBus** models `SyncBus.ts`: each tab numbers what it emits, a message carries
the number, and a receiver drops what is not above the last number seen of that
tab. **Tabs** puts on it the session of Supabase, which the tabs share, what each
tab believes of it (`auth`), and one query of the customer that is on the screen of
every tab: what it shows (`cache`), what it is fetching, and what it was told
(`news`). Events with one effect are one kind. A fetch reads the server when it
starts, the worst case for freshness.

**ApiClient** models `request` of `client.ts` and the retries of
`createAppQueryClient` in `storefront/src/router.tsx`: the loop, the timeout, the
second call after a 401, and a server that may do what was asked though its answer
is lost (`ServesLate`). A server that did it may refuse all the same (`Serves`:
`create_payment_intent` commits the order and then answers 422), one that did nothing may
say that it did (`Refuses`: `get_db` commits when the session closes), and the client may
reject what was answered with a 2xx (`AnswerArrives`). A 401 alone comes before the
handler, from the dependency that reads the token, or with a transaction that is rolled back.

## 3. The runs

| run | asks | bounds | states |
|---|---|---|---|
| `contention` | `HoldsMatch`, `NoOversell`, `SoldWasHeld`, `TerminalIsFinal`, `KeepsLedger` | 2 orders of up to 2 units, stock up to 3, 2 overlapping worker runs, batch limit 1 | 9,178 |
| `races` | `TypeOK`, `EndedHoldsNothing`, `PaidNeverExpired`, `SoldMeansCaptured`, `ConfirmedWithItsStock`, `KeepsReservation` | 1 order of up to 2 products, one of which can leave the shop; 2 requests in flight, worker, clock | 79,556 |
| `ends` | `HoldsEnd`, `ReservedEnds` (under `FairSpec`) | 1 order of up to 2 products, 1 request | 7,606 |
| `coupons` | `EndedHoldsNothing`, `CountMatches`, `WithinLimits`, `LinkedIsConfirmed`, `KeepsCoupons` | 2 orders of one customer of up to 2 units, stock up to 3, a coupon that can be used once, 1 request, 1 worker, `MCOneFailure` | 1,400,054 |
| `refunds` | `TypeOK`, `GrantsFit`, `ToldOnce`, `ProcessedIsRecorded` (fair) | 2 refunds of a payment of 2, 2 webhook requests at a time, 1 rollback | 206,456 |
| `notifications` | `TypeOK`, `OneSend`, `RetryEnds` (fair) | 2 messages, 2 processes, a limit of 1 and a lock of 2, 3 attempts, `MCMishaps` | 397,968 |
| `images` | `TypeOK`, `CalmShowsLatest`, `CalmOneWorker`, `Settles` (fair) | 2 breakpoints, 2 requests of any kind, 2 workers, 2 attempts, 1 killed, `MCCalm` | 401,547 |
| `page` | `TypeOK`, `OrdersWhatItShowed`, `BusyHasRequest` | 2 products, 2 mounts, 1 order, 1 attempt at a time, `MCStrays` | 1,280,225 |
| `tabs` | `NoEventLost`, `OwnDataOnly`, `FreshAfterNews` | 2 tabs, 2 customers, 2 events, 1 change of the data | 770,931 |
| `requests` | `AtMostOnce`, `UnauthorizedMeansUndone`, `Settles` (fair) | a GET and a POST, 2 retries, 2 runs again | 13,320 |
| `dropped` | `CapturedIsRecorded` (fair) | 1 order, 1 request | violated, see section 4 |
| `downgraded` | `PaidStaysPaid` | 1 order, 2 requests | violated, see section 4 |

All but the last two hold. Each property has one mutant of the model that breaks it;
the mutated operators stand before the ones they mutate, marked "faulty".

**Why the bounds are enough.** Two orders are the least that contend for a
unit and three units the least where one is sold, one held and one free;
quantities of two let a release, a return or a recount be off by one without
reaching zero. Two worker runs overlap when Celery starts one before the last
has ended. A batch limit of 1 makes the `LIMIT` matter with two rows. Two
requests are the least that interleave Begin and Commit; a third would have to
interfere with two others at once, and every handler looks only at one order.
One order suffices in `races` because orders interact through stock only,
which `contention` and the proofs cover for any number; `coupons` has the one
place where an order writes another (a second checkout ends the first) and the one
where a coupon row of one order can be taken for that of another (two orders of one
customer; a third adds no new kind of row). What the proofs cover needs no bound.
Two refunds are the least whose sum matters and two handlers the least that
overlap. For messages, two processes are the least that overlap and two rows the
least where one is listed while the other is sent; a limit of 1 and a lock of 2
keep the order of 120 s and 150 s, the only thing about them that the steps can
tell. In `images` a second request is the least that meets the result of the first.
In `page` the second mount meets what the first has left; one order and one
attempt at a time leave out two orders that are both open, which no handler
compares. Two tabs and two customers are the least for a leak, and the bounds of
`tabs` are lifted by the proofs.

**Bounds of the model**, each named where it is used: `MaxStock` (restocking
stops there), `MaxQuantity`, `BatchLimit` (500 in the code), `Delistable` (the
targets that may leave the shop), `MCOneFailure` (in `coupons` payment attempts
fail for the first order only), `MaxDeaths`, `MaxMishaps` and `MaxKills` (what
goes wrong on its own), `MaxMounts`, `MaxUnits` (in the server's cart), `MaxEvents`,
`MaxData`, `MCStrays` (no request of an abandoned attempt is still on its way when a
payment opens or the page is mounted again), `MCMishaps` (one mishap, taken without loss of
generality at the first row and process, which nothing tells from the others, and
after it only a record of the administrator's retry that raises), `MCFewEvents`, `MCCalm` (a behaviour
is followed until a request overlaps a generation or another request: `Settles` is
about the calm ones), one capture and one failed attempt per
order, and an order id that is used once.

**Deadlock checking is off**: when every order has ended and no stock moves,
the shop is idle. Symmetry is used only in runs without a liveness property
and over sets that nothing distinguishes (orders in `contention`, requests in
`races`, products in `page`, tabs and customers in `tabs`). A page and its tabs
come to rest as well, and a request has an end, so deadlock checking is off there
for the same reason.

### Properties

* `HoldsMatch`: `reserved_quantity` equals the sum of the live reservations, so
  the clamps never bite.
* `NoOversell`: held plus sold stays within the stock, for every target
  without `allow_backorder`.
* `SoldWasHeld`: `sold_quantity` never exceeds the completed reservations; a
  second completion of the same order sells nothing.
* `TerminalIsFinal`: no step changes a reservation that ended.
* `KeepsLedger`: every step of the service is a step of `StockLedger` or
  leaves the ledger alone.
* `KeepsReservation`: every step of the checkout calls the reservation service
  as `Reservation.tla` has it, or leaves it alone; so what is checked and proved
  of `Reservation` holds in the checkout.
* `EndedHoldsNothing`: a confirmed, cancelled or failed order has no live
  reservation on stock that can be locked.
* `PaidNeverExpired`: no reservation of a paid order is expired by the worker.
* `SoldMeansCaptured`: completed reservations belong to orders Razorpay has
  captured money for.
* `CountMatches`, `WithinLimits`: the counter of a coupon covers its rows, exactly
  when each customer can use it once; neither limit is passed.
* `LinkedIsConfirmed`: a usage with an order id belongs to a confirmed order.
* `KeepsCoupons`: every transaction uses the coupon as `Coupons.tla` has it, so the
  theorems about it hold of the checkout.
* `HoldsEnd`, `ReservedEnds`: holds on stock that stays for sale end; no order
  stays in `stock_reserved`.

* `ConfirmedWithItsStock`: an order becomes confirmed together with the sale of all its
  lines. Its exceptions are where the code fails (section 4): cancelled rows, and targets
  that left the shop.
* `PaidStaysPaid`: a paid order is never downgraded. It does not hold (section 4).
* `GrantsFit`: the refunds administrators were granted, less those that failed,
  never exceed the payment, however many ask and whatever late events do to the
  status the request looks at.
* `ToldOnce`: a refund is announced once, by whichever of request and webhook
  records it. `ProcessedIsRecorded`: what Razorpay has paid back is recorded in the
  end, also when the request that asked died, unless it has no row and a late
  `payment.failed` has overwritten the id by which the payment is found.
* `OneSend`: the sweep never repeats a delivery on its own: a second copy needs a
  lost answer, a killed process, a record that raised, or an administrator. `RetryEnds`: a row does not stay
  in `retrying`, except under a provider that times out for ever. Both are about
  sweeps that hold the lock, as long as none has run without it (`OneSend`), and
  `RetryEnds` about all.
* `CalmShowsLatest`, `CalmOneWorker`: as long as no request overlaps a generation,
  whatever fails or is killed, a ready image shows the latest original and crops
  under a version that never showed other bytes, and one worker makes it at a time.
  `Settles`: it is made or given up.
* `OrdersWhatItShowed`: what Razorpay is opened for is what the page showed, unless
  another checkout of the customer wrote the server's cart in between or the server gave
  back an order that was open already (a resume).
* `BusyHasRequest`: the page is never busy, nor the guard of a mount closed, without
  a request in flight that ends it.
* `NoEventLost`: the version check drops nothing; every event since a tab opened was
  handled or is on its way.
* `OwnDataOnly`: a tab that has received everything shows the data of the signed-in
  customer, or of one whose session ended without a LOGOUT.
* `FreshAfterNews`: what a tab takes for fresh is not older than its last news.
* `AtMostOnce`, `UnauthorizedMeansUndone`: a change is made once at most, and not at all
  when its caller was told 401, though it may have been sent twice by then. Of other
  refusals that would not hold (section 4). `Settles`: each call comes back.

`EndedHoldsNothing` and `PaidNeverExpired` leave out the targets that may leave
the shop: the row of a product that is not active is skipped by every path, so
there they fail (section 4, 2).

### Fairness

`FairSpec` assumes: time passes (`WF` on `PassExpiry`); Celery Beat starts the
worker every 15 seconds (`WF` on `ListCandidates`); a batch that meets no locked
row happens if it can happen again and again (`SF` on `ExpireCandidates(w, {})`;
row locks last for one short transaction, and a row that is skipped is listed
again by the next run); a call to Razorpay and a request end in some way (`WF`,
they have timeouts, and dying is one of the ways); Razorpay repeats a capture
until it is accepted (`SF` on its delivery and on its commit). Nothing is assumed
about customers, administrators, or the success of the call to Razorpay.

In the other modules: Razorpay repeats an event until it is handled (`SF` on
`Receive`), a handler and a request that holds the lock go on or die (`Refunds`); time
passes, beat starts the sweep, and a process that was not killed goes on, its
provider answering or timing out (`NotificationRetry`); a worker that lives goes on
and beat runs both sweeps (`ImageGeneration`); timers fire, delays end and
`refreshSession` answers (`ApiClient`; the last is an assumption about Supabase, the
code has no timeout there, nor for `getSession`, which the header of each request waits
for and the model has in `Send`). Kills, failures, refusals, customers and
administrators have no fairness anywhere. `CheckoutPage` and `Tabs` state safety
only: the customer may always walk away.

## 4. Where the code and its comments disagree

`dropped` and `downgraded` are runs whose counterexamples TLC prints. The others were met while
modelling; the models have the code as it is, and the properties state the
exception.

1. `dropped`: a late payment must never be dropped silently.
   `handle_late_payment_refund` first writes the status `refund_pending`, which the
   CHECK constraint on `orders.status` does not allow. Everything rolls back; no
   payment row and no refund remain, however often Razorpay repeats the event.
2. The worker is said to expire *all* overdue rows. Rows of a product that is
   not active are skipped on every run and keep their units.
3. `lock_for_checkout` promises a fresh window. The worker, which listed the row
   while it was overdue, checks only the status under the lock and expires it.
4. A payment whose hold is gone must be refunded. The check looks for EXPIRED and
   RELEASED rows and not for CANCELLED ones: a capture that arrives after a
   cancellation confirms the order without stock.
5. `downgraded`: `_on_payment_failed` must "never downgrade a paid order"
   (`modules/webhooks/service.py:488`). It reads the order without a lock, and a capture
   or a verification that commits in between is overwritten. The units stay sold.
6. An already cancelled order is said to be a no-op for the restock. Two
   cancellations that have both read `confirmed` both return the units.
7. Reverting a coupon is said to be idempotent. When the row of the order is
   gone, the second revert falls back to any pending row of the customer.
8. `refund.processed` without a row creates one "so we never lose the refund"
   (`modules/webhooks/service.py:629`). It finds the payment by
   `razorpay_payment_id`, which a late `payment.failed` overwrites: it then raises,
   each time it is delivered. A recorded refund that is settled afterwards restores the
   status of the payment and not its id, so this lasts.
9. A capture or `order.paid` that comes after a refund confirms the order again
   and is processed as a new payment.
10. The lock of the retry sweep is said to close the gap "completely rather than
    partially" (`tasks/notifications.py:30`). `POST /admin/notifications/retry` does not
    take it, and an error of Redis at `SET` runs the sweep without it and deletes
    another's lock at the end.
11. `attempt_count` and `next_retry_at` are said to prevent a duplicate send
    (`tasks/notifications.py:12`). A failure with an empty text, which is what an httpx
    timeout has, records neither: the first message stays pending for ever, and a
    row in the sweep is sent again every 30 s without limit.
12. A crop that overlaps a generation ends `ready` with the old crop, contrary to
    `Docs/IMAGE_CROP_ROOT_CAUSE_INVESTIGATION.md:146`.
13. `stores/buyNow.ts:11` says buy-now never clears the cart. If "Checkout" in the
    drawer is clicked while a buy-now payment is verified, its success clears it.
    (That a sign-out clears it, paid or not, is what `AuthCleanup` is for.)
14. `sse.ts:10` says that it falls back to polling. It reconnects, and what was
    published meanwhile is not fetched.

Seen too, and denied by no comment: when Razorpay refuses an order, or a newer
checkout replaces it, the coupon's usage is not given back, nor when the worker
stops between its two transactions; with a limit of two for each customer, two
pending rows make `finalize_usage` violate the unique constraint. Two
`refund.processed` at once leave the payment `partially_refunded`; after a partial
refund no second one can be made. An answer that comes after the page was left sets
the global step for the next mount, which opens as a page that failed without an
intent. A second click after a reload runs two delete-post-create sequences on one
cart. A request that is answered 422, or whose 2xx answer the client cannot read, may have
been carried out: `create_payment_intent` keeps the order, its units and the usage of the
coupon when Razorpay refuses or when its own second transaction fails. A message whose
record raises is sent again, though the provider has taken it.

## 5. What is proved

All theorems hold for every finite set of orders and targets and every value
of the bounds, under the named assumptions of `Units`, `Reservation` and `Checkout`; those about
coupons for every set of customers and all limits (`CouponAssumption`, which `CheckoutCoupons`
assumes of its own constants); those about refunds and messages for every finite set of refunds
of a payment, all handlers, rows, sweeps, amounts and limits (`RefundsAssumption`,
`RetryAssumption`); those about images for all breakpoints and workers, finitely many
requests, and every number of attempts and kills (`ImageAssumption`); those about the
frontends for every set of tabs, customers and requests and all numbers of events, changes
and retries (`BusAssumption`, `TabsAssumption`, `ApiAssumption`), and of products, orders,
attempts and mounts (`CheckoutPageAssumption`: a mount and a cart of one are possible, and
`None` is none of the products, orders and attempts). The constraints `MCOneFailure`,
`MCCalm`, `MCStrays`, `MCMishaps` and `MCFewEvents` are those of the runs: no theorem has them.

| theorem | says |
|---|---|
| `ReservationProofs!TypeCorrect` | no counter goes negative |
| `ReservationProofs!ReservedIsHeld` | `Spec => []HoldsMatch` |
| `ReservationProofs!NeverOversold` | `Spec => []NoOversell` |
| `ReservationProofs!SoldOnlyFromHolds` | `Spec => []SoldWasHeld` |
| `ReservationProofs!EndedStaysEnded` | `Spec => TerminalIsFinal` |
| `ReservationProofs!ServiceKeepsLedger` | `Spec => KeepsLedger`: the service implements the ledger |
| `ReservationProofs!LedgerPromise` | the ledger never promises a unit twice |
| `CheckoutProofs!CheckoutTypes` | `Spec => []TypeOK` |
| `CheckoutProofs!CheckoutKeepsReservation` | `Spec => KeepsReservation`: the checkout uses the stock only as the service offers it |
| `CheckoutProofs!CheckoutReservations` | and so what is proved of `Reservation` holds in the checkout |
| `CheckoutProofs!CheckoutEndedHoldsNothing`, `CheckoutPaidNeverExpired`, `CheckoutSoldMeansCaptured` | `Spec => []EndedHoldsNothing`, `[]PaidNeverExpired`, `[]SoldMeansCaptured` |
| `CheckoutProofs!CheckoutConfirmedWithItsStock` | the action property `ConfirmedWithItsStock` |
| `CheckoutProofs!CouponSafe` | `Coupons!Spec => [](CountMatches /\ WithinLimits)` |
| `CheckoutProofs!CheckoutKeepsCoupons` | `SpecWithCoupon => KeepsCoupons` |
| `CheckoutProofs!CheckoutCountMatches`, `CheckoutWithinLimits` | and so both invariants of the coupon hold in the whole checkout |
| `CheckoutProofs!CouponsKeepCheckout`, `CouponCheckoutSafe` | `SpecWithCoupon => Spec`, so all of the above holds in the checkout with a coupon |
| `CheckoutProofs!CheckoutLinkedIsConfirmed`, `CouponCheckoutTypes` | `SpecWithCoupon => []LinkedIsConfirmed`, and types |
| `RefundProofs!RefundTypes`, `RefundsFit`, `RefundToldOnce` | `Spec => []TypeOK`, `[]GrantsFit`, `[]ToldOnce` |
| `NotificationRetryProofs!NotificationTypes`, `NotificationSentOnce` | `Spec => []TypeOK`, `[]OneSend` |
| `ImageGenerationProofs!ImageTypes` | `Spec => []TypeOK`; in particular the attempts are bounded |
| `ImageGenerationProofs!ImageOneWorker`, `ImageShowsLatest` | `Spec => []CalmOneWorker`, `[]CalmShowsLatest` |
| `CheckoutPageProofs!PageTypesCorrect`, `OrderIsWhatWasShown`, `BusyEnds` | `Spec => []TypeOK`, `[]OrdersWhatItShowed`, `[]BusyHasRequest` |
| `TabsProofs!TabsImplementBus` | `Tabs!Spec => BusSpec`: each step of the tabs is a step of the bus or leaves it alone |
| `TabsProofs!TabsTypes`, `TabsLoseNoEvent` | types, and `Spec => []NoEventLost` |
| `TabsProofs!TabsOwnDataOnly`, `TabsFreshAfterNews` | `Spec => []OwnDataOnly`, `Spec => []FreshAfterNews` |
| `ApiClientProofs!ApiTypes`, `ApiSendsBounded` | types, and at most `2 * (Retries + 1)` fetches for one run of a request |
| `ApiClientProofs!ApiAtMostOnce`, `ApiUnauthorizedMeansUndone` | a change is made once at most; a 401 means not made |

**The reservations** (`ReservationProofs`). The inductive invariant is `IInv == TypeOK /\ HoldsMatch /\ NoOversell /\
SoldWasHeld`. None of the last two is inductive alone. When rows end, the code
computes `GREATEST(reserved - q, 0)`; without `HoldsMatch` the clamp could bite,
`reserved` would fall by less than `q`, and moving `q` units to `sold` would
break `NoOversell`. `HoldsMatch` says that `reserved` is at least the sum of any
set of live rows, so the clamp is an ordinary subtraction (lemma `FreedUnits` and
its neighbours in `ReservationProofs`). The proof has one lemma per way of
changing rows (free, sell, insert, grant a window) and per counter that is
disturbed, then one step per action of `Next`. The facts about sums (disjoint
union, difference, support, one line) stand first, without a word of the service.

**The refinement** (end of `ReservationProofs`) uses `IInv`: the mapped `HeldAt(t)` is
`reserved[t]`, hence the availability the code computes is the ledger's room,
and each action maps to `Hold`, `Sell`, `GiveBack` or `Recount`, or changes
nothing the ledger sees (granting a window, listing, the clock).
The last section shows what the ledger is worth on its own terms, for whoever implements
it: `LedgerInv` bounds what is held and sold of each target by what there is, and needs no
bound on the stock.

**The checkout** (`CheckoutProofs`). First the refinement: each action of `Checkout` is
a step of `R!Next` or leaves the stock alone, so the theorems of `ReservationProofs`,
taken to the instance inside `Checkout`, hold whatever becomes of the orders. Then the
invariants that relate an order, its payment and its rows. None of the three is
inductive, since a handler decides by what it read before:

* that units are sold only for captured money needs `GatewayKnown`: a handler that
  fulfils an order was started by a capture, whatever the order says by now;
* that a paid order holds nothing, and so that the worker finds nothing of it to expire,
  needs `EndsTogether`: rows end together when they end by a sale or a release, so none
  is left that could be locked. A product that leaves the shop is locked no more, and
  its rows are the exception everywhere (`Delistable`);
* `SoldOrReleased` keeps a second handler, which finds part of the rows completed, from
  taking the order for fulfilled when the others were released; `ConfirmedWithItsStock`
  rests on it. `Placed` and `RefusedIsUnknown` tell rows that were never inserted, and
  those of an order Razorpay refused, from the rest.

`ConfirmedWithItsStock` is proved from the same invariant and a lemma that says which step
confirms an order (`StatusStep`).

**The coupon** (second part of `CheckoutProofs`). `WithinLimits` is not inductive, because
`apply_and_reserve` compares the counter, not the rows, with the cap: it needs
`CountMatches`. That in turn is delicate in a revert, which takes one off the
counter for each customer however many of his rows go. The customers are the
image of the rows that go (lemma `CustomersOfRows`), so the counter drops by no
more than the rows do; with one use for each customer the map is injective and
both drop alike.
Without its coupon, every action of `CheckoutCoupons` is one of `Checkout` or leaves its
variables alone (a coupon adds guards and variables only); so the invariant of the checkout
holds (`CheckoutInvariance`). From it, and from what the workers have still to revert
(`CouponOrders`), the requests name orders that exist, hence every action is a step of
`C!Next` or leaves the coupon alone, and the limits hold in the checkout. With both,
`LinkedIsConfirmed` is inductive: the usage is linked in the step that confirms the
order, and only a step that frees the usage ends a confirmed order. `linked \subseteq
couponOrder` is its strengthening.

**The refunds** (`RefundProofs`). `AmountOf` is a sum, written as the cardinality of a set
of units, so that the proof needs no induction. `GrantsFit` is about what is granted, but
`initiate_refund` checks the recorded rows, with what another request may have asked
Razorpay for in between. `OneWriter` says what the locks do: whoever asks holds the lock of
the payment, and no webhook that inserts a row has one uncommitted meanwhile.
`StandingRecorded` says that what counts is in the recorded sum, so
that what is asked for fits (`AskedFits`) until it is granted or lost. `ToldOnce`
needs `OneWriter` too: two handlers that have both written a refund are one, hence the
second `refund.processed` finds the row processed and tells nobody.

**The messages** (`NotificationRetryProofs`). `OneSend` counts copies less reasons. The
induction needs a budget (`OneCopy`): the copies, and each way in which the row may still be
sent without another reason (the first attempt, the administrator's, a retry), are one at
most. A retry that a sweep has sent and not recorded is closed, because its record
overwrites whatever the row says meanwhile, and a sweep that is killed there, or whose
record raises, opens it again and pays for it. That no second sweep is at the same row is `OneSweep`, and that follows
from `HoldsLock`: age of the sweep and lease of the lock together are no less than
`LockTtl`, which is more than the `Limit` (`_LOCK_TTL_SECONDS` and `time_limit` in
`tasks/notifications.py`).

**The images** (`ImageGenerationProofs`). Types are not inductive alone: `attempts` grows with
every claim, and a killed worker or a request that writes back what it had loaded makes room
for another. `AttemptsBounded` counts both (`Allowed`), and says that what can be claimed has
an attempt left. `CalmOneWorker` needs that whoever is at work has the row in
`processing` (`JobCurrent`): no second claim finds it pending, and the sweep gives back only
what a dead worker left. `CalmShowsLatest` is about images that are ready, the induction about
every state before: what is not queued shows the latest original and crop, and so does what
the job has made of its list (`ShownOrQueued`), which is that of the row. While a request
replaces the original nothing shows it; its second step queues all. `VersionsFresh` says that
the versions that have shown other bytes are no later than the row's, and not that of a
ready row.

**The page** (`CheckoutPageProofs`). `OrdersWhatItShowed` looks at an attempt whose order has
come, the induction at what the requests do to the one cart of the server: as long as nobody
else wrote it, it holds one of each line that was posted (`AttemptOK`, with the lemma
`CartSums`), so at the create all of them, and the order keeps them while the payment script
loads. Every other write to that cart, by another attempt, by a request that was given up or by the
server that fulfils an order, takes `alone` from the attempts at work. `BusyHasRequest` is inductive
together with `SentIsCaptured`: a verification is sent for a captured payment only, and what
was captured is not paid again, so a second payment never takes the place of the request that
will open the guard. That a mounted page has a number, and that an attempt at the script or
the modal has an order, is part of `TypeInv`: both index a function.

**The tabs** (`TabsProofs`). That the version check drops nothing rests on what is
on the way: the messages from a tab are its last events in order (`LastEvents`), so
the head of a channel is numbered one above what precedes it, and no receiver has
seen more than was emitted less what is on the way (`AllAhead`). A tab that opens
starts with empty channels, because nothing is sent to a tab that is not open
(`Unopened`). `BusInv` is inductive for the bus alone, and `TabsImplementBus` carries it
over. `OwnDataOnly` is about a tab that has received everything; the induction needs
the tabs that have not: each either holds data of those who may be seen, or a
LOGOUT is on its way to it (`Own`), and receiving that clears cache and fetch.
`Fresh` strengthens `FreshAfterNews` by the fetch in flight, which is what lands in the
cache later.

**The client** (`ApiClientProofs`). `SentInLoop` ties the fetches to the counters:
those of the call before the 401, the attempts so far, and the one in flight.
`OneChange` says that whatever would send a change again, or tell its caller 401, knows
that it is undone: only an answer of 401 leads there, and no other layer repeats what is
not a GET.

**Only model-checked:** everything under fairness (`HoldsEnd`, `ReservedEnds`,
`ProcessedIsRecorded`, `RetryEnds`, and `Settles` of images and of requests), since liveness and
ENABLED are beyond the prover; and of course the counterexample. Every other property of a run
is a theorem. The types of `Reservation`, `Coupons`, `CheckoutCoupons`, `Tabs` and `ApiClient`
are proved and not in a run.

## 6. What is not modelled

Inside the modelled parts:

* reusing unlinked reservations, and `release_orphan_reservations`: rows are
  linked to their order in the transaction that inserts them, so no unlinked
  row is ever committed;
* `complete_expired_order_reservations` has no caller (`record_restock` has none
  either, but is a public operation of the service and is modelled);
* an administrator's free choice of any other order status;
* the deduplication of webhook events: the model lets every event be delivered
  again, which is what the code has to survive anyway;
* totals, gifts and the cart at checkout; of a coupon, the rules that look at one
  order only, the discount, and edits by an administrator;
* a variant that is deleted while it is reserved (`ON DELETE SET NULL` moves its
  rows to the product);
* the order in which one call takes its row locks: a call is one action, so a
  deadlock between calls, which PostgreSQL resolves by aborting one of them
  (`RequestDies`), is not visible;
* a target's `allow_backorder` is fixed.

* of the refunds, the amounts in paise: `int(refund_amount * 100)` truncates;
* of the images, the bytes of the original between its upload and the commit of
  its row, and the order of `generate_variants.delay` and that commit (a task that
  comes too early finds nothing, and the sweep takes the image: `Claim`);
* of the page, the form, the coupon, the live stock check and the gift beyond its
  popup; one customer (after `SignOut` the same one comes back); the effect and the
  answer of a DELETE, POST or create-payment that is answered are one step, though `get_db`
  may commit after the response; a create-payment that is given up is carried out before or
  never; the POSTs that restore the cart are one step, and none of them comes late; the
  `onSettled` of a verification runs for each call, in React Query for the last one only;
* of the tabs, the continuations after `isEventForCurrentUser`, which are one
  step with the event; roles.

Not modelled as components: see `PROJECT.json`. Most of the frontends is forms,
dialogs, layout and rendering over single endpoints (`AccountPage.tsx`,
`ProductForm.tsx`, `admin.cms.index.tsx` and the other long files): there is one
actor, and state that a form library keeps. That is why the models cover a small share
of the lines of the frontends, and all that could be added of them would be a
transcription. What their save handlers do
lose, the edits made while a save is under way, is under hazards or noted with
the component. The client's reservation store (`stores/reservation.ts`) is filled by
hooks that have no caller. Returns, fulfillment, catalog and the rest are single
rows changed in one transaction.

## 7. Plan

Done: all the modules of section 2, each checked and, liveness apart, proved. One run is kept per
question.

What would come next, in the order of what matters most:

1. `Webhooks`: the event store, a crash between commit and publication.
2. `LockOrder`: row locks of `reserve_items`, completions, releases and the
   worker taken one by one, to find or exclude deadlocks.
3. `CacheSWR` (a refill that overlaps an invalidation) and `CmsPublish` (two editors
   and the scheduled worker).
