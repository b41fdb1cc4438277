---------------------------- MODULE CheckoutPage ----------------------------
(***************************************************************************)
(* The checkout page of the storefront (storefront/src/routes/checkout.tsx)*)
(* with the stores it shares with the rest of the shop (stores/checkout.ts,*)
(* stores/cart.ts, stores/buyNow.ts), the Razorpay modals it opens and the *)
(* requests it has in flight.                                              *)
(*                                                                         *)
(* checkoutStep is global: it outlives the page.  The refs (intent,        *)
(* verifying) belong to one mount of the page, and a request or a modal    *)
(* keeps the refs of the mount that started it after the customer has left.*)
(* A checkout is a sequence of requests (an attempt): the server's cart is *)
(* emptied, filled with the lines of this checkout and only then ordered,  *)
(* because create-payment reads the cart the server has.                   *)
(***************************************************************************)
EXTENDS Integers, Sequences, SequencesExt

CONSTANTS
    Product, Order,
    Attempt,    \* attempts that can be in flight at once
    None,       \* no product, no order, no attempt
    MaxMounts,  \* bound of the model: how often the page is mounted
    MaxUnits    \* bound of the model: the units of a line of the server's cart

ASSUME CheckoutPageAssumption ==
    /\ MaxMounts \in Nat
    /\ MaxUnits \in Nat \ {0}
    /\ None \notin Product \cup Order \cup Attempt

VARIABLES
    cart,        \* the lines of useCart, one unit of each
    buyNow,      \* the item of useBuyNowStore while it is active
    step,        \* checkoutStep
    deadline,    \* reservationExpiresAt, as the order whose hold it is the end of
    mounted,     \* whether the page is mounted
    page,        \* the number of the last mount
    intent,      \* currentIntentRef of each mount
    verifying,   \* isVerifyingRef of each mount
    rehydrated,  \* reservationRehydrated of the last mount
    giftPopup,   \* whether the page asks for the gift of a paid order
    attempt,     \* the checkout each attempt is at work on
    strays,      \* requests of given-up attempts that may still reach the server:
                 \* the lines of the POSTs, None for the DELETE
    modals,      \* the open Razorpay modals, the top one last
    verify,      \* the verify-payment request of each order, and its 30 s timer
    serverCart,  \* units in the cart the server has for this customer
    orders,      \* the orders on the server, and whether a buy-now checkout placed them
    captured,    \* the orders Razorpay has captured the payment of
    over         \* the orders whose hold has passed its expires_at

localVars == <<cart, buyNow>>
storeVars == <<step, deadline>>
refVars == <<intent, verifying>>
pageVars == <<mounted, page, rehydrated, giftPopup>>
serverVars == <<serverCart, orders, captured, over>>
flightVars == <<attempt, strays, modals, verify>>
vars == <<localVars, storeVars, refVars, pageVars, flightVars, serverVars>>

Step == {"idle", "reserving", "payment_open", "verifying", "payment_failed",
         "reservation_expired"}
Mount == 1..MaxMounts
Units == [Product -> 0..MaxUnits]
Empty == [p \in Product |-> 0]
OneOfEach(S) == [p \in Product |-> IF p \in S THEN 1 ELSE 0]

\* Faulty variant: without the limit.
UpsertUnlimited(units, more) == [p \in Product |-> units[p] + more[p]]

\* upsert_item of the server's cart adds to the line, up to its limit.
Upsert(units, more) ==
    [p \in Product |-> IF units[p] + more[p] > MaxUnits THEN MaxUnits ELSE units[p] + more[p]]

Free == [at |-> "free"]

\* An attempt: its place in the sequence of requests, the mount, the mode and
\* the lines it started with, the lines it has not posted yet, what it saved
\* of the server's cart, the order it got, whether it resumes the intent of
\* its mount, and (history) whether nobody else has written the server's cart
\* since it emptied it.
AttemptState ==
    [at : {"save", "delete", "post", "create", "restore", "script", "open"},
     page : Mount, now : BOOLEAN, lines : SUBSET Product, left : SUBSET Product,
     saved : Units, order : Order \cup {None}, resumes : BOOLEAN, alone : BOOLEAN]

TypeOK ==
    /\ cart \subseteq Product
    /\ buyNow \in Product \cup {None}
    /\ step \in Step
    /\ deadline \in Order \cup {None}
    /\ mounted \in BOOLEAN
    /\ page \in 0..MaxMounts
    /\ intent \in [Mount -> Order \cup {None}]
    /\ verifying \in [Mount -> BOOLEAN]
    /\ rehydrated \in BOOLEAN
    /\ giftPopup \in BOOLEAN
    /\ attempt \in [Attempt -> {Free} \cup AttemptState]
    /\ strays \subseteq Product \cup {None}
    /\ modals \in Seq(Order \X Mount)
    /\ verify \in [Order -> [sent : BOOLEAN, timer : BOOLEAN, page : 0..MaxMounts]]
    /\ serverCart \in Units
    /\ orders \in [Order -> [status : {"none", "pending", "paid", "gone"},
                             items : Units, now : BOOLEAN]]
    /\ captured \subseteq Order
    /\ over \subseteq Order

Init ==
    /\ cart \in SUBSET Product
    /\ buyNow = None
    /\ step = "idle"
    /\ deadline = None
    /\ mounted = FALSE
    /\ page = 0
    /\ intent = [m \in Mount |-> None]
    /\ verifying = [m \in Mount |-> FALSE]
    /\ rehydrated = FALSE
    /\ giftPopup = FALSE
    /\ attempt = [a \in Attempt |-> Free]
    /\ strays = {}
    /\ modals = <<>>
    /\ verify = [o \in Order |-> [sent |-> FALSE, timer |-> FALSE, page |-> 0]]
    /\ serverCart = Empty
    /\ orders = [o \in Order |-> [status |-> "none", items |-> Empty, now |-> FALSE]]
    /\ captured = {}
    /\ over = {}

\* The lines of this checkout: the buy-now item, or else the cart.
Lines == IF buyNow # None THEN {buyNow} ELSE cart

ActiveStep == {"payment_open", "verifying", "payment_failed"}

\* No modal, popup or overlay keeps the customer from what is below it.
Reachable ==
    /\ modals = <<>>
    /\ mounted => ~giftPopup /\ step # "reservation_expired"

\* The useActiveReservations hook: the holds the server still reports.
Reserved == {o \in Order : orders[o].status = "pending"}

-----------------------------------------------------------------------------
(***************************************************************************)
(* The shop around the page                                                *)
(***************************************************************************)

\* add (product pages) and remove (the drawer, on every page) of useCart
AddToCart(p) ==
    /\ ~mounted
    /\ Reachable
    /\ p \notin cart
    /\ cart' = cart \cup {p}
    /\ UNCHANGED <<buyNow, storeVars, refVars, pageVars, flightVars, serverVars>>

RemoveFromCart(p) ==
    /\ Reachable
    /\ p \in cart
    /\ cart' = cart \ {p}
    /\ UNCHANGED <<buyNow, storeVars, refVars, pageVars, flightVars, serverVars>>

\* The page mounts; a page that is already there stays.
Enter ==
    IF mounted THEN UNCHANGED pageVars
    ELSE /\ page < MaxMounts
         /\ page' = page + 1
         /\ mounted' = TRUE
         /\ rehydrated' = FALSE
         /\ giftPopup' = FALSE

\* "Continue Checkout" and the history of the browser
OpenPage ==
    /\ ~mounted
    /\ Reachable
    /\ Enter
    /\ UNCHANGED <<localVars, storeVars, refVars, flightVars, serverVars>>

\* "Checkout" in the drawer and on the cart page drops the buy-now item.
CheckoutCart ==
    /\ Reachable
    /\ cart # {}
    /\ buyNow' = None
    /\ Enter
    /\ UNCHANGED <<cart, storeVars, refVars, flightVars, serverVars>>

\* "Buy Now" on a product page
BuyNow(p) ==
    /\ ~mounted
    /\ Reachable
    /\ buyNow' = p
    /\ Enter
    /\ UNCHANGED <<cart, storeVars, refVars, flightVars, serverVars>>

\* The cleanup of the page: a step that is not idle is reset.
Unmount ==
    /\ mounted' = FALSE
    /\ giftPopup' = FALSE
    /\ UNCHANGED <<page, rehydrated>>

Leave ==
    /\ mounted
    /\ modals = <<>>
    /\ Unmount
    /\ IF step = "idle" THEN UNCHANGED storeVars
       ELSE step' = "idle" /\ deadline' = None
    /\ UNCHANGED <<localVars, refVars, flightVars, serverVars>>

\* The session ends, here or in another tab: AuthCleanup clears the stores,
\* ProtectedRoute leaves the page, and what is under way goes on.  (The
\* customer signs in again; nobody else does in this model.)
SignOut ==
    /\ cart' = {}
    /\ buyNow' = None
    /\ step' = "idle"
    /\ deadline' = None
    /\ IF mounted THEN Unmount ELSE UNCHANGED pageVars
    /\ UNCHANGED <<refVars, flightVars, serverVars>>

\* The tab reloads: the persisted stores remain, and the requests that have
\* not reached the server are lost with their answers.
Reload ==
    /\ mounted
    /\ page < MaxMounts
    /\ step' = "idle"
    /\ deadline' = None
    /\ page' = page + 1
    /\ rehydrated' = FALSE
    /\ giftPopup' = FALSE
    /\ UNCHANGED mounted
    /\ attempt' = [a \in Attempt |-> Free]
    /\ strays' = {}
    /\ modals' = <<>>
    /\ verify' = [o \in Order |-> [verify[o] EXCEPT !.sent = FALSE, !.timer = FALSE]]
    /\ verifying' = [m \in Mount |-> FALSE]
    /\ UNCHANGED <<localVars, intent, serverVars>>

-----------------------------------------------------------------------------
(***************************************************************************)
(* Placing the order                                                       *)
(***************************************************************************)

\* The server still holds every line of this checkout: resume its payment.
Rehydrate(o) ==
    /\ mounted
    /\ step = "idle"
    /\ ~rehydrated
    /\ Lines # {}
    /\ o \in Reserved
    /\ \A p \in Lines : orders[o].items[p] > 0
    /\ rehydrated' = TRUE
    /\ step' = "payment_open"
    /\ deadline' = o
    /\ UNCHANGED <<localVars, refVars, mounted, page, giftPopup, flightVars, serverVars>>

Start(a, at, order) ==
    /\ attempt[a] = Free
    /\ attempt' = [attempt EXCEPT ![a] =
          [at |-> at, page |-> page, now |-> buyNow # None, lines |-> Lines,
           left |-> IF order = None THEN Lines ELSE {}, saved |-> Empty,
           order |-> order, resumes |-> order # None, alone |-> FALSE]]

FirstRequest == IF buyNow # None THEN "save" ELSE "delete"

\* placeOrder.  Creating the address is the first request when there is none
\* to select; it fails the way the next ones do.
PlaceOrder(a) ==
    /\ mounted
    /\ Reachable
    /\ Lines # {}
    /\ step = "idle"
    /\ step' = "reserving"
    /\ Start(a, FirstRequest, None)
    /\ UNCHANGED <<localVars, deadline, refVars, pageVars, strays, modals, verify, serverVars>>

\* retryPayment, from the submit button or from the banner of a failed
\* payment (shown while a hold lasts): without an intent the whole sequence
\* of requests runs again.
RetryPayment(a) ==
    /\ mounted
    /\ Reachable
    /\ \/ step = "payment_open" /\ Lines # {}
       \/ step = "payment_failed" /\ Reserved \ over # {}
    /\ IF intent[page] = None
       THEN Start(a, FirstRequest, None) /\ UNCHANGED verifying
       ELSE /\ Start(a, "script", intent[page])
            /\ verifying' = [verifying EXCEPT ![page] = FALSE]
    /\ UNCHANGED <<localVars, storeVars, intent, pageVars, strays, modals, verify, serverVars>>

-----------------------------------------------------------------------------
(***************************************************************************)
(* The requests of an attempt                                              *)
(***************************************************************************)

Becomes(a, new) == [attempt EXCEPT ![a] = new]

\* What is left of an attempt once its mutation has settled.
Rest(a, at) ==
    [attempt[a] EXCEPT !.at = at, !.now = FALSE, !.lines = {}, !.saved = Empty, !.alone = FALSE]

\* The others lose what they knew of the server's cart.
Disturb(f, a) ==
    [b \in Attempt |-> IF b = a \/ f[b] = Free THEN f[b] ELSE [f[b] EXCEPT !.alone = FALSE]]

\* onSuccess of createPaymentMutation, of whichever mount
IntentArrives(a, o) ==
    /\ intent' = [intent EXCEPT ![attempt[a].page] = o]
    /\ deadline' = o
    /\ step' = "payment_open"

\* onError of createPaymentMutation
IntentRefused == step' = "idle" /\ UNCHANGED <<deadline, intent>>

\* GET /cart of a buy-now checkout; when it fails there is nothing to restore.
SaveCart(a) ==
    /\ attempt[a].at = "save"
    /\ \E units \in {serverCart, Empty} :
          attempt' = Becomes(a, [attempt[a] EXCEPT !.at = "delete", !.saved = units])
    /\ UNCHANGED <<localVars, storeVars, refVars, pageVars, strays, modals, verify, serverVars>>

\* What is posted next, unless the retry of a failed payment finds no lines.
Emptied(a) ==
    [attempt[a] EXCEPT !.at = IF attempt[a].left = {} THEN "create" ELSE "post", !.alone = TRUE]

\* Faulty variant: the cart the server has is kept.
EmptyNothing(a) ==
    /\ attempt[a].at = "delete"
    /\ attempt' = Disturb(Becomes(a, Emptied(a)), a)
    /\ UNCHANGED <<localVars, storeVars, refVars, pageVars, strays, modals, verify, serverVars>>

\* DELETE /cart
EmptyCart(a) ==
    /\ attempt[a].at = "delete"
    /\ serverCart' = Empty
    /\ attempt' = Disturb(Becomes(a, Emptied(a)), a)
    /\ UNCHANGED <<localVars, storeVars, refVars, pageVars, strays, modals, verify, orders, captured, over>>

\* POST /cart/items reaches the server.
PostLine(a, p) ==
    /\ attempt[a].at = "post"
    /\ p \in attempt[a].left
    /\ serverCart' = Upsert(serverCart, OneOfEach({p}))
    /\ LET left == attempt[a].left \ {p}
           next == [attempt[a] EXCEPT !.left = left, !.at = IF left = {} THEN "create" ELSE "post"]
       IN  attempt' = Disturb(Becomes(a, next), a)
    /\ UNCHANGED <<localVars, storeVars, refVars, pageVars, strays, modals, verify, orders,
                   captured, over>>

\* The server's cart after these requests
After(requests) ==
    IF None \in requests THEN Empty ELSE Upsert(serverCart, OneOfEach(requests))

\* The DELETE or one of the POSTs fails, and Promise.all gives up at once.  A
\* request without an answer, the failed one or another POST, has been carried
\* out, may still be, or never will.
RequestFails(a) ==
    LET open == IF attempt[a].at = "delete" THEN {None} ELSE attempt[a].left
    IN  /\ attempt[a].at \in {"delete", "post"}
        /\ \E done \in SUBSET open :
              /\ serverCart' = After(done)
              /\ attempt' = IF done = {} THEN Becomes(a, Free) ELSE Disturb(Becomes(a, Free), a)
              /\ \E late \in SUBSET (open \ done) : strays' = strays \cup late
        /\ IntentRefused
        /\ UNCHANGED <<localVars, verifying, pageVars, modals, verify, orders, captured, over>>

\* A request nobody waits for ends as well, on the server or before it.
StrayEnds(p) ==
    /\ p \in strays
    /\ strays' = strays \ {p}
    /\ \/ serverCart' = After({p}) /\ attempt' = Disturb(attempt, None)
       \/ UNCHANGED <<serverCart, attempt>>
    /\ UNCHANGED <<localVars, storeVars, refVars, pageVars, modals, verify, orders, captured, over>>

\* create-payment on the server: a pending order with the items of its cart
\* is answered again, the other pending ones are released.
OrderCart(a, o) ==
    /\ serverCart # Empty
    /\ LET same == {p \in Reserved : orders[p].items = serverCart}
       IN  /\ IF same = {} THEN orders[o].status = "none" ELSE o \in same
           /\ orders' = [p \in Order |->
                 IF p = o /\ same = {}
                 THEN [status |-> "pending", items |-> serverCart, now |-> attempt[a].now]
                 ELSE IF p \in Reserved \ {o} THEN [orders[p] EXCEPT !.status = "gone"]
                 ELSE orders[p]]
    /\ UNCHANGED <<serverCart, captured, over>>

\* What the finally block does next: restore what was saved, or settle.
Restores(a) == attempt[a].now /\ attempt[a].saved # Empty

Created(a, o) ==
    IF Restores(a)
    THEN /\ attempt' = Becomes(a, [attempt[a] EXCEPT !.at = "restore", !.order = o])
         /\ UNCHANGED <<storeVars, intent>>
    ELSE /\ attempt' = Becomes(a, [attempt[a] EXCEPT !.at = "script", !.order = o])
         /\ IntentArrives(a, o)

CreatePayment(a, o) ==
    /\ attempt[a].at = "create"
    /\ OrderCart(a, o)
    /\ Created(a, o)
    /\ UNCHANGED <<localVars, verifying, pageVars, strays, modals, verify>>

\* The request fails on the server, or its answer is lost.
CreateFails(a) ==
    /\ attempt[a].at = "create"
    /\ \/ UNCHANGED serverVars
       \/ \E o \in Order : OrderCart(a, o)
    /\ IF Restores(a)
       THEN /\ attempt' = Becomes(a, [attempt[a] EXCEPT !.at = "restore"])
            /\ UNCHANGED <<storeVars, intent>>
       ELSE attempt' = Becomes(a, Free) /\ IntentRefused
    /\ UNCHANGED <<localVars, verifying, pageVars, strays, modals, verify>>

\* The saved lines are posted on top of the buy-now item, some may fail, and
\* createPaymentMutation settles.  (One step stands for all these POSTs.)
Restore(a) ==
    LET o == attempt[a].order
    IN  /\ attempt[a].at = "restore"
        /\ \E S \in SUBSET Product :
              serverCart' = Upsert(serverCart,
                                   [p \in Product |-> IF p \in S THEN attempt[a].saved[p] ELSE 0])
        /\ attempt' = Disturb(Becomes(a, IF o = None THEN Free
                                         ELSE [attempt[a] EXCEPT !.at = "script"]), a)
        /\ IF o = None THEN IntentRefused ELSE IntentArrives(a, o)
        /\ UNCHANGED <<localVars, verifying, pageVars, strays, modals, verify, orders, captured, over>>

\* loadRazorpayScript and getSession
LoadScript(a) ==
    /\ attempt[a].at = "script"
    /\ attempt' = Becomes(a, Rest(a, "open"))
    /\ UNCHANGED <<localVars, storeVars, refVars, pageVars, strays, modals, verify, serverVars>>

\* The gateway cannot be loaded.
ScriptFails(a) ==
    /\ attempt[a].at = "script"
    /\ attempt' = Becomes(a, Free)
    /\ step' = IF attempt[a].resumes THEN step ELSE "idle"
    /\ UNCHANGED <<localVars, deadline, refVars, pageVars, strays, modals, verify, serverVars>>

\* openRazorpay, wherever the customer is by now
OpenRazorpay(a) ==
    /\ attempt[a].at = "open"
    /\ modals' = Append(modals, <<attempt[a].order, attempt[a].page>>)
    /\ step' = IF attempt[a].resumes THEN "payment_open" ELSE step
    /\ attempt' = Becomes(a, Free)
    /\ UNCHANGED <<localVars, deadline, refVars, pageVars, strays, verify, serverVars>>

-----------------------------------------------------------------------------
(***************************************************************************)
(* Razorpay and the verification                                           *)
(***************************************************************************)

\* The customer pays in the top modal and its handler runs, unless the mount
\* is verifying already.
Pay ==
    /\ modals # <<>>
    /\ LET o == Last(modals)[1]
           m == Last(modals)[2]
       IN  /\ o \notin captured
           /\ captured' = captured \cup {o}
           /\ IF verifying[m] THEN UNCHANGED <<step, verifying, verify>>
              ELSE /\ verifying' = [verifying EXCEPT ![m] = TRUE]
                   /\ step' = "verifying"
                   /\ verify' = [verify EXCEPT ![o] =
                                   [sent |-> TRUE, timer |-> TRUE, page |-> m]]
    /\ modals' = Front(modals)
    /\ UNCHANGED <<localVars, deadline, intent, pageVars, attempt, strays, serverCart, orders, over>>

\* The payment is captured and the modal does not hear of it.
PayUnseen ==
    /\ modals # <<>>
    /\ Last(modals)[1] \notin captured
    /\ captured' = captured \cup {Last(modals)[1]}
    /\ UNCHANGED <<localVars, storeVars, refVars, pageVars, flightVars, serverCart, orders, over>>

\* ondismiss
Dismiss ==
    /\ modals # <<>>
    /\ modals' = Front(modals)
    /\ step' = "payment_open"
    /\ UNCHANGED <<localVars, deadline, refVars, pageVars, attempt, strays, verify, serverVars>>

\* verify_and_fulfill on the server, which clears the customer's cart
ServerVerifies(o) ==
    /\ orders[o].status \in {"pending", "paid"}
    /\ orders' = [orders EXCEPT ![o].status = "paid"]
    /\ IF orders[o].status = "pending"
       THEN /\ serverCart' = Empty
            /\ attempt' = Disturb(attempt, None)
       ELSE UNCHANGED <<serverCart, attempt, strays>>
    /\ UNCHANGED <<captured, over>>

\* Faulty variant: only the timer opens the guard again.
SettledClosed(o) ==
    /\ verify' = [verify EXCEPT ![o].sent = FALSE, ![o].timer = FALSE]
    /\ UNCHANGED verifying

\* mutate's own onSettled, which clears the timer, needs the page it is of.
Settled(o) ==
    LET m == verify[o].page
    IN  /\ verify' = [verify EXCEPT ![o].sent = FALSE,
                                    ![o].timer = @ /\ ~(mounted /\ page = m)]
        /\ verifying' = [verifying EXCEPT ![m] = FALSE]

\* onSuccess of verifyPaymentMutation: what was bought is cleared, the
\* checkout is reset, and the shop goes on to the success page or, for a
\* large order, asks for a gift if the page is still there.
VerifySucceeds(o) ==
    /\ verify[o].sent
    /\ ServerVerifies(o)
    /\ Settled(o)
    /\ IF buyNow # None THEN buyNow' = None /\ UNCHANGED cart
       ELSE cart' = {} /\ UNCHANGED buyNow
    /\ step' = "idle"
    /\ deadline' = None
    /\ \/ Unmount
       \/ /\ giftPopup' = (giftPopup \/ (mounted /\ page = verify[o].page))
          /\ UNCHANGED <<mounted, page, rehydrated>>
    /\ UNCHANGED <<intent, strays, modals>>

\* onError of verifyPaymentMutation, whatever the server has done
VerifyFails(o) ==
    /\ verify[o].sent
    /\ ServerVerifies(o) \/ UNCHANGED <<serverVars, attempt, strays>>
    /\ Settled(o)
    /\ step' = "payment_failed"
    /\ UNCHANGED <<localVars, deadline, intent, pageVars, strays, modals>>

\* The 30 seconds of the handler are over.
VerifyTimeout(o) ==
    LET m == verify[o].page
    IN  /\ verify[o].timer
        /\ verify' = [verify EXCEPT ![o].timer = FALSE]
        /\ verifying' = [verifying EXCEPT ![m] = FALSE]
        /\ step' = IF verifying[m] THEN "payment_open" ELSE step
        /\ UNCHANGED <<localVars, deadline, intent, pageVars, attempt, strays, modals, serverVars>>

\* handleGiftConfirm goes on to the success page.
ConfirmGift ==
    /\ giftPopup
    /\ Unmount
    /\ UNCHANGED <<localVars, storeVars, refVars, flightVars, serverVars>>

-----------------------------------------------------------------------------
(***************************************************************************)
(* The hold of an order ends                                               *)
(***************************************************************************)

HoldEnds(o) ==
    /\ orders[o].status # "none"
    /\ o \notin over
    /\ over' = over \cup {o}
    /\ UNCHANGED <<localVars, storeVars, refVars, pageVars, flightVars, serverCart, orders, captured>>

\* The expiry worker and the webhook of the capture
ServerSettles(o) ==
    /\ orders[o].status = "pending"
    /\ \E status \in {"paid", "gone"} :
          /\ status = "paid" => o \in captured
          /\ status = "gone" => o \in over
          /\ orders' = [orders EXCEPT ![o].status = status]
    /\ UNCHANGED <<localVars, storeVars, refVars, pageVars, flightVars, serverCart, captured, over>>

\* The countdown of the page, which is mounted anew with every return to one
\* of its steps, fires handleReservationExpired.
CountdownEnds ==
    /\ mounted
    /\ step \in ActiveStep
    /\ deadline \in over
    /\ step' = "reservation_expired"
    /\ UNCHANGED <<localVars, deadline, refVars, pageVars, flightVars, serverVars>>

\* onDismiss of the modal that says so
DismissExpired ==
    /\ mounted
    /\ step = "reservation_expired"
    /\ modals = <<>>
    /\ step' = "idle"
    /\ deadline' = None
    /\ intent' = [intent EXCEPT ![page] = None]
    /\ verifying' = [verifying EXCEPT ![page] = FALSE]
    /\ buyNow' = None
    /\ Unmount
    /\ UNCHANGED <<cart, flightVars, serverVars>>

-----------------------------------------------------------------------------
Customer ==
    \/ \E p \in Product : AddToCart(p) \/ RemoveFromCart(p) \/ BuyNow(p)
    \/ OpenPage \/ CheckoutCart \/ Leave \/ SignOut \/ Reload
    \/ \E a \in Attempt : PlaceOrder(a) \/ RetryPayment(a)
    \/ Pay \/ PayUnseen \/ Dismiss \/ ConfirmGift \/ DismissExpired

\* The requests of an attempt are answered, or time out, and its page goes on.
AttemptStep(a) ==
    \/ SaveCart(a) \/ EmptyCart(a) \/ RequestFails(a)
    \/ \E p \in Product : PostLine(a, p)
    \/ \E o \in Order : CreatePayment(a, o)
    \/ CreateFails(a) \/ Restore(a)
    \/ LoadScript(a) \/ ScriptFails(a) \/ OpenRazorpay(a)

VerifyAnswered(o) == VerifySucceeds(o) \/ VerifyFails(o)

Next ==
    \/ Customer
    \/ \E a \in Attempt : AttemptStep(a)
    \/ \E p \in Product \cup {None} : StrayEnds(p)
    \/ \E o \in Order :
          \/ Rehydrate(o) \/ VerifyAnswered(o) \/ VerifyTimeout(o)
          \/ HoldEnds(o) \/ ServerSettles(o)
    \/ CountdownEnds

Spec == Init /\ [][Next]_vars

-----------------------------------------------------------------------------
(***************************************************************************)
(* Properties                                                              *)
(***************************************************************************)

\* An order never takes in what an earlier checkout left in the server's cart,
\* nor goes out without a line whose POST failed: unless another checkout of
\* the same customer wrote that cart in between, what Razorpay is opened for
\* is what this checkout showed (the save, delete, post, create, restore
\* sequence of createPaymentMutation).
OrdersWhatItShowed ==
    \A a \in Attempt :
        /\ attempt[a] # Free
        /\ attempt[a].at \in {"restore", "script"}
        /\ attempt[a].order # None
        /\ ~attempt[a].resumes
        /\ attempt[a].alone
        => orders[attempt[a].order].items = OneOfEach(attempt[a].lines)

\* What keeps the customer from paying has a request in flight whose end takes
\* it away, whichever requests fail, time out or belong to a page that is
\* gone: the two steps that disable the submit button, and isVerifyingRef,
\* with which a mount ignores the handler of the next payment (placeOrder,
\* requestIntentAndOpen, retryPayment, handler, its timer and the callbacks of
\* the two mutations).
BusyHasRequest ==
    /\ step = "reserving" =>
          \E a \in Attempt :
              attempt[a].at \in {"save", "delete", "post", "create", "restore"}
    /\ step = "verifying" => \E o \in Order : verify[o].sent
    /\ \A m \in Mount :
          verifying[m] => \E o \in Order : verify[o].sent /\ verify[o].page = m
=============================================================================
