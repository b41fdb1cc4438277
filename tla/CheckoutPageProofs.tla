------------------------- MODULE CheckoutPageProofs -------------------------
(***************************************************************************)
(* The checkout page, for any products, orders, attempts and mounts: what  *)
(* it orders is what it showed, and it is busy only while a request of it  *)
(* is in flight.                                                           *)
(***************************************************************************)
EXTENDS CheckoutPage, TLAPS

\* An attempt that goes on to the payment has an order.
Working == {x \in AttemptState : x.at \in {"script", "open"} => x.order # None}

\* A page the customer is on has been mounted: its number indexes the refs.
TypeInv ==
    /\ TypeOK
    /\ mounted => page # 0
    /\ attempt \in [Attempt -> {Free} \cup Working]

\* A verification is only sent for a captured payment, so the handler of a
\* second payment never takes the place of the one that closed the guard.
SentIsCaptured == \A o \in Order : verify[o].sent => o \in captured

\* An attempt x has no order before create-payment answers, and what is left
\* to post are lines of its checkout.  As long as nobody else has written the
\* server's cart (units), that cart is the lines it has posted; the order it
\* then got among those placed keeps them.
AttemptOK(x, units, placed) ==
    /\ x.at \in {"save", "delete", "post", "create"} =>
          x.order = None /\ ~x.resumes /\ x.left \subseteq x.lines
    /\ x.at \in {"save", "delete"} => x.left = x.lines /\ ~x.alone
    /\ x.at = "post" /\ x.alone => units = OneOfEach(x.lines \ x.left)
    /\ x.at = "create" /\ x.alone => units = OneOfEach(x.lines)
    /\ x.at \in {"restore", "script"} /\ x.order # None /\ ~x.resumes =>
          /\ placed[x.order].status # "none"
          /\ x.alone => placed[x.order].items = OneOfEach(x.lines)

AttemptsOK == \A a \in Attempt : attempt[a] # Free => AttemptOK(attempt[a], serverCart, orders)

\* The inductive invariant: with them, the three parts of BusyHasRequest.
Requesting == {"save", "delete", "post", "create", "restore"}

ReservingHasRequest == step = "reserving" => \E a \in Attempt : attempt[a].at \in Requesting

VerifyingHasRequest ==
    /\ step = "verifying" => \E o \in Order : verify[o].sent
    /\ \A m \in Mount : verifying[m] => \E o \in Order : verify[o].sent /\ verify[o].page = m

RequestInv == AttemptsOK /\ ReservingHasRequest

VerifyInv == SentIsCaptured /\ VerifyingHasRequest

IInv == TypeInv /\ RequestInv /\ VerifyInv

-----------------------------------------------------------------------------
(***************************************************************************)
(* The server's cart and the attempts                                      *)
(***************************************************************************)

\* Every cart the requests write is a cart.
LEMMA CartTypes ==
    /\ Empty \in Units
    /\ \A S : OneOfEach(S) \in Units
    /\ \A units \in Units, more \in Units : Upsert(units, more) \in Units
BY CheckoutPageAssumption DEF Units, Empty, OneOfEach, Upsert

\* So is the cart after any of them; without a request it stays.
LEMMA AfterTypes ==
    ASSUME serverCart \in Units
    PROVE  /\ \A requests : After(requests) \in Units
           /\ After({}) = serverCart
<1>1. \A requests : After(requests) \in Units
  BY CartTypes DEF After
<1>2. Upsert(serverCart, OneOfEach({})) = serverCart
  BY CheckoutPageAssumption DEF Units, OneOfEach, Upsert
<1>3. QED
  BY <1>1, <1>2 DEF After

\* Nothing is posted yet, and one line more is posted.
LEMMA CartSums ==
    /\ OneOfEach({}) = Empty
    /\ \A S, p : p \notin S => Upsert(OneOfEach(S), OneOfEach({p})) = OneOfEach(S \cup {p})
BY CheckoutPageAssumption DEF Empty, OneOfEach, Upsert

\* An attempt at work is never mistaken for a free one.
LEMMA NotFree ==
    /\ Free.at = "free"
    /\ \A x \in Working : x # Free /\ x.at # "free"
<1>1. Free.at = "free"
  BY DEF Free
<1>2. \A x \in Working : x.at # "free"
  BY DEF Working, AttemptState
<1>3. QED
  BY <1>1, <1>2

\* The attempts after a write to the server's cart.
LEMMA DisturbType ==
    ASSUME NEW f \in [Attempt -> {Free} \cup Working], NEW a
    PROVE  Disturb(f, a) \in [Attempt -> {Free} \cup Working]
<1>1. ASSUME NEW b \in Attempt, f[b] # Free
      PROVE  [f[b] EXCEPT !.alone = FALSE] \in Working
  <2> DEFINE x == [f[b] EXCEPT !.alone = FALSE]
  <2>1. f[b] \in AttemptState /\ (f[b].at \in {"script", "open"} => f[b].order # None)
    BY <1>1 DEF Working
  <2>2. x \in AttemptState /\ x.at = f[b].at /\ x.order = f[b].order
    BY <2>1 DEF AttemptState
  <2>3. QED
    BY <2>1, <2>2 DEF Working
<1>2. QED
  BY <1>1 DEF Disturb

\* One attempt goes on.
LEMMA BecomesType ==
    ASSUME TypeInv, NEW a \in Attempt, NEW x \in {Free} \cup Working
    PROVE  /\ Becomes(a, x) \in [Attempt -> {Free} \cup Working]
           /\ Becomes(a, x)[a] = x
           /\ \A b \in Attempt \ {a} : Becomes(a, x)[b] = attempt[b]
BY DEF Becomes, TypeInv, TypeOK

\* An attempt that is not free is one at work.
LEMMA AtWork ==
    ASSUME TypeInv, NEW a \in Attempt, attempt[a].at # "free"
    PROVE  attempt[a] \in Working /\ attempt[a] # Free
BY NotFree DEF TypeInv, TypeOK

-----------------------------------------------------------------------------
(***************************************************************************)
(* Type correctness                                                        *)
(***************************************************************************)

\* The groups of variables the actions leave alone together.
LocalTypes == cart \subseteq Product /\ buyNow \in Product \cup {None}
StoreTypes == step \in Step /\ deadline \in Order \cup {None}
RefTypes ==
    /\ intent \in [Mount -> Order \cup {None}]
    /\ verifying \in [Mount -> BOOLEAN]
PageTypes ==
    /\ mounted \in BOOLEAN
    /\ page \in 0..MaxMounts
    /\ rehydrated \in BOOLEAN
    /\ giftPopup \in BOOLEAN
    /\ mounted => page # 0
AttemptTypes == attempt \in [Attempt -> {Free} \cup Working] /\ strays \subseteq Product \cup {None}
PaymentTypes ==
    /\ modals \in Seq(Order \X Mount)
    /\ verify \in [Order -> [sent : BOOLEAN, timer : BOOLEAN, page : 0..MaxMounts]]
ServerTypes ==
    /\ serverCart \in Units
    /\ orders \in [Order -> [status : {"none", "pending", "paid", "gone"},
                             items : Units, now : BOOLEAN]]
    /\ captured \subseteq Order
    /\ over \subseteq Order

\* What an action leaves alone keeps its type.
LEMMA SameTypes ==
    ASSUME TypeInv
    PROVE  /\ cart' = cart /\ buyNow' = buyNow => LocalTypes'
           /\ step' = step /\ deadline' = deadline => StoreTypes'
           /\ intent' = intent /\ verifying' = verifying => RefTypes'
           /\ mounted' = mounted /\ page' = page /\ rehydrated' = rehydrated
              /\ giftPopup' = giftPopup => PageTypes'
           /\ attempt' = attempt /\ strays' = strays => AttemptTypes'
           /\ modals' = modals /\ verify' = verify => PaymentTypes'
           /\ serverCart' = serverCart /\ orders' = orders /\ captured' = captured
              /\ over' = over => ServerTypes'
BY DEF TypeInv, TypeOK, LocalTypes, StoreTypes, RefTypes, PageTypes, AttemptTypes, PaymentTypes,
       ServerTypes

\* The groups together are the types.
LEMMA AllTypes ==
    ASSUME LocalTypes', StoreTypes', RefTypes', PageTypes', AttemptTypes', PaymentTypes',
           ServerTypes'
    PROVE  TypeInv'
<1>1. attempt' \in [Attempt -> {Free} \cup AttemptState]
  <2>1. Working \subseteq AttemptState
    BY DEF Working
  <2>2. QED
    BY <2>1 DEF AttemptTypes
<1>2. TypeOK'
  BY <1>1 DEF TypeOK, LocalTypes, StoreTypes, RefTypes, PageTypes, AttemptTypes, PaymentTypes,
              ServerTypes
<1>3. QED
  BY <1>2 DEF TypeInv, PageTypes, AttemptTypes

\* The page a customer is on has a number.
LEMMA OnMount == TypeInv /\ mounted => page \in Mount
BY CheckoutPageAssumption DEF TypeInv, TypeOK, Mount

\* The mounts are counted up to the bound.
LEMMA PageNumbers ==
    ASSUME TypeInv
    PROVE  /\ page \in Nat /\ MaxMounts \in Nat /\ page <= MaxMounts
           /\ page < MaxMounts => page + 1 \in 0..MaxMounts /\ page + 1 # 0
BY CheckoutPageAssumption DEF TypeInv, TypeOK

\* The page mounts, or is there already.
LEMMA EnterType ==
    ASSUME TypeInv, Enter
    PROVE  PageTypes'
<1>1. CASE mounted
  BY <1>1 DEF Enter, pageVars, TypeInv, TypeOK, PageTypes
<1>2. CASE ~mounted
  <2>1. /\ page < MaxMounts /\ page' = page + 1
        /\ mounted' = TRUE /\ rehydrated' = FALSE /\ giftPopup' = FALSE
    BY <1>2 DEF Enter
  <2>2. page' \in 0..MaxMounts /\ page' # 0
    BY <2>1, PageNumbers
  <2>3. QED
    BY <2>1, <2>2 DEF PageTypes
<1>3. QED
  BY <1>1, <1>2

\* An attempt that starts.
LEMMA StartType ==
    ASSUME TypeInv, mounted, NEW a \in Attempt, NEW at \in {"save", "delete", "script"},
           NEW order \in Order \cup {None}, at = "script" => order # None,
           Start(a, at, order), strays' = strays
    PROVE  AttemptTypes'
<1> DEFINE new == [at |-> at, page |-> page, now |-> buyNow # None, lines |-> Lines,
                   left |-> IF order = None THEN Lines ELSE {}, saved |-> Empty,
                   order |-> order, resumes |-> order # None, alone |-> FALSE]
<1>1. Lines \in SUBSET Product
  BY DEF Lines, TypeInv, TypeOK
<1>2. new \in Working
  <2>1. page \in Mount /\ Empty \in Units
    BY OnMount, CartTypes
  <2>2. new \in AttemptState /\ new.at = at /\ new.order = order
    BY <1>1, <2>1 DEF AttemptState
  <2>3. at = "script" => order # None
    OBVIOUS
  <2>4. QED
    BY <2>2, <2>3 DEF Working
<1>3. attempt' = [attempt EXCEPT ![a] = new]
  BY DEF Start
<1>4. QED
  BY <1>2, <1>3 DEF AttemptTypes, TypeInv, TypeOK

\* What is below the top modal.
LEMMA TopModal ==
    ASSUME TypeInv, modals # <<>>
    PROVE  Last(modals) \in Order \X Mount /\ Front(modals) \in Seq(Order \X Mount)
BY DEF TypeInv, TypeOK, Last, Front

\* create-payment writes pending orders.
LEMMA OrderCartType ==
    ASSUME TypeInv, NEW a \in Attempt, attempt[a] \in Working, NEW o \in Order,
           OrderCart(a, o)
    PROVE  ServerTypes'
<1>1. attempt[a].now \in BOOLEAN
  BY DEF Working, AttemptState
<1>2. [status |-> "pending", items |-> serverCart, now |-> attempt[a].now]
         \in [status : {"none", "pending", "paid", "gone"}, items : Units, now : BOOLEAN]
  BY <1>1 DEF TypeInv, TypeOK
<1>3. ASSUME NEW p \in Order
      PROVE  [orders[p] EXCEPT !.status = "gone"]
                \in [status : {"none", "pending", "paid", "gone"}, items : Units, now : BOOLEAN]
  BY DEF TypeInv, TypeOK
<1>4. orders' \in [Order -> [status : {"none", "pending", "paid", "gone"},
                            items : Units, now : BOOLEAN]]
  BY <1>2, <1>3 DEF OrderCart, TypeInv, TypeOK
<1>5. QED
  BY <1>4 DEF OrderCart, ServerTypes, TypeInv, TypeOK

\* A verification writes a paid order.
LEMMA ServerVerifiesType ==
    ASSUME TypeInv, NEW o \in Order, ServerVerifies(o)
    PROVE  ServerTypes'
<1>1. orders' \in [Order -> [status : {"none", "pending", "paid", "gone"},
                            items : Units, now : BOOLEAN]]
  BY DEF ServerVerifies, TypeInv, TypeOK
<1>2. serverCart' \in Units
  BY CartTypes DEF ServerVerifies, TypeInv, TypeOK
<1>3. QED
  BY <1>1, <1>2 DEF ServerVerifies, ServerTypes, TypeInv, TypeOK

\* The end of a verify-payment request.
LEMMA SettledType ==
    ASSUME TypeInv, NEW o \in Order, Settled(o), modals' = modals
    PROVE  PaymentTypes'
<1> DEFINE shut == verify[o].timer /\ ~(mounted /\ page = verify[o].page)
<1>1. [verify[o] EXCEPT !.sent = FALSE, !.timer = shut]
         \in [sent : BOOLEAN, timer : BOOLEAN, page : 0..MaxMounts]
  <2>1. verify[o] \in [sent : BOOLEAN, timer : BOOLEAN, page : 0..MaxMounts]
    BY DEF TypeInv, TypeOK
  <2>2. shut \in BOOLEAN
    BY <2>1, Zenon
  <2> HIDE DEF shut
  <2>3. QED
    BY <2>1, <2>2
<1>2. verify' \in [Order -> [sent : BOOLEAN, timer : BOOLEAN, page : 0..MaxMounts]]
  <2>1. verify' = [verify EXCEPT ![o] = [verify[o] EXCEPT !.sent = FALSE, !.timer = shut]]
    BY DEF Settled, TypeInv, TypeOK
  <2> HIDE DEF shut
  <2>2. QED
    BY <1>1, <2>1 DEF TypeInv, TypeOK
<1>3. QED
  BY <1>2 DEF PaymentTypes, TypeInv, TypeOK

\* The shop around the page keeps the types.
LEMMA OpenPageTypes ==
    ASSUME TypeInv, OpenPage
    PROVE  TypeInv'
<1>1. PageTypes'
  BY EnterType DEF OpenPage
<1>2. QED
  BY <1>1, SameTypes, AllTypes
     DEF OpenPage, localVars, storeVars, refVars, pageVars, flightVars, serverVars

\* The drawer goes on to the page.
LEMMA CheckoutCartTypes ==
    ASSUME TypeInv, CheckoutCart
    PROVE  TypeInv'
<1>1. LocalTypes'
  BY DEF TypeInv, TypeOK, LocalTypes, CheckoutCart
<1>2. PageTypes'
  BY EnterType DEF CheckoutCart
<1>3. QED
  BY <1>1, <1>2, SameTypes, AllTypes
     DEF CheckoutCart, localVars, storeVars, refVars, pageVars, flightVars, serverVars

\* The page unmounts.
LEMMA LeaveTypes ==
    ASSUME TypeInv, Leave
    PROVE  TypeInv'
<1>1. StoreTypes'
  BY DEF TypeInv, TypeOK, StoreTypes, storeVars, Step, Leave
<1>2. PageTypes'
  BY DEF TypeInv, TypeOK, PageTypes, Enter, Unmount, Mount, pageVars, Leave
<1>3. QED
  BY <1>1, <1>2, SameTypes, AllTypes
     DEF Leave, localVars, storeVars, refVars, pageVars, flightVars, serverVars

\* The end of the session clears the stores.
LEMMA SignOutTypes ==
    ASSUME TypeInv, SignOut
    PROVE  TypeInv'
<1>1. LocalTypes' /\ StoreTypes'
  BY DEF SignOut, LocalTypes, StoreTypes, Step
<1>2. PageTypes'
  BY DEF TypeInv, TypeOK, PageTypes, Unmount, pageVars, SignOut
<1>3. QED
  BY <1>1, <1>2, SameTypes, AllTypes DEF SignOut, refVars, flightVars, serverVars

\* After a reload the refs and the requests of the page are new.
LEMMA ReloadTypes ==
    ASSUME TypeInv, Reload
    PROVE  TypeInv'
<1>1. StoreTypes'
  BY DEF TypeInv, TypeOK, StoreTypes, Step, Reload
<1>2. PageTypes'
  BY OnMount, PageNumbers DEF TypeInv, TypeOK, PageTypes, Reload
<1>3. RefTypes'
  BY DEF TypeInv, TypeOK, RefTypes, Reload
<1>4. AttemptTypes'
  BY DEF TypeInv, TypeOK, AttemptTypes, Reload
<1>5. PaymentTypes'
  <2>1. ASSUME NEW o \in Order
        PROVE  [verify[o] EXCEPT !.sent = FALSE, !.timer = FALSE]
                  \in [sent : BOOLEAN, timer : BOOLEAN, page : 0..MaxMounts]
    <3>1. verify[o] \in [sent : BOOLEAN, timer : BOOLEAN, page : 0..MaxMounts]
      BY DEF TypeInv, TypeOK
    <3>2. QED
      BY <3>1
  <2>2. modals' = <<>>
    BY DEF Reload
  <2>3. QED
    <3>1. <<>> \in Seq(Order \X Mount)
      OBVIOUS
    <3>2. verify' \in [Order -> [sent : BOOLEAN, timer : BOOLEAN, page : 0..MaxMounts]]
      BY <2>1 DEF Reload
    <3>3. QED
      BY <2>2, <3>1, <3>2 DEF PaymentTypes
<1>6. QED
  BY <1>1, <1>2, <1>3, <1>4, <1>5, SameTypes, AllTypes
     DEF Reload, localVars, storeVars, refVars, pageVars, flightVars, serverVars

\* The top modal is one of an order and of a mount.
LEMMA PayTypes ==
    ASSUME TypeInv, Pay
    PROVE  TypeInv'
<1>1. StoreTypes'
  BY DEF TypeInv, TypeOK, StoreTypes, Step, Pay
<1>2. RefTypes'
  BY DEF TypeInv, TypeOK, RefTypes, Pay
<1>3. PaymentTypes'
  <2>1. Last(modals) \in Order \X Mount /\ Front(modals) \in Seq(Order \X Mount)
    BY TopModal DEF Pay
  <2>2. [sent |-> TRUE, timer |-> TRUE, page |-> Last(modals)[2]]
           \in [sent : BOOLEAN, timer : BOOLEAN, page : 0..MaxMounts]
    BY <2>1, CheckoutPageAssumption DEF Mount
  <2>3. verify' \in [Order -> [sent : BOOLEAN, timer : BOOLEAN, page : 0..MaxMounts]]
    BY <2>1, <2>2 DEF Pay, TypeInv, TypeOK
  <2>4. QED
    BY <2>1, <2>3 DEF Pay, PaymentTypes
<1>4. ServerTypes'
  <2>1. Last(modals) \in Order \X Mount /\ Front(modals) \in Seq(Order \X Mount)
    BY TopModal DEF Pay
  <2>2. QED
    BY <2>1 DEF Pay, TypeInv, TypeOK, ServerTypes
<1>5. QED
  BY <1>1, <1>2, <1>3, <1>4, SameTypes, AllTypes
     DEF Pay, localVars, storeVars, refVars, pageVars, flightVars, serverVars

\* So is the one that does not hear of its payment.
LEMMA PayUnseenTypes ==
    ASSUME TypeInv, PayUnseen
    PROVE  TypeInv'
<1>1. ServerTypes'
  <2>1. Last(modals) \in Order \X Mount /\ Front(modals) \in Seq(Order \X Mount)
    BY TopModal DEF PayUnseen
  <2>2. QED
    BY <2>1 DEF PayUnseen, TypeInv, TypeOK, ServerTypes
<1>2. QED
  BY <1>1, SameTypes, AllTypes
     DEF PayUnseen, localVars, storeVars, refVars, pageVars, flightVars, serverVars

\* So is the one that is dismissed.
LEMMA DismissTypes ==
    ASSUME TypeInv, Dismiss
    PROVE  TypeInv'
<1>1. StoreTypes'
  BY DEF TypeInv, TypeOK, StoreTypes, Step, Dismiss
<1>2. PaymentTypes'
  <2>1. Last(modals) \in Order \X Mount /\ Front(modals) \in Seq(Order \X Mount)
    BY TopModal DEF Dismiss
  <2>2. QED
    BY <2>1 DEF Dismiss, TypeInv, TypeOK, PaymentTypes
<1>3. QED
  BY <1>1, <1>2, SameTypes, AllTypes
     DEF Dismiss, localVars, storeVars, refVars, pageVars, flightVars, serverVars

\* The gift is confirmed and the page is left.
LEMMA ConfirmGiftTypes ==
    ASSUME TypeInv, ConfirmGift
    PROVE  TypeInv'
<1>1. PageTypes'
  BY DEF TypeInv, TypeOK, PageTypes, Enter, Unmount, Mount, pageVars, ConfirmGift
<1>2. QED
  BY <1>1, SameTypes, AllTypes
     DEF ConfirmGift, localVars, storeVars, refVars, pageVars, flightVars, serverVars

\* The end of the reservation is dismissed.
LEMMA DismissExpiredTypes ==
    ASSUME TypeInv, DismissExpired
    PROVE  TypeInv'
<1>1. LocalTypes'
  BY DEF TypeInv, TypeOK, LocalTypes, DismissExpired
<1>2. StoreTypes'
  BY DEF TypeInv, TypeOK, StoreTypes, Step, DismissExpired
<1>3. RefTypes'
  BY DEF TypeInv, TypeOK, RefTypes, DismissExpired
<1>4. PageTypes'
  BY DEF TypeInv, TypeOK, PageTypes, Enter, Unmount, Mount, pageVars, DismissExpired
<1>5. QED
  BY <1>1, <1>2, <1>3, <1>4, SameTypes, AllTypes
     DEF DismissExpired, localVars, storeVars, refVars, pageVars, flightVars, serverVars

\* The countdown ends.
LEMMA CountdownEndsTypes ==
    ASSUME TypeInv, CountdownEnds
    PROVE  TypeInv'
<1>1. StoreTypes'
  BY DEF TypeInv, TypeOK, StoreTypes, Step, CountdownEnds
<1>2. QED
  BY <1>1, SameTypes, AllTypes
     DEF CountdownEnds, localVars, storeVars, refVars, pageVars, flightVars, serverVars

\* Lines come into the cart.
LEMMA AddToCartTypes ==
    ASSUME TypeInv, NEW p \in Product, AddToCart(p)
    PROVE  TypeInv'
<1>1. LocalTypes'
  BY DEF TypeInv, TypeOK, LocalTypes, AddToCart
<1>2. QED
  BY <1>1, SameTypes, AllTypes
     DEF AddToCart, localVars, storeVars, refVars, pageVars, flightVars, serverVars

\* Lines go out of the cart.
LEMMA RemoveFromCartTypes ==
    ASSUME TypeInv, NEW p \in Product, RemoveFromCart(p)
    PROVE  TypeInv'
<1>1. LocalTypes'
  BY DEF TypeInv, TypeOK, LocalTypes, RemoveFromCart
<1>2. QED
  BY <1>1, SameTypes, AllTypes
     DEF RemoveFromCart, localVars, storeVars, refVars, pageVars, flightVars, serverVars

\* A buy-now item takes the place of the cart.
LEMMA BuyNowTypes ==
    ASSUME TypeInv, NEW p \in Product, BuyNow(p)
    PROVE  TypeInv'
<1>1. LocalTypes'
  BY DEF TypeInv, TypeOK, LocalTypes, BuyNow
<1>2. PageTypes'
  BY EnterType DEF BuyNow
<1>3. QED
  BY <1>1, <1>2, SameTypes, AllTypes
     DEF BuyNow, localVars, storeVars, refVars, pageVars, flightVars, serverVars

\* A request nobody waits for writes a cart.
LEMMA StrayEndsTypes ==
    ASSUME TypeInv, NEW p \in Product \cup {None}, StrayEnds(p)
    PROVE  TypeInv'
<1>1. AttemptTypes'
  <2>1. attempt' = Disturb(attempt, None) \/ attempt' = attempt
    BY DEF StrayEnds
  <2>2. attempt' \in [Attempt -> {Free} \cup Working]
    BY <2>1, DisturbType DEF TypeInv
  <2>3. strays' \subseteq Product \cup {None}
    BY DEF StrayEnds, TypeInv, TypeOK
  <2>4. QED
    BY <2>2, <2>3 DEF AttemptTypes
<1>2. ServerTypes'
  <2>1. After({p}) \in Units
    BY AfterTypes DEF TypeInv, TypeOK
  <2>2. QED
    BY <2>1 DEF StrayEnds, TypeInv, TypeOK, ServerTypes
<1>3. QED
  BY <1>1, <1>2, SameTypes, AllTypes
     DEF StrayEnds, localVars, storeVars, refVars, pageVars, flightVars, serverVars

\* A checkout starts with its first request.
LEMMA PlaceOrderTypes ==
    ASSUME TypeInv, NEW a \in Attempt, PlaceOrder(a)
    PROVE  TypeInv'
<1>1. StoreTypes'
  BY DEF TypeInv, TypeOK, StoreTypes, Step, PlaceOrder
<1>2. AttemptTypes'
  <2>1. FirstRequest \in {"save", "delete"}
    BY DEF FirstRequest
  <2>2. Start(a, FirstRequest, None) /\ mounted /\ strays' = strays
    BY DEF PlaceOrder
  <2>3. QED
    BY <2>1, <2>2, StartType
<1>3. QED
  BY <1>1, <1>2, SameTypes, AllTypes
     DEF PlaceOrder, localVars, storeVars, refVars, pageVars, flightVars, serverVars

\* A retry starts again, or with the order of its intent.
LEMMA RetryPaymentTypes ==
    ASSUME TypeInv, NEW a \in Attempt, RetryPayment(a)
    PROVE  TypeInv'
<1>1. RefTypes'
  BY DEF TypeInv, TypeOK, RefTypes, RetryPayment
<1>2. AttemptTypes'
  <2>1. FirstRequest \in {"save", "delete"}
    BY DEF FirstRequest
  <2>2. mounted /\ strays' = strays
    BY DEF RetryPayment
  <2>3. intent[page] \in Order \cup {None}
    BY <2>2, OnMount DEF TypeInv, TypeOK
  <2>4. \/ Start(a, FirstRequest, None)
        \/ intent[page] # None /\ Start(a, "script", intent[page])
    BY DEF RetryPayment
  <2>5. QED
    BY <2>1, <2>2, <2>3, <2>4, StartType
<1>3. QED
  BY <1>1, <1>2, SameTypes, AllTypes
     DEF RetryPayment, localVars, storeVars, refVars, pageVars, flightVars, serverVars

\* What is saved is a cart.
LEMMA SaveCartTypes ==
    ASSUME TypeInv, NEW a \in Attempt, SaveCart(a)
    PROVE  TypeInv'
<1>1. AttemptTypes'
  <2>1. PICK units \in {serverCart, Empty} :
           attempt' = Becomes(a, [attempt[a] EXCEPT !.at = "delete", !.saved = units])
    BY DEF SaveCart
  <2>2. attempt[a] \in Working /\ units \in Units
    BY <2>1, AtWork, CartTypes DEF SaveCart, TypeInv, TypeOK
  <2>3. [attempt[a] EXCEPT !.at = "delete", !.saved = units] \in Working
    BY <2>2 DEF Working, AttemptState
  <2>4. QED
    BY <2>1, <2>3, BecomesType DEF SaveCart, AttemptTypes, TypeInv, TypeOK
<1>2. QED
  BY <1>1, SameTypes, AllTypes
     DEF SaveCart, localVars, storeVars, refVars, pageVars, flightVars, serverVars

\* What is emptied is a cart.
LEMMA EmptyCartTypes ==
    ASSUME TypeInv, NEW a \in Attempt, EmptyCart(a)
    PROVE  TypeInv'
<1>1. AttemptTypes'
  <2>1. attempt[a] \in Working
    BY AtWork DEF EmptyCart
  <2>2. Emptied(a) \in Working
    BY <2>1 DEF Emptied, Working, AttemptState
  <2>3. QED
    BY <2>2, BecomesType, DisturbType DEF EmptyCart, AttemptTypes, TypeInv, TypeOK
<1>2. ServerTypes'
  BY CartTypes DEF TypeInv, TypeOK, ServerTypes, EmptyCart
<1>3. QED
  BY <1>1, <1>2, SameTypes, AllTypes
     DEF EmptyCart, localVars, storeVars, refVars, pageVars, flightVars, serverVars

\* The requests that are still open are of its lines, or the DELETE.
LEMMA RequestFailsTypes ==
    ASSUME TypeInv, NEW a \in Attempt, RequestFails(a)
    PROVE  TypeInv'
<1> DEFINE open == IF attempt[a].at = "delete" THEN {None} ELSE attempt[a].left
<1>1. StoreTypes'
  BY DEF TypeInv, TypeOK, StoreTypes, Step, RequestFails, IntentRefused
<1>2. PICK done \in SUBSET open :
         /\ serverCart' = After(done)
         /\ attempt' = IF done = {} THEN Becomes(a, Free) ELSE Disturb(Becomes(a, Free), a)
         /\ \E late \in SUBSET (open \ done) : strays' = strays \cup late
  BY DEF RequestFails
<1>3. AttemptTypes'
  <2>1. attempt[a] \in Working
    BY AtWork DEF RequestFails
  <2>2. attempt[a].left \in SUBSET Product
    BY <2>1 DEF Working, AttemptState
  <2>3. strays' \subseteq Product \cup {None}
    BY <1>2, <2>2 DEF TypeInv, TypeOK
  <2>4. attempt' \in [Attempt -> {Free} \cup Working]
    BY <1>2, BecomesType, DisturbType
  <2>5. QED
    BY <2>3, <2>4 DEF AttemptTypes
<1>4. ServerTypes'
  BY <1>2, AfterTypes DEF RequestFails, ServerTypes, TypeInv, TypeOK
<1>5. QED
  BY <1>1, <1>3, <1>4, SameTypes, AllTypes DEF RequestFails, IntentRefused, localVars, pageVars

\* A create-payment that fails may have placed its order.
LEMMA CreateFailsTypes ==
    ASSUME TypeInv, NEW a \in Attempt, CreateFails(a)
    PROVE  TypeInv'
<1>1. StoreTypes'
  BY DEF TypeInv, TypeOK, StoreTypes, storeVars, Step, CreateFails, IntentRefused
<1>2. AttemptTypes'
  <2>1. attempt[a] \in AttemptState
    BY AtWork DEF CreateFails, Working
  <2> DEFINE x == [attempt[a] EXCEPT !.at = "restore"]
  <2>2. x \in AttemptState /\ x.at = "restore"
    BY <2>1 DEF AttemptState
  <2>3. x \in Working
    BY <2>2 DEF Working
  <2>4. QED
    BY <2>3, BecomesType DEF CreateFails, AttemptTypes, TypeInv, TypeOK
<1>3. ServerTypes'
  <2>1. CASE UNCHANGED serverVars
    BY <2>1 DEF TypeInv, TypeOK, ServerTypes, serverVars
  <2>2. CASE \E o \in Order : OrderCart(a, o)
    <3>1. attempt[a] \in Working
      BY AtWork DEF CreateFails
    <3>2. QED
      BY <2>2, <3>1, OrderCartType
  <2>3. QED
    BY <2>1, <2>2 DEF CreateFails
<1>4. QED
  BY <1>1, <1>2, <1>3, SameTypes, AllTypes
     DEF CreateFails, IntentRefused, localVars, storeVars, refVars, pageVars, flightVars, serverVars

\* The saved lines make a cart, and the attempt goes on if it has an order.
LEMMA RestoreTypes ==
    ASSUME TypeInv, NEW a \in Attempt, Restore(a)
    PROVE  TypeInv'
<1>1. StoreTypes'
  <2>1. attempt[a].order \in Order \cup {None}
    BY AtWork DEF Restore, Working, AttemptState
  <2>2. QED
    BY <2>1 DEF TypeInv, TypeOK, StoreTypes, Step, Restore, IntentRefused, IntentArrives
<1>2. RefTypes'
  <2>1. attempt[a].order \in Order \cup {None}
    BY AtWork DEF Restore, Working, AttemptState
  <2>2. QED
    BY <2>1 DEF TypeInv, TypeOK, RefTypes, Restore, IntentRefused, IntentArrives
<1>3. AttemptTypes'
  <2>1. attempt[a] \in Working
    BY AtWork DEF Restore
  <2>2. attempt[a].order # None => [attempt[a] EXCEPT !.at = "script"] \in Working
    <3> DEFINE x == [attempt[a] EXCEPT !.at = "script"]
    <3>1. x \in AttemptState /\ x.order = attempt[a].order
      BY <2>1 DEF Working, AttemptState
    <3>2. QED
      BY <3>1 DEF Working
  <2>3. QED
    BY <2>2, BecomesType, DisturbType DEF Restore, AttemptTypes, TypeInv, TypeOK
<1>4. ServerTypes'
  <2>1. attempt[a].saved \in Units
    BY AtWork DEF Restore, Working, AttemptState
  <2>2. ASSUME NEW S \in SUBSET Product
        PROVE  Upsert(serverCart, [p \in Product |-> IF p \in S THEN attempt[a].saved[p] ELSE 0])
                  \in Units
    <3>1. [p \in Product |-> IF p \in S THEN attempt[a].saved[p] ELSE 0] \in Units
      BY <2>1, CheckoutPageAssumption DEF Units
    <3>2. QED
      BY <3>1, CartTypes DEF TypeInv, TypeOK
  <2>3. serverCart' \in Units
    BY <2>2, Zenon DEF Restore
  <2>4. QED
    BY <2>3 DEF Restore, TypeInv, TypeOK, ServerTypes
<1>5. QED
  BY <1>1, <1>2, <1>3, <1>4, SameTypes, AllTypes
     DEF Restore, localVars, storeVars, refVars, pageVars, flightVars, serverVars

\* The modal will be opened for an order.
LEMMA LoadScriptTypes ==
    ASSUME TypeInv, NEW a \in Attempt, LoadScript(a)
    PROVE  TypeInv'
<1>1. AttemptTypes'
  <2>1. attempt[a] \in Working
    BY AtWork DEF LoadScript
  <2>2. Rest(a, "open") \in AttemptState /\ Rest(a, "open").order = attempt[a].order
    BY <2>1, CartTypes DEF Rest, Working, AttemptState
  <2>3. attempt[a].order # None
    BY <2>1 DEF LoadScript, Working
  <2>4. Rest(a, "open") \in Working
    BY <2>2, <2>3 DEF Working
  <2>5. QED
    BY <2>4, BecomesType DEF LoadScript, AttemptTypes, TypeInv, TypeOK
<1>2. QED
  BY <1>1, SameTypes, AllTypes
     DEF LoadScript, localVars, storeVars, refVars, pageVars, flightVars, serverVars

\* The attempt ends without a modal.
LEMMA ScriptFailsTypes ==
    ASSUME TypeInv, NEW a \in Attempt, ScriptFails(a)
    PROVE  TypeInv'
<1>1. StoreTypes'
  BY DEF TypeInv, TypeOK, StoreTypes, Step, ScriptFails
<1>2. AttemptTypes'
  BY BecomesType DEF ScriptFails, AttemptTypes, TypeInv, TypeOK
<1>3. QED
  BY <1>1, <1>2, SameTypes, AllTypes
     DEF ScriptFails, localVars, storeVars, refVars, pageVars, flightVars, serverVars

\* The modal is opened for an order and a mount.
LEMMA OpenRazorpayTypes ==
    ASSUME TypeInv, NEW a \in Attempt, OpenRazorpay(a)
    PROVE  TypeInv'
<1>1. StoreTypes'
  BY DEF TypeInv, TypeOK, StoreTypes, Step, OpenRazorpay
<1>2. AttemptTypes'
  BY BecomesType DEF OpenRazorpay, AttemptTypes, TypeInv, TypeOK
<1>3. PaymentTypes'
  <2>1. attempt[a].order \in Order /\ attempt[a].page \in Mount
    <3>1. attempt[a] \in Working
      BY AtWork DEF OpenRazorpay
    <3>2. QED
      BY <3>1 DEF OpenRazorpay, Working, AttemptState
  <2>2. QED
    BY <2>1 DEF OpenRazorpay, TypeInv, TypeOK, PaymentTypes
<1>4. QED
  BY <1>1, <1>2, <1>3, SameTypes, AllTypes
     DEF OpenRazorpay, localVars, storeVars, refVars, pageVars, flightVars, serverVars

\* A line more makes a cart.
LEMMA PostLineTypes ==
    ASSUME TypeInv, NEW a \in Attempt, NEW p \in Product, PostLine(a, p)
    PROVE  TypeInv'
<1>1. AttemptTypes'
  <2> DEFINE left == attempt[a].left \ {p}
             next == [attempt[a] EXCEPT !.left = left,
                                        !.at = IF left = {} THEN "create" ELSE "post"]
  <2>1. attempt[a] \in Working
    BY AtWork DEF PostLine
  <2>2. next \in Working
    BY <2>1 DEF Working, AttemptState
  <2>3. attempt' = Disturb(Becomes(a, next), a) /\ strays' = strays
    BY DEF PostLine
  <2>4. QED
    BY <2>2, <2>3, BecomesType, DisturbType DEF AttemptTypes, TypeInv, TypeOK
<1>2. ServerTypes'
  <2>1. Upsert(serverCart, OneOfEach({p})) \in Units
    BY CartTypes DEF TypeInv, TypeOK
  <2>2. QED
    BY <2>1 DEF PostLine, TypeInv, TypeOK, ServerTypes
<1>3. QED
  BY <1>1, <1>2, SameTypes, AllTypes
     DEF PostLine, localVars, storeVars, refVars, pageVars, flightVars, serverVars

\* The order of the answer becomes the intent.
LEMMA CreatePaymentTypes ==
    ASSUME TypeInv, NEW a \in Attempt, NEW o \in Order, CreatePayment(a, o)
    PROVE  TypeInv'
<1>1. StoreTypes'
  BY DEF TypeInv, TypeOK, StoreTypes, storeVars, Step, CreatePayment, Created, IntentArrives
<1>2. RefTypes'
  BY DEF TypeInv, TypeOK, RefTypes, CreatePayment, Created, IntentArrives
<1>3. AttemptTypes'
  <2>1. attempt[a] \in Working
    BY AtWork DEF CreatePayment
  <2>2. /\ [attempt[a] EXCEPT !.at = "restore", !.order = o] \in Working
        /\ [attempt[a] EXCEPT !.at = "script", !.order = o] \in Working
    <3>1. ASSUME NEW at \in {"restore", "script"}
          PROVE  [attempt[a] EXCEPT !.at = at, !.order = o] \in Working
      <4> DEFINE x == [attempt[a] EXCEPT !.at = at, !.order = o]
      <4>1. x \in AttemptState /\ x.order = o
        BY <2>1 DEF Working, AttemptState
      <4>2. QED
        BY <4>1, CheckoutPageAssumption DEF Working
    <3>2. QED
      BY <3>1
  <2>3. QED
    BY <2>2, BecomesType DEF CreatePayment, Created, AttemptTypes, TypeInv, TypeOK
<1>4. ServerTypes'
  <2>1. attempt[a] \in Working /\ OrderCart(a, o)
    BY AtWork DEF CreatePayment
  <2>2. QED
    BY <2>1, OrderCartType
<1>5. QED
  BY <1>1, <1>2, <1>3, <1>4, SameTypes, AllTypes
     DEF CreatePayment, localVars, storeVars, refVars, pageVars, flightVars, serverVars

\* The page finds a hold of the server.
LEMMA RehydrateTypes ==
    ASSUME TypeInv, NEW o \in Order, Rehydrate(o)
    PROVE  TypeInv'
<1>1. StoreTypes'
  BY DEF TypeInv, TypeOK, StoreTypes, Step, Rehydrate
<1>2. PageTypes'
  BY DEF TypeInv, TypeOK, PageTypes, Enter, Unmount, Mount, pageVars, Rehydrate
<1>3. QED
  BY <1>1, <1>2, SameTypes, AllTypes
     DEF Rehydrate, localVars, storeVars, refVars, pageVars, flightVars, serverVars

\* A verification that succeeds.
LEMMA VerifySucceedsTypes ==
    ASSUME TypeInv, NEW o \in Order, VerifySucceeds(o)
    PROVE  TypeInv'
<1>1. LocalTypes'
  BY DEF TypeInv, TypeOK, LocalTypes, VerifySucceeds
<1>2. StoreTypes'
  BY DEF TypeInv, TypeOK, StoreTypes, Step, VerifySucceeds
<1>3. RefTypes'
  BY DEF TypeInv, TypeOK, RefTypes, Settled, VerifySucceeds
<1>4. PageTypes'
  <2>1. CASE Unmount
    BY <2>1 DEF Unmount, TypeInv, TypeOK, PageTypes
  <2>2. CASE UNCHANGED <<mounted, page, rehydrated>>
    <3>1. giftPopup' \in BOOLEAN
      BY DEF VerifySucceeds, Unmount, TypeInv, TypeOK
    <3>2. QED
      BY <2>2, <3>1 DEF TypeInv, TypeOK, PageTypes
  <2>3. QED
    BY <2>1, <2>2 DEF VerifySucceeds
<1>5. AttemptTypes'
  <2>1. attempt' \in {Disturb(attempt, None), attempt} /\ strays' = strays
    BY DEF VerifySucceeds, ServerVerifies
  <2>2. QED
    BY <2>1, DisturbType DEF TypeInv, TypeOK, AttemptTypes
<1>6. PaymentTypes'
  BY SettledType DEF VerifySucceeds
<1>7. ServerTypes'
  BY ServerVerifiesType DEF VerifySucceeds
<1>8. QED
  BY <1>1, <1>2, <1>3, <1>4, <1>5, <1>6, <1>7, SameTypes, AllTypes
     DEF VerifySucceeds, localVars, storeVars, refVars, pageVars, flightVars, serverVars

\* A verification that fails.
LEMMA VerifyFailsTypes ==
    ASSUME TypeInv, NEW o \in Order, VerifyFails(o)
    PROVE  TypeInv'
<1>1. StoreTypes'
  BY DEF TypeInv, TypeOK, StoreTypes, Step, VerifyFails
<1>2. RefTypes'
  BY DEF TypeInv, TypeOK, RefTypes, Settled, VerifyFails
<1>3. AttemptTypes'
  <2>1. attempt' \in {Disturb(attempt, None), attempt} /\ strays' = strays
    BY DEF VerifyFails, ServerVerifies
  <2>2. QED
    BY <2>1, DisturbType DEF TypeInv, TypeOK, AttemptTypes
<1>4. PaymentTypes'
  BY SettledType DEF VerifyFails
<1>5. ServerTypes'
  <2>1. CASE ServerVerifies(o)
    BY <2>1, ServerVerifiesType
  <2>2. CASE UNCHANGED serverVars
    BY <2>2 DEF TypeInv, TypeOK, ServerTypes, serverVars
  <2>3. QED
    BY <2>1, <2>2 DEF VerifyFails
<1>6. QED
  BY <1>1, <1>2, <1>3, <1>4, <1>5, SameTypes, AllTypes
     DEF VerifyFails, localVars, storeVars, refVars, pageVars, flightVars, serverVars

\* The timer of a verification.
LEMMA VerifyTimeoutTypes ==
    ASSUME TypeInv, NEW o \in Order, VerifyTimeout(o)
    PROVE  TypeInv'
<1>1. StoreTypes'
  BY DEF TypeInv, TypeOK, StoreTypes, Step, VerifyTimeout
<1>2. RefTypes'
  BY DEF TypeInv, TypeOK, RefTypes, VerifyTimeout
<1>3. PaymentTypes'
  <2>1. verify[o] \in [sent : BOOLEAN, timer : BOOLEAN, page : 0..MaxMounts]
    BY DEF TypeInv, TypeOK
  <2>2. [verify[o] EXCEPT !.timer = FALSE] \in [sent : BOOLEAN, timer : BOOLEAN, page : 0..MaxMounts]
    BY <2>1
  <2>3. verify' \in [Order -> [sent : BOOLEAN, timer : BOOLEAN, page : 0..MaxMounts]]
    BY <2>2 DEF VerifyTimeout, TypeInv, TypeOK
  <2>4. QED
    BY <2>3 DEF VerifyTimeout, TypeInv, TypeOK, PaymentTypes
<1>4. QED
  BY <1>1, <1>2, <1>3, SameTypes, AllTypes
     DEF VerifyTimeout, localVars, storeVars, refVars, pageVars, flightVars, serverVars

\* A hold ends.
LEMMA HoldEndsTypes ==
    ASSUME TypeInv, NEW o \in Order, HoldEnds(o)
    PROVE  TypeInv'
<1>1. ServerTypes'
  BY DEF TypeInv, TypeOK, ServerTypes, HoldEnds
<1>2. QED
  BY <1>1, SameTypes, AllTypes
     DEF HoldEnds, localVars, storeVars, refVars, pageVars, flightVars, serverVars

\* The server settles an order.
LEMMA ServerSettlesTypes ==
    ASSUME TypeInv, NEW o \in Order, ServerSettles(o)
    PROVE  TypeInv'
<1>1. ServerTypes'
  <2>1. PICK new \in {"paid", "gone"} : orders' = [orders EXCEPT ![o].status = new]
    BY DEF ServerSettles
  <2>2. orders' \in [Order -> [status : {"none", "pending", "paid", "gone"},
                              items : Units, now : BOOLEAN]]
    BY <2>1 DEF TypeInv, TypeOK
  <2>3. QED
    BY <2>2 DEF ServerSettles, TypeInv, TypeOK, ServerTypes
<1>2. QED
  BY <1>1, SameTypes, AllTypes
     DEF ServerSettles, localVars, storeVars, refVars, pageVars, flightVars, serverVars

-----------------------------------------------------------------------------
(***************************************************************************)
(* The attempts and the server's cart                                      *)
(***************************************************************************)

\* An order that is placed keeps its items.
OrdersKept ==
    \A o \in Order : orders[o].status # "none" =>
        orders'[o].status # "none" /\ orders'[o].items = orders[o].items

\* What one attempt may keep of what it knows while others go on.
LEMMA KeptOK ==
    ASSUME TypeInv, OrdersKept, NEW x \in Working, AttemptOK(x, serverCart, orders)
    PROVE  /\ serverCart' = serverCart => AttemptOK(x, serverCart', orders')
           /\ AttemptOK([x EXCEPT !.alone = FALSE], serverCart', orders')
<1>1. x.order \in Order \cup {None}
  BY DEF Working, AttemptState
<1>2. x.order # None /\ orders[x.order].status # "none" =>
         orders'[x.order].status # "none" /\ orders'[x.order].items = orders[x.order].items
  BY <1>1 DEF OrdersKept
<1>3. serverCart' = serverCart => AttemptOK(x, serverCart', orders')
  BY <1>2 DEF AttemptOK
<1> DEFINE y == [x EXCEPT !.alone = FALSE]
<1>4. /\ y.at = x.at /\ y.order = x.order /\ y.resumes = x.resumes /\ y.left = x.left
      /\ y.lines = x.lines /\ y.alone = FALSE
  BY DEF Working, AttemptState
<1> HIDE DEF y
<1>5. AttemptOK(y, serverCart', orders')
  BY <1>2, <1>4 DEF AttemptOK
<1>6. QED
  BY <1>3, <1>5 DEF y

\* One attempt goes on and the server's cart stays.
LEMMA OneMoves ==
    ASSUME TypeInv, AttemptsOK, OrdersKept, NEW a \in Attempt, NEW x \in {Free} \cup Working,
           attempt' = Becomes(a, x), serverCart' = serverCart,
           x # Free => AttemptOK(x, serverCart', orders')
    PROVE  AttemptsOK'
<1>1. ASSUME NEW b \in Attempt, attempt'[b] # Free
      PROVE  AttemptOK(attempt'[b], serverCart', orders')
  <2>1. CASE b = a
    BY <1>1, <2>1, BecomesType
  <2>2. CASE b # a
    <3>1. attempt'[b] = attempt[b]
      BY <2>2, BecomesType
    <3>2. attempt[b] \in Working /\ AttemptOK(attempt[b], serverCart, orders)
      BY <1>1, <3>1 DEF AttemptsOK, TypeInv
    <3>3. QED
      BY <3>1, <3>2, KeptOK
  <2>3. QED
    BY <2>1, <2>2
<1>2. QED
  BY <1>1 DEF AttemptsOK

\* One attempt writes the server's cart and disturbs the others.
LEMMA OneWrites ==
    ASSUME TypeInv, AttemptsOK, OrdersKept, NEW a \in Attempt, NEW x \in {Free} \cup Working,
           attempt' = Disturb(Becomes(a, x), a),
           x # Free => AttemptOK(x, serverCart', orders')
    PROVE  AttemptsOK'
<1>1. ASSUME NEW b \in Attempt, attempt'[b] # Free
      PROVE  AttemptOK(attempt'[b], serverCart', orders')
  <2>1. CASE b = a
    BY <1>1, <2>1, BecomesType DEF Disturb
  <2>2. CASE b # a
    <3>1. attempt'[b] = IF attempt[b] = Free THEN Free ELSE [attempt[b] EXCEPT !.alone = FALSE]
      <4>1. Becomes(a, x)[b] = attempt[b]
        BY <2>2, BecomesType
      <4>2. QED
        BY <2>2, <4>1 DEF Disturb
    <3>2. /\ attempt[b] \in Working /\ AttemptOK(attempt[b], serverCart, orders)
          /\ attempt'[b] = [attempt[b] EXCEPT !.alone = FALSE]
      BY <1>1, <3>1 DEF AttemptsOK, TypeInv
    <3>3. QED
      BY <3>2, KeptOK
  <2>3. QED
    BY <2>1, <2>2
<1>2. QED
  BY <1>1 DEF AttemptsOK

\* Somebody else writes it.
LEMMA OthersWrite ==
    ASSUME TypeInv, AttemptsOK, OrdersKept, attempt' = Disturb(attempt, None)
    PROVE  AttemptsOK'
<1>1. ASSUME NEW b \in Attempt, attempt'[b] # Free
      PROVE  AttemptOK(attempt'[b], serverCart', orders')
  <2>1. attempt'[b] = IF attempt[b] = Free THEN Free ELSE [attempt[b] EXCEPT !.alone = FALSE]
    BY CheckoutPageAssumption DEF Disturb
  <2>2. /\ attempt[b] \in Working /\ AttemptOK(attempt[b], serverCart, orders)
        /\ attempt'[b] = [attempt[b] EXCEPT !.alone = FALSE]
    BY <1>1, <2>1 DEF AttemptsOK, TypeInv
  <2>3. QED
    BY <2>2, KeptOK
<1>2. QED
  BY <1>1 DEF AttemptsOK

\* Nobody moves.
LEMMA NoneMoves ==
    ASSUME TypeInv, AttemptsOK, OrdersKept, attempt' = attempt, serverCart' = serverCart
    PROVE  AttemptsOK'
<1>1. ASSUME NEW b \in Attempt, attempt[b] # Free
      PROVE  AttemptOK(attempt[b], serverCart', orders')
  BY <1>1, KeptOK DEF AttemptsOK, TypeInv
<1>2. QED
  BY <1>1 DEF AttemptsOK

\* Whoever writes, every attempt stays where it is in its sequence.
LEMMA DisturbPlaces ==
    ASSUME NEW f \in [Attempt -> {Free} \cup Working], NEW a, NEW b \in Attempt
    PROVE  Disturb(f, a)[b].at = f[b].at
<1>1. CASE b = a \/ f[b] = Free
  BY <1>1 DEF Disturb
<1>2. CASE ~(b = a \/ f[b] = Free)
  <2>1. f[b] \in AttemptState
    BY <1>2 DEF Working
  <2>2. [f[b] EXCEPT !.alone = FALSE].at = f[b].at
    BY <2>1 DEF AttemptState
  <2>3. QED
    BY <1>2, <2>2 DEF Disturb
<1>3. QED
  BY <1>1, <1>2

\* The page is no more busy than before when the attempts stay in place.
LEMMA ReservingStays ==
    ASSUME ReservingHasRequest, \A b \in Attempt : attempt'[b].at = attempt[b].at,
           step' = step \/ step' # "reserving"
    PROVE  ReservingHasRequest'
BY DEF ReservingHasRequest

\* Nor when the one that moves goes on with its requests.
LEMMA ReservingMoves ==
    ASSUME ReservingHasRequest, NEW a \in Attempt,
           \A b \in Attempt \ {a} : attempt'[b].at = attempt[b].at,
           attempt[a].at \in Requesting => attempt'[a].at \in Requesting,
           step' = step \/ step' # "reserving" \/ attempt'[a].at \in Requesting
    PROVE  ReservingHasRequest'
BY DEF ReservingHasRequest

\* Most actions leave the requests and what they know alone.
LEMMA QuietRequests ==
    ASSUME TypeInv, RequestInv, attempt' = attempt, serverCart' = serverCart, OrdersKept,
           step' = step \/ step' # "reserving"
    PROVE  RequestInv'
BY NoneMoves, ReservingStays DEF RequestInv

\* The same orders are kept.
LEMMA SameOrders == orders' = orders => OrdersKept
BY DEF OrdersKept

\* An attempt that starts has all its lines to post; one that resumes has none.
LEMMA StartRequests ==
    ASSUME TypeInv, RequestInv, mounted, NEW a \in Attempt,
           NEW at \in {"save", "delete", "script"}, NEW order \in Order \cup {None},
           at = "script" <=> order # None, Start(a, at, order), serverCart' = serverCart,
           orders' = orders, strays' = strays,
           step' = step \/ at # "script"
    PROVE  RequestInv'
<1> DEFINE x == [at |-> at, page |-> page, now |-> buyNow # None, lines |-> Lines,
                 left |-> IF order = None THEN Lines ELSE {}, saved |-> Empty,
                 order |-> order, resumes |-> order # None, alone |-> FALSE]
<1>1. attempt' = Becomes(a, x) /\ attempt[a].at = "free"
  BY NotFree DEF Start, Becomes
<1>2. x \in Working
  <2>1. AttemptTypes' /\ attempt'[a] = x
    BY StartType DEF Start, TypeInv
  <2>2. x.at # "free"
    OBVIOUS
  <2>3. QED
    BY <2>1, <2>2, NotFree DEF AttemptTypes
<1>3. AttemptOK(x, serverCart', orders')
  BY DEF AttemptOK
<1>4. x.at = at
  OBVIOUS
<1> HIDE DEF x
<1>5. AttemptsOK'
  BY <1>1, <1>2, <1>3, OneMoves, SameOrders DEF RequestInv
<1>6. /\ attempt'[a] = x
      /\ \A b \in Attempt \ {a} : attempt'[b] = attempt[b]
  BY <1>1, <1>2, BecomesType
<1>7. ReservingHasRequest'
  BY <1>1, <1>4, <1>6 DEF RequestInv, ReservingHasRequest, Requesting
<1>8. QED
  BY <1>5, <1>7 DEF RequestInv

\* placeOrder starts with all lines to post.
LEMMA PlaceOrderRequests ==
    ASSUME TypeInv, RequestInv, NEW a \in Attempt, PlaceOrder(a)
    PROVE  RequestInv'
<1>1. FirstRequest \in {"save", "delete"}
  BY DEF FirstRequest
<1>2. /\ Start(a, FirstRequest, None) /\ mounted /\ strays' = strays
      /\ serverCart' = serverCart /\ orders' = orders
  BY DEF PlaceOrder, serverVars
<1>3. QED
  BY <1>1, <1>2, StartRequests

\* A retry starts the same way, or past its requests.
LEMMA RetryPaymentRequests ==
    ASSUME TypeInv, RequestInv, NEW a \in Attempt, RetryPayment(a)
    PROVE  RequestInv'
<1>1. FirstRequest \in {"save", "delete"}
  BY DEF FirstRequest
<1>2. /\ mounted /\ strays' = strays /\ step' = step
      /\ serverCart' = serverCart /\ orders' = orders
  BY DEF RetryPayment, storeVars, serverVars
<1>3. intent[page] \in Order \cup {None}
  BY <1>2, OnMount DEF TypeInv, TypeOK
<1>4. \/ Start(a, FirstRequest, None)
      \/ intent[page] # None /\ Start(a, "script", intent[page])
  BY DEF RetryPayment
<1>5. QED
  BY <1>1, <1>2, <1>3, <1>4, StartRequests

\* The answer of GET /cart
LEMMA SaveCartRequests ==
    ASSUME TypeInv, RequestInv, NEW a \in Attempt, SaveCart(a)
    PROVE  RequestInv'
<1>1. PICK units \in {serverCart, Empty} :
         attempt' = Becomes(a, [attempt[a] EXCEPT !.at = "delete", !.saved = units])
  BY DEF SaveCart
<1> DEFINE x == [attempt[a] EXCEPT !.at = "delete", !.saved = units]
<1>2. /\ attempt[a] \in Working /\ attempt[a].at = "save" /\ units \in Units
      /\ AttemptOK(attempt[a], serverCart, orders)
  BY AtWork, CartTypes DEF SaveCart, TypeInv, TypeOK, RequestInv, AttemptsOK
<1>3. x \in AttemptState /\ x.at = "delete" /\ x.order = attempt[a].order
      /\ x.resumes = attempt[a].resumes /\ x.left = attempt[a].left
      /\ x.lines = attempt[a].lines /\ x.alone = attempt[a].alone
  BY <1>2 DEF Working, AttemptState
<1>4. /\ serverCart' = serverCart /\ orders' = orders /\ step' = step
      /\ attempt' = Becomes(a, x)
  BY <1>1 DEF SaveCart, serverVars, storeVars
<1> HIDE DEF x
<1>5. x \in Working /\ AttemptOK(x, serverCart', orders')
  BY <1>2, <1>3, <1>4 DEF Working, AttemptOK
<1>6. AttemptsOK'
  BY <1>4, <1>5, OneMoves, SameOrders DEF RequestInv
<1>7. ReservingHasRequest'
  BY <1>3, <1>4, <1>5, BecomesType, ReservingMoves DEF RequestInv, Requesting
<1>8. QED
  BY <1>6, <1>7 DEF RequestInv

\* DELETE /cart: from here on the attempt knows what the server's cart is.
LEMMA EmptyCartRequests ==
    ASSUME TypeInv, RequestInv, NEW a \in Attempt, EmptyCart(a)
    PROVE  RequestInv'
<1> DEFINE x == Emptied(a)
<1>1. /\ attempt[a] \in Working /\ attempt[a].at = "delete"
      /\ AttemptOK(attempt[a], serverCart, orders)
  BY AtWork DEF EmptyCart, RequestInv, AttemptsOK
<1>2. x \in AttemptState /\ x.at = (IF x.left = {} THEN "create" ELSE "post")
      /\ x.order = attempt[a].order /\ x.resumes = attempt[a].resumes
      /\ x.left = attempt[a].left /\ x.lines = attempt[a].lines
  BY <1>1 DEF Emptied, Working, AttemptState
<1>3. /\ serverCart' = Empty /\ orders' = orders /\ step' = step
      /\ attempt' = Disturb(Becomes(a, x), a)
  BY DEF EmptyCart, storeVars
<1> HIDE DEF x
<1>4. x \in Working
  BY <1>2 DEF Working
<1>5. x.left = x.lines /\ x.order = None /\ ~x.resumes
  BY <1>1, <1>2 DEF AttemptOK
<1>6. serverCart' = OneOfEach(x.lines \ x.left) /\ (x.left = {} => serverCart' = OneOfEach(x.lines))
  <2>1. x.lines \ x.left = {} /\ (x.left = {} => x.lines = {})
    BY <1>5
  <2>2. QED
    BY <1>3, <2>1, CartSums
<1>7. AttemptOK(x, serverCart', orders')
  BY <1>2, <1>5, <1>6 DEF AttemptOK
<1>8. AttemptsOK'
  BY <1>3, <1>4, <1>7, OneWrites, SameOrders DEF RequestInv
<1>9. ReservingHasRequest'
  <2>1. \A b \in Attempt : attempt'[b].at = Becomes(a, x)[b].at
    BY <1>3, <1>4, BecomesType, DisturbPlaces
  <2>2. QED
    BY <1>2, <1>3, <1>4, <2>1, BecomesType, ReservingMoves DEF RequestInv, Requesting
<1>10. QED
  BY <1>8, <1>9 DEF RequestInv

\* POST /cart/items: the server's cart has one line more.
LEMMA PostLineRequests ==
    ASSUME TypeInv, RequestInv, NEW a \in Attempt, NEW p \in Product, PostLine(a, p)
    PROVE  RequestInv'
<1> DEFINE left == attempt[a].left \ {p}
           x == [attempt[a] EXCEPT !.left = left, !.at = IF left = {} THEN "create" ELSE "post"]
<1>1. /\ attempt[a] \in Working /\ attempt[a].at = "post" /\ p \in attempt[a].left
      /\ AttemptOK(attempt[a], serverCart, orders)
  BY AtWork DEF PostLine, RequestInv, AttemptsOK
<1>2. x \in AttemptState /\ x.at = (IF x.left = {} THEN "create" ELSE "post")
      /\ x.order = attempt[a].order /\ x.resumes = attempt[a].resumes
      /\ x.left = attempt[a].left \ {p} /\ x.lines = attempt[a].lines
      /\ x.alone = attempt[a].alone
  BY <1>1 DEF Working, AttemptState
<1>3. /\ serverCart' = Upsert(serverCart, OneOfEach({p})) /\ orders' = orders /\ step' = step
      /\ attempt' = Disturb(Becomes(a, x), a)
  BY DEF PostLine, storeVars
<1> HIDE DEF x
<1>4. x \in Working
  BY <1>2 DEF Working
<1>5. x.alone => serverCart' = OneOfEach(x.lines \ x.left)
  <2>1. x.alone => serverCart = OneOfEach(x.lines \ attempt[a].left)
    BY <1>1, <1>2 DEF AttemptOK
  <2>2. /\ x.lines \ x.left = (x.lines \ attempt[a].left) \cup {p}
        /\ p \notin x.lines \ attempt[a].left
    BY <1>1, <1>2 DEF AttemptOK
  <2>3. QED
    BY <1>3, <2>1, <2>2, CartSums
<1>6. x.left = {} => x.lines \ x.left = x.lines
  OBVIOUS
<1>7. AttemptOK(x, serverCart', orders')
  <2>1. x.order = None /\ ~x.resumes /\ x.left \subseteq x.lines
    BY <1>1, <1>2 DEF AttemptOK
  <2>2. QED
    BY <1>2, <1>5, <1>6, <2>1 DEF AttemptOK
<1>8. AttemptsOK'
  BY <1>3, <1>4, <1>7, OneWrites, SameOrders DEF RequestInv
<1>9. ReservingHasRequest'
  <2>1. \A b \in Attempt : attempt'[b].at = Becomes(a, x)[b].at
    BY <1>3, <1>4, BecomesType, DisturbPlaces
  <2>2. QED
    BY <1>2, <1>3, <1>4, <2>1, BecomesType, ReservingMoves DEF RequestInv, Requesting
<1>10. QED
  BY <1>8, <1>9 DEF RequestInv

\* An attempt that ends leaves no more behind than the step it resets, or it
\* was past its requests.
LEMMA EndRequests ==
    ASSUME TypeInv, RequestInv, NEW a \in Attempt, attempt' = Becomes(a, Free),
           serverCart' = serverCart, OrdersKept, step' = step \/ step' # "reserving",
           attempt[a].at \in Requesting => step' # "reserving"
    PROVE  RequestInv'
<1>1. AttemptsOK'
  BY OneMoves DEF RequestInv
<1>2. \A b \in Attempt \ {a} : attempt'[b] = attempt[b]
  BY BecomesType
<1>3. ReservingHasRequest'
  <2>1. ASSUME step' = "reserving"
        PROVE  \E b \in Attempt : attempt'[b].at \in Requesting
    <3>1. PICK b \in Attempt : attempt[b].at \in Requesting
      BY <2>1 DEF RequestInv, ReservingHasRequest
    <3>2. b # a
      BY <2>1, <3>1
    <3>3. QED
      BY <1>2, <3>1, <3>2
  <2>2. QED
    BY <2>1 DEF ReservingHasRequest
<1>4. QED
  BY <1>1, <1>3 DEF RequestInv

\* A failed request ends the attempt and resets the step.
LEMMA RequestFailsRequests ==
    ASSUME TypeInv, RequestInv, NEW a \in Attempt, RequestFails(a)
    PROVE  RequestInv'
<1>1. step' = "idle" /\ orders' = orders
  BY DEF RequestFails, IntentRefused
<1>2. \/ attempt' = Becomes(a, Free) /\ serverCart' = serverCart
      \/ attempt' = Disturb(Becomes(a, Free), a)
  BY AfterTypes DEF RequestFails, TypeInv, TypeOK
<1>3. AttemptsOK'
  BY <1>1, <1>2, OneMoves, OneWrites, SameOrders DEF RequestInv
<1>4. QED
  BY <1>1, <1>3 DEF RequestInv, ReservingHasRequest

\* An attempt without the gateway is past its requests.
LEMMA ScriptFailsRequests ==
    ASSUME TypeInv, RequestInv, NEW a \in Attempt, ScriptFails(a)
    PROVE  RequestInv'
<1>1. /\ attempt' = Becomes(a, Free) /\ (step' = step \/ step' = "idle")
      /\ attempt[a].at = "script" /\ serverCart' = serverCart /\ orders' = orders
  BY DEF ScriptFails, serverVars
<1>2. QED
  BY <1>1, EndRequests, SameOrders DEF Requesting

\* So is one that opens its modal.
LEMMA OpenRazorpayRequests ==
    ASSUME TypeInv, RequestInv, NEW a \in Attempt, OpenRazorpay(a)
    PROVE  RequestInv'
<1>1. /\ attempt' = Becomes(a, Free) /\ (step' = step \/ step' = "payment_open")
      /\ attempt[a].at = "open" /\ serverCart' = serverCart /\ orders' = orders
  BY DEF OpenRazorpay, serverVars
<1>2. QED
  BY <1>1, EndRequests, SameOrders DEF Requesting

\* What is left of an attempt on its way to the modal knows nothing of the cart.
LEMMA LoadScriptRequests ==
    ASSUME TypeInv, RequestInv, NEW a \in Attempt, LoadScript(a)
    PROVE  RequestInv'
<1> DEFINE x == Rest(a, "open")
<1>1. attempt[a] \in Working /\ attempt[a].at = "script"
  BY AtWork DEF LoadScript
<1>2. x \in AttemptState /\ x.at = "open" /\ x.order = attempt[a].order /\ ~x.alone
  BY <1>1, CartTypes DEF Rest, Working, AttemptState
<1>3. /\ serverCart' = serverCart /\ orders' = orders /\ step' = step
      /\ attempt' = Becomes(a, x)
  BY DEF LoadScript, serverVars, storeVars
<1> HIDE DEF x
<1>4. x \in Working /\ AttemptOK(x, serverCart', orders')
  <2>1. x.order # None
    BY <1>1, <1>2 DEF Working
  <2>2. QED
    BY <1>2, <2>1 DEF Working, AttemptOK
<1>5. AttemptsOK'
  BY <1>3, <1>4, OneMoves, SameOrders DEF RequestInv
<1>6. ReservingHasRequest'
  BY <1>1, <1>3, <1>4, BecomesType, ReservingMoves DEF RequestInv, Requesting
<1>7. QED
  BY <1>5, <1>6 DEF RequestInv

\* create-payment keeps the orders that are placed, and answers with one that
\* has the items of the server's cart.
LEMMA OrderCartGives ==
    ASSUME TypeInv, NEW a \in Attempt, NEW o \in Order, OrderCart(a, o)
    PROVE  /\ OrdersKept
           /\ orders'[o].status # "none" /\ orders'[o].items = serverCart
           /\ serverCart' = serverCart
<1> DEFINE same == {p \in Reserved : orders[p].items = serverCart}
           new == [status |-> "pending", items |-> serverCart, now |-> attempt[a].now]
<1>1. /\ IF same = {} THEN orders[o].status = "none" ELSE o \in same
      /\ serverCart' = serverCart
      /\ \A p \in Order : orders'[p] =
            IF p = o /\ same = {} THEN new
            ELSE IF p \in Reserved \ {o} THEN [orders[p] EXCEPT !.status = "gone"]
            ELSE orders[p]
  BY DEF OrderCart
<1>2. ASSUME NEW p \in Order, orders[p].status # "none"
      PROVE  orders'[p].status # "none" /\ orders'[p].items = orders[p].items
  <2>1. ~(p = o /\ same = {})
    BY <1>1, <1>2
  <2>2. orders[p] \in [status : {"none", "pending", "paid", "gone"}, items : Units, now : BOOLEAN]
    BY DEF TypeInv, TypeOK
  <2>3. /\ [orders[p] EXCEPT !.status = "gone"].status = "gone"
        /\ [orders[p] EXCEPT !.status = "gone"].items = orders[p].items
    BY <2>2
  <2>4. QED
    BY <1>1, <1>2, <2>1, <2>3
<1>3. orders'[o].status # "none" /\ orders'[o].items = serverCart
  <2>1. CASE same = {}
    <3>1. orders'[o] = new
      BY <1>1, <2>1
    <3>2. QED
      BY <3>1
  <2>2. CASE same # {}
    <3>1. o \in same
      BY <1>1, <2>2
    <3>2. orders[o].status = "pending" /\ orders[o].items = serverCart
      BY <3>1 DEF Reserved
    <3>3. orders'[o] = orders[o]
      BY <1>1, <2>2
    <3>4. QED
      BY <3>2, <3>3
  <2>3. QED
    BY <2>1, <2>2
<1>4. QED
  BY <1>1, <1>2, <1>3 DEF OrdersKept

\* The answer of create-payment: as long as nobody else has written the
\* server's cart, the order has the lines of the checkout.
LEMMA CreatePaymentRequests ==
    ASSUME TypeInv, RequestInv, NEW a \in Attempt, NEW o \in Order, CreatePayment(a, o)
    PROVE  RequestInv'
<1>1. PICK at \in {"restore", "script"} :
         /\ attempt' = Becomes(a, [attempt[a] EXCEPT !.at = at, !.order = o])
         /\ at = "restore" => step' = step
         /\ at = "script" => step' = "payment_open"
  BY DEF CreatePayment, Created, IntentArrives, storeVars
<1> DEFINE x == [attempt[a] EXCEPT !.at = at, !.order = o]
<1>2. /\ attempt[a] \in Working /\ attempt[a].at = "create"
      /\ AttemptOK(attempt[a], serverCart, orders)
  BY AtWork DEF CreatePayment, RequestInv, AttemptsOK
<1>3. x \in AttemptState /\ x.at = at /\ x.order = o /\ x.lines = attempt[a].lines
      /\ x.alone = attempt[a].alone /\ x.resumes = attempt[a].resumes
  BY <1>2 DEF Working, AttemptState
<1>4. attempt' = Becomes(a, x)
  BY <1>1
<1>5. /\ OrdersKept /\ serverCart' = serverCart
      /\ orders'[o].status # "none" /\ orders'[o].items = serverCart
  BY OrderCartGives DEF CreatePayment
<1> HIDE DEF x
<1>6. x \in Working /\ AttemptOK(x, serverCart', orders')
  <2>1. x.alone => orders'[o].items = OneOfEach(x.lines)
    BY <1>2, <1>3, <1>5 DEF AttemptOK
  <2>2. QED
    BY <1>3, <1>5, <2>1, CheckoutPageAssumption DEF Working, AttemptOK
<1>7. AttemptsOK'
  BY <1>4, <1>5, <1>6, OneMoves DEF RequestInv
<1>8. ReservingHasRequest'
  <2>1. attempt'[a] = x /\ \A b \in Attempt \ {a} : attempt'[b] = attempt[b]
    BY <1>4, <1>6, BecomesType
  <2>2. CASE at = "restore"
    BY <1>1, <1>3, <2>1, <2>2, ReservingMoves DEF RequestInv, Requesting
  <2>3. CASE at = "script"
    BY <1>1, <2>3 DEF ReservingHasRequest
  <2>4. QED
    BY <2>2, <2>3
<1>9. QED
  BY <1>7, <1>8 DEF RequestInv

\* A create-payment that fails ends the attempt, or goes on to restore.
LEMMA CreateFailsRequests ==
    ASSUME TypeInv, RequestInv, NEW a \in Attempt, CreateFails(a)
    PROVE  RequestInv'
<1> DEFINE x == [attempt[a] EXCEPT !.at = "restore"]
<1>1. /\ attempt[a] \in Working /\ attempt[a].at = "create"
      /\ AttemptOK(attempt[a], serverCart, orders)
  BY AtWork DEF CreateFails, RequestInv, AttemptsOK
<1>2. OrdersKept /\ serverCart' = serverCart
  <2>1. UNCHANGED serverVars \/ \E o \in Order : OrderCart(a, o)
    BY DEF CreateFails
  <2>2. QED
    BY <2>1, OrderCartGives, SameOrders DEF serverVars
<1>3. \/ attempt' = Becomes(a, x) /\ step' = step
      \/ attempt' = Becomes(a, Free) /\ step' = "idle"
  BY DEF CreateFails, IntentRefused, storeVars
<1>4. x \in AttemptState /\ x.at = "restore" /\ x.order = attempt[a].order
  BY <1>1 DEF Working, AttemptState
<1> HIDE DEF x
<1>5. CASE attempt' = Becomes(a, x) /\ step' = step
  <2>1. x \in Working /\ AttemptOK(x, serverCart', orders')
    BY <1>1, <1>4 DEF Working, AttemptOK
  <2>2. AttemptsOK'
    BY <1>2, <1>5, <2>1, OneMoves DEF RequestInv
  <2>3. ReservingHasRequest'
    BY <1>4, <1>5, <2>1, BecomesType, ReservingMoves DEF RequestInv, Requesting
  <2>4. QED
    BY <2>2, <2>3 DEF RequestInv
<1>6. CASE attempt' = Becomes(a, Free) /\ step' = "idle"
  BY <1>2, <1>6, EndRequests
<1>7. QED
  BY <1>3, <1>5, <1>6

\* The saved lines are posted on top: the order has been placed by then.
LEMMA RestoreRequests ==
    ASSUME TypeInv, RequestInv, NEW a \in Attempt, Restore(a)
    PROVE  RequestInv'
<1> DEFINE y == [attempt[a] EXCEPT !.at = "script"]
           x == IF attempt[a].order = None THEN Free ELSE y
<1>1. /\ attempt[a] \in Working /\ attempt[a].at = "restore"
      /\ AttemptOK(attempt[a], serverCart, orders)
  BY AtWork DEF Restore, RequestInv, AttemptsOK
<1>2. y \in AttemptState /\ y.at = "script" /\ y.order = attempt[a].order
      /\ y.lines = attempt[a].lines /\ y.alone = attempt[a].alone /\ y.resumes = attempt[a].resumes
  BY <1>1 DEF Working, AttemptState
<1>3. attempt' = Disturb(Becomes(a, x), a) /\ orders' = orders /\ step' # "reserving"
  BY DEF Restore, IntentRefused, IntentArrives
<1> HIDE DEF y
<1>4. attempt[a].order # None => y \in Working /\ AttemptOK(y, serverCart', orders')
  BY <1>1, <1>2, <1>3 DEF Working, AttemptOK
<1>5. /\ x \in {Free} \cup Working
      /\ x # Free => AttemptOK(x, serverCart', orders')
  BY <1>4
<1> HIDE DEF x
<1>6. AttemptsOK'
  BY <1>3, <1>5, OneWrites, SameOrders DEF RequestInv
<1>7. ReservingHasRequest'
  BY <1>3 DEF ReservingHasRequest
<1>8. QED
  BY <1>6, <1>7 DEF RequestInv

\* A request nobody waits for disturbs every attempt.
LEMMA StrayEndsRequests ==
    ASSUME TypeInv, RequestInv, NEW p \in Product \cup {None}, StrayEnds(p)
    PROVE  RequestInv'
<1>1. orders' = orders /\ step' = step
  BY DEF StrayEnds, storeVars
<1>2. \/ attempt' = Disturb(attempt, None)
      \/ attempt' = attempt /\ serverCart' = serverCart
  BY DEF StrayEnds
<1>3. AttemptsOK'
  BY <1>1, <1>2, OthersWrite, NoneMoves, SameOrders DEF RequestInv
<1>4. \A b \in Attempt : attempt'[b].at = attempt[b].at
  BY <1>2, DisturbPlaces DEF TypeInv
<1>5. QED
  BY <1>1, <1>3, <1>4, ReservingStays DEF RequestInv

\* After a reload nothing is in flight, and no step waits for it.
LEMMA ReloadRequests ==
    ASSUME TypeInv, RequestInv, Reload
    PROVE  RequestInv'
<1>1. step' = "idle" /\ \A a \in Attempt : attempt'[a] = Free
  BY DEF Reload
<1>2. QED
  BY <1>1 DEF RequestInv, AttemptsOK, ReservingHasRequest

\* A verification empties the server's cart and changes the status of its
\* order.
LEMMA ServerVerifiesKeeps ==
    ASSUME TypeInv, RequestInv, NEW o \in Order, ServerVerifies(o)
    PROVE  AttemptsOK' /\ orders'[o].status = "paid"
<1>1. /\ orders[o].status # "none" /\ orders' = [orders EXCEPT ![o].status = "paid"]
      /\ \/ attempt' = Disturb(attempt, None)
         \/ attempt' = attempt /\ serverCart' = serverCart
  BY DEF ServerVerifies
<1>2. OrdersKept /\ orders'[o].status = "paid"
  BY <1>1 DEF OrdersKept, TypeInv, TypeOK
<1>3. QED
  BY <1>1, <1>2, OthersWrite, NoneMoves DEF RequestInv

\* A verified payment disturbs every attempt.
LEMMA VerifySucceedsRequests ==
    ASSUME TypeInv, RequestInv, NEW o \in Order, VerifySucceeds(o)
    PROVE  RequestInv'
<1>1. step' = "idle" /\ ServerVerifies(o)
  BY DEF VerifySucceeds
<1>2. QED
  BY <1>1, ServerVerifiesKeeps DEF RequestInv, ReservingHasRequest

\* A verification that fails may have done the same.
LEMMA VerifyFailsRequests ==
    ASSUME TypeInv, RequestInv, NEW o \in Order, VerifyFails(o)
    PROVE  RequestInv'
<1>1. step' = "payment_failed" /\ (ServerVerifies(o) \/ UNCHANGED <<serverVars, attempt, strays>>)
  BY DEF VerifyFails
<1>2. AttemptsOK'
  <2>1. CASE ServerVerifies(o)
    BY <2>1, ServerVerifiesKeeps
  <2>2. CASE UNCHANGED <<serverVars, attempt, strays>>
    <3>1. attempt' = attempt /\ serverCart' = serverCart /\ orders' = orders
      BY <2>2 DEF serverVars
    <3>2. QED
      BY <3>1, NoneMoves, SameOrders DEF RequestInv
  <2>3. QED
    BY <1>1, <2>1, <2>2
<1>3. QED
  BY <1>1, <1>2 DEF RequestInv, ReservingHasRequest

\* The webhook and the expiry worker change the status of an order only.
LEMMA ServerSettlesRequests ==
    ASSUME TypeInv, RequestInv, NEW o \in Order, ServerSettles(o)
    PROVE  RequestInv'
<1>1. PICK new \in {"paid", "gone"} : orders' = [orders EXCEPT ![o].status = new]
  BY DEF ServerSettles
<1>2. OrdersKept
  BY <1>1 DEF OrdersKept, TypeInv, TypeOK
<1>3. attempt' = attempt /\ serverCart' = serverCart /\ step' = step
  BY DEF ServerSettles, flightVars, storeVars
<1>4. QED
  BY <1>2, <1>3, QuietRequests

-----------------------------------------------------------------------------
(***************************************************************************)
(* The payments                                                            *)
(***************************************************************************)

\* A step that neither sends nor settles a verification, nor closes a guard.
LEMMA QuietPayments ==
    ASSUME VerifyInv, captured \subseteq captured', step' = step \/ step' # "verifying",
           \A o \in Order : verify'[o].sent = verify[o].sent /\ verify'[o].page = verify[o].page,
           \A m \in Mount : verifying'[m] => verifying[m]
    PROVE  VerifyInv'
<1>1. SentIsCaptured'
  BY DEF VerifyInv, SentIsCaptured
<1>2. step' = "verifying" => \E o \in Order : verify'[o].sent
  BY DEF VerifyInv, VerifyingHasRequest
<1>3. ASSUME NEW m \in Mount, verifying'[m]
      PROVE  \E o \in Order : verify'[o].sent /\ verify'[o].page = m
  BY <1>3 DEF VerifyInv, VerifyingHasRequest
<1>4. QED
  BY <1>1, <1>2, <1>3 DEF VerifyInv, VerifyingHasRequest

\* The handler of a payment that is captured closes the guard of its mount
\* and sends the verification; no verification of that order was under way.
LEMMA PayPayments ==
    ASSUME TypeInv, VerifyInv, Pay
    PROVE  VerifyInv'
<1> DEFINE o == Last(modals)[1]
           m == Last(modals)[2]
<1>1. o \in Order /\ m \in Mount
  BY TopModal DEF Pay
<1>2. o \notin captured /\ captured' = captured \cup {o}
  BY DEF Pay
<1>3. CASE verifying[m]
  <2>1. step' = step /\ verifying' = verifying /\ verify' = verify
    BY <1>3 DEF Pay
  <2>2. QED
    BY <1>2, <2>1, QuietPayments
<1>4. CASE ~verifying[m]
  <2>1. /\ verifying' = [verifying EXCEPT ![m] = TRUE]
        /\ verify' = [verify EXCEPT ![o] = [sent |-> TRUE, timer |-> TRUE, page |-> m]]
    BY <1>4 DEF Pay
  <2> HIDE DEF o, m
  <2>2. /\ verify'[o].sent /\ verify'[o].page = m
        /\ \A r \in Order \ {o} : verify'[r] = verify[r]
    BY <1>1, <2>1 DEF TypeInv, TypeOK
  <2>3. SentIsCaptured'
    BY <1>2, <2>2 DEF VerifyInv, SentIsCaptured
  <2>4. ASSUME NEW n \in Mount, verifying'[n]
        PROVE  \E r \in Order : verify'[r].sent /\ verify'[r].page = n
    <3>1. CASE n = m
      BY <1>1, <2>2, <3>1
    <3>2. CASE n # m
      <4>1. verifying[n]
        BY <2>1, <2>4, <3>2 DEF TypeInv, TypeOK
      <4>2. PICK r \in Order : verify[r].sent /\ verify[r].page = n
        BY <4>1 DEF VerifyInv, VerifyingHasRequest
      <4>3. r # o
        BY <1>2, <4>2 DEF VerifyInv, SentIsCaptured
      <4>4. QED
        BY <2>2, <4>2, <4>3
    <3>3. QED
      BY <3>1, <3>2
  <2>5. QED
    BY <1>1, <2>2, <2>3, <2>4 DEF VerifyInv, VerifyingHasRequest
<1>5. QED
  BY <1>3, <1>4

\* The end of a verification opens the guard of the mount that sent it.
LEMMA SettledPayments ==
    ASSUME TypeInv, VerifyInv, NEW o \in Order, Settled(o), captured' = captured,
           step' # "verifying"
    PROVE  VerifyInv'
<1> DEFINE m == verify[o].page
<1>1. /\ ~verify'[o].sent
      /\ \A r \in Order \ {o} : verify'[r] = verify[r]
      /\ verifying' = [verifying EXCEPT ![m] = FALSE]
  BY DEF Settled, TypeInv, TypeOK
<1>2. SentIsCaptured'
  BY <1>1 DEF VerifyInv, SentIsCaptured
<1>3. ASSUME NEW n \in Mount, verifying'[n]
      PROVE  \E r \in Order : verify'[r].sent /\ verify'[r].page = n
  <2>1. verifying[n] /\ n # m
    BY <1>1, <1>3 DEF TypeInv, TypeOK
  <2>2. PICK r \in Order : verify[r].sent /\ verify[r].page = n
    BY <2>1 DEF VerifyInv, VerifyingHasRequest
  <2>3. QED
    BY <1>1, <2>1, <2>2
<1>4. QED
  BY <1>2, <1>3 DEF VerifyInv, VerifyingHasRequest

\* The timer opens the guard; the request stays in flight.
LEMMA VerifyTimeoutPayments ==
    ASSUME TypeInv, VerifyInv, NEW o \in Order, VerifyTimeout(o)
    PROVE  VerifyInv'
<1>1. /\ verify' = [verify EXCEPT ![o].timer = FALSE]
      /\ verifying' = [verifying EXCEPT ![verify[o].page] = FALSE]
      /\ step' = step \/ step' = "payment_open"
      /\ captured' = captured
  BY DEF VerifyTimeout, serverVars
<1>2. \A r \in Order : verify'[r].sent = verify[r].sent /\ verify'[r].page = verify[r].page
  BY <1>1 DEF TypeInv, TypeOK
<1>3. \A m \in Mount : verifying'[m] => verifying[m]
  BY <1>1 DEF TypeInv, TypeOK
<1>4. QED
  BY <1>1, <1>2, <1>3, QuietPayments

\* A reload loses the requests and the guards with them.
LEMMA ReloadPayments ==
    ASSUME TypeInv, VerifyInv, Reload
    PROVE  VerifyInv'
<1>1. \A o \in Order : ~verify'[o].sent
  BY DEF Reload, TypeInv, TypeOK
<1>2. step' = "idle" /\ \A m \in Mount : ~verifying'[m]
  BY DEF Reload
<1>3. QED
  BY <1>1, <1>2 DEF VerifyInv, SentIsCaptured, VerifyingHasRequest

\* Resuming a payment and dismissing the end of a reservation open a guard.
LEMMA GuardOpens ==
    ASSUME TypeInv, VerifyInv, NEW m, verify' = verify, captured' = captured,
           verifying' \in {verifying, [verifying EXCEPT ![m] = FALSE]},
           step' = step \/ step' # "verifying"
    PROVE  VerifyInv'
<1>1. \A n \in Mount : verifying'[n] => verifying[n]
  BY DEF TypeInv, TypeOK
<1>2. QED
  BY <1>1, QuietPayments

-----------------------------------------------------------------------------
(***************************************************************************)
(* Every step                                                              *)
(***************************************************************************)

\* A step that is quiet for requests and payments alike.
LEMMA QuietStep ==
    ASSUME IInv, attempt' = attempt, serverCart' = serverCart, orders' = orders,
           verify' = verify, verifying' = verifying, captured \subseteq captured',
           step' = step \/ step' \notin {"reserving", "verifying"}
    PROVE  RequestInv' /\ VerifyInv'
BY QuietRequests, QuietPayments, SameOrders DEF IInv

\* A step of an attempt that leaves the payments alone.
LEMMA RequestStep ==
    ASSUME IInv, verify' = verify, verifying' = verifying, captured' = captured,
           step' = step \/ step' # "verifying"
    PROVE  VerifyInv'
BY QuietPayments DEF IInv

\* A shop that starts has nothing in flight.
LEMMA InitInv == Init => IInv
<1> SUFFICES ASSUME Init PROVE IInv
  OBVIOUS
<1>1. TypeInv
  <2>1. /\ intent \in [Mount -> Order \cup {None}]
        /\ verifying \in [Mount -> BOOLEAN]
        /\ page \in 0..MaxMounts
        /\ verify \in [Order -> [sent : BOOLEAN, timer : BOOLEAN, page : 0..MaxMounts]]
        /\ orders \in [Order -> [status : {"none", "pending", "paid", "gone"},
                               items : Units, now : BOOLEAN]]
    BY CartTypes, CheckoutPageAssumption DEF Init
  <2>2. /\ attempt \in [Attempt -> {Free} \cup Working]
        /\ attempt \in [Attempt -> {Free} \cup AttemptState]
    BY DEF Init
  <2>3. serverCart \in Units /\ modals \in Seq(Order \X Mount)
    BY CartTypes DEF Init
  <2>4. QED
    BY <2>1, <2>2, <2>3 DEF Init, TypeInv, TypeOK, Step
<1>2. RequestInv
  BY DEF Init, RequestInv, AttemptsOK, ReservingHasRequest
<1>3. VerifyInv
  BY DEF Init, VerifyInv, SentIsCaptured, VerifyingHasRequest
<1>4. QED
  BY <1>1, <1>2, <1>3 DEF IInv

\* The shop around the page.
LEMMA ShopInv ==
    ASSUME IInv, \/ \E p \in Product : AddToCart(p) \/ RemoveFromCart(p) \/ BuyNow(p)
                 \/ OpenPage \/ CheckoutCart \/ Leave \/ SignOut
    PROVE  IInv'
<1>1. ASSUME NEW p \in Product, AddToCart(p)
      PROVE  IInv'
  <2>1. /\ attempt' = attempt /\ serverCart' = serverCart /\ orders' = orders
        /\ verify' = verify /\ verifying' = verifying /\ captured \subseteq captured'
        /\ step' = step \/ step' \notin {"reserving", "verifying"}
    BY <1>1 DEF AddToCart, storeVars, refVars, flightVars, serverVars
  <2>2. QED
    BY <1>1, <2>1, QuietStep, AddToCartTypes DEF IInv
<1>2. ASSUME NEW p \in Product, RemoveFromCart(p)
      PROVE  IInv'
  <2>1. /\ attempt' = attempt /\ serverCart' = serverCart /\ orders' = orders
        /\ verify' = verify /\ verifying' = verifying /\ captured \subseteq captured'
        /\ step' = step \/ step' \notin {"reserving", "verifying"}
    BY <1>2 DEF RemoveFromCart, storeVars, refVars, flightVars, serverVars
  <2>2. QED
    BY <1>2, <2>1, QuietStep, RemoveFromCartTypes DEF IInv
<1>3. ASSUME NEW p \in Product, BuyNow(p)
      PROVE  IInv'
  <2>1. /\ attempt' = attempt /\ serverCart' = serverCart /\ orders' = orders
        /\ verify' = verify /\ verifying' = verifying /\ captured \subseteq captured'
        /\ step' = step \/ step' \notin {"reserving", "verifying"}
    BY <1>3 DEF BuyNow, storeVars, refVars, flightVars, serverVars
  <2>2. QED
    BY <1>3, <2>1, QuietStep, BuyNowTypes DEF IInv
<1>4. ASSUME OpenPage
      PROVE  IInv'
  <2>1. /\ attempt' = attempt /\ serverCart' = serverCart /\ orders' = orders
        /\ verify' = verify /\ verifying' = verifying /\ captured \subseteq captured'
        /\ step' = step \/ step' \notin {"reserving", "verifying"}
    BY <1>4 DEF OpenPage, storeVars, refVars, flightVars, serverVars
  <2>2. QED
    BY <1>4, <2>1, QuietStep, OpenPageTypes DEF IInv
<1>5. ASSUME CheckoutCart
      PROVE  IInv'
  <2>1. /\ attempt' = attempt /\ serverCart' = serverCart /\ orders' = orders
        /\ verify' = verify /\ verifying' = verifying /\ captured \subseteq captured'
        /\ step' = step \/ step' \notin {"reserving", "verifying"}
    BY <1>5 DEF CheckoutCart, storeVars, refVars, flightVars, serverVars
  <2>2. QED
    BY <1>5, <2>1, QuietStep, CheckoutCartTypes DEF IInv
<1>6. ASSUME Leave
      PROVE  IInv'
  <2>1. /\ attempt' = attempt /\ serverCart' = serverCart /\ orders' = orders
        /\ verify' = verify /\ verifying' = verifying /\ captured \subseteq captured'
        /\ step' = step \/ step' \notin {"reserving", "verifying"}
    BY <1>6 DEF Leave, storeVars, refVars, flightVars, serverVars
  <2>2. QED
    BY <1>6, <2>1, QuietStep, LeaveTypes DEF IInv
<1>7. ASSUME SignOut
      PROVE  IInv'
  <2>1. /\ attempt' = attempt /\ serverCart' = serverCart /\ orders' = orders
        /\ verify' = verify /\ verifying' = verifying /\ captured \subseteq captured'
        /\ step' \notin {"reserving", "verifying"}
    BY <1>7 DEF SignOut, refVars, flightVars, serverVars
  <2>2. QED
    BY <1>7, <2>1, QuietStep, SignOutTypes DEF IInv
<1>8. QED
  BY <1>1, <1>2, <1>3, <1>4, <1>5, <1>6, <1>7

\* What the customer does.
LEMMA CustomerInv ==
    ASSUME IInv, Customer
    PROVE  IInv'
<1>1. ASSUME PayUnseen
      PROVE  IInv'
  <2>1. /\ attempt' = attempt /\ serverCart' = serverCart /\ orders' = orders
        /\ verify' = verify /\ verifying' = verifying /\ captured \subseteq captured'
        /\ step' = step \/ step' \notin {"reserving", "verifying"}
    BY <1>1 DEF PayUnseen, storeVars, refVars, flightVars, serverVars
  <2>2. QED
    BY <1>1, <2>1, QuietStep, PayUnseenTypes DEF IInv
<1>2. ASSUME Dismiss
      PROVE  IInv'
  <2>1. /\ attempt' = attempt /\ serverCart' = serverCart /\ orders' = orders
        /\ verify' = verify /\ verifying' = verifying /\ captured \subseteq captured'
        /\ step' = step \/ step' \notin {"reserving", "verifying"}
    BY <1>2 DEF Dismiss, storeVars, refVars, flightVars, serverVars
  <2>2. QED
    BY <1>2, <2>1, QuietStep, DismissTypes DEF IInv
<1>3. ASSUME ConfirmGift
      PROVE  IInv'
  <2>1. /\ attempt' = attempt /\ serverCart' = serverCart /\ orders' = orders
        /\ verify' = verify /\ verifying' = verifying /\ captured \subseteq captured'
        /\ step' = step \/ step' \notin {"reserving", "verifying"}
    BY <1>3 DEF ConfirmGift, storeVars, refVars, flightVars, serverVars
  <2>2. QED
    BY <1>3, <2>1, QuietStep, ConfirmGiftTypes DEF IInv
<1>4. ASSUME Reload
      PROVE  IInv'
  BY <1>4, ReloadTypes, ReloadRequests, ReloadPayments DEF IInv
<1>5. ASSUME Pay
      PROVE  IInv'
  <2>1. /\ attempt' = attempt /\ serverCart' = serverCart /\ orders' = orders
        /\ step' = step \/ step' # "reserving"
    BY <1>5 DEF Pay
  <2>2. QED
    BY <1>5, <2>1, PayTypes, PayPayments, QuietRequests, SameOrders DEF IInv
<1>6. ASSUME DismissExpired
      PROVE  IInv'
  <2>1. /\ attempt' = attempt /\ serverCart' = serverCart /\ orders' = orders
        /\ step' = "idle" /\ verify' = verify /\ captured' = captured
        /\ verifying' = [verifying EXCEPT ![page] = FALSE]
    BY <1>6 DEF DismissExpired, flightVars, serverVars
  <2>2. QED
    BY <1>6, <2>1, DismissExpiredTypes, GuardOpens, QuietRequests, SameOrders DEF IInv
<1>7. ASSUME NEW a \in Attempt, PlaceOrder(a)
      PROVE  IInv'
  <2>1. /\ verify' = verify /\ verifying' = verifying /\ captured' = captured
        /\ step' = step \/ step' # "verifying"
    BY <1>7 DEF PlaceOrder, storeVars, refVars, flightVars, serverVars
  <2>2. QED
    BY <1>7, <2>1, RequestStep, PlaceOrderTypes, PlaceOrderRequests DEF IInv
<1>8. ASSUME NEW a \in Attempt, RetryPayment(a)
      PROVE  IInv'
  <2>1. /\ verify' = verify /\ captured' = captured /\ step' = step
        /\ verifying' \in {verifying, [verifying EXCEPT ![page] = FALSE]}
    BY <1>8 DEF RetryPayment, storeVars, serverVars
  <2>2. QED
    BY <1>8, <2>1, RetryPaymentTypes, RetryPaymentRequests, GuardOpens DEF IInv
<1>9. QED
  BY <1>1, <1>2, <1>3, <1>4, <1>5, <1>6, <1>7, <1>8, ShopInv DEF Customer

\* The requests of an attempt.
LEMMA AttemptInv ==
    ASSUME IInv, NEW c \in Attempt, AttemptStep(c)
    PROVE  IInv'
<1>1. ASSUME NEW a \in Attempt, SaveCart(a)
      PROVE  IInv'
  <2>1. /\ verify' = verify /\ verifying' = verifying /\ captured' = captured
        /\ step' = step \/ step' # "verifying"
    BY <1>1 DEF SaveCart, storeVars, refVars, flightVars, serverVars
  <2>2. QED
    BY <1>1, <2>1, RequestStep, SaveCartTypes, SaveCartRequests DEF IInv
<1>2. ASSUME NEW a \in Attempt, EmptyCart(a)
      PROVE  IInv'
  <2>1. /\ verify' = verify /\ verifying' = verifying /\ captured' = captured
        /\ step' = step \/ step' # "verifying"
    BY <1>2 DEF EmptyCart, storeVars, refVars, flightVars, serverVars
  <2>2. QED
    BY <1>2, <2>1, RequestStep, EmptyCartTypes, EmptyCartRequests DEF IInv
<1>3. ASSUME NEW a \in Attempt, RequestFails(a)
      PROVE  IInv'
  <2>1. /\ verify' = verify /\ verifying' = verifying /\ captured' = captured
        /\ step' = step \/ step' # "verifying"
    BY <1>3 DEF RequestFails, IntentRefused, storeVars, refVars, flightVars, serverVars
  <2>2. QED
    BY <1>3, <2>1, RequestStep, RequestFailsTypes, RequestFailsRequests DEF IInv
<1>4. ASSUME NEW a \in Attempt, NEW p \in Product, PostLine(a, p)
      PROVE  IInv'
  <2>1. /\ verify' = verify /\ verifying' = verifying /\ captured' = captured
        /\ step' = step \/ step' # "verifying"
    BY <1>4 DEF PostLine, storeVars, refVars, flightVars, serverVars
  <2>2. QED
    BY <1>4, <2>1, RequestStep, PostLineTypes, PostLineRequests DEF IInv
<1>5. ASSUME NEW a \in Attempt, NEW o \in Order, CreatePayment(a, o)
      PROVE  IInv'
  <2>1. /\ verify' = verify /\ verifying' = verifying /\ captured' = captured
        /\ step' = step \/ step' # "verifying"
    BY <1>5 DEF CreatePayment, Created, IntentArrives, OrderCart, storeVars, refVars, flightVars,
                serverVars
  <2>2. QED
    BY <1>5, <2>1, RequestStep, CreatePaymentTypes, CreatePaymentRequests DEF IInv
<1>6. ASSUME NEW a \in Attempt, CreateFails(a)
      PROVE  IInv'
  <2>1. /\ verify' = verify /\ verifying' = verifying /\ captured' = captured
        /\ step' = step \/ step' # "verifying"
    BY <1>6 DEF CreateFails, IntentRefused, OrderCart, storeVars, refVars, flightVars, serverVars
  <2>2. QED
    BY <1>6, <2>1, RequestStep, CreateFailsTypes, CreateFailsRequests DEF IInv
<1>7. ASSUME NEW a \in Attempt, Restore(a)
      PROVE  IInv'
  <2>1. /\ verify' = verify /\ verifying' = verifying /\ captured' = captured
        /\ step' = step \/ step' # "verifying"
    BY <1>7 DEF Restore, IntentRefused, IntentArrives, storeVars, refVars, flightVars, serverVars
  <2>2. QED
    BY <1>7, <2>1, RequestStep, RestoreTypes, RestoreRequests DEF IInv
<1>8. ASSUME NEW a \in Attempt, LoadScript(a)
      PROVE  IInv'
  <2>1. /\ verify' = verify /\ verifying' = verifying /\ captured' = captured
        /\ step' = step \/ step' # "verifying"
    BY <1>8 DEF LoadScript, storeVars, refVars, flightVars, serverVars
  <2>2. QED
    BY <1>8, <2>1, RequestStep, LoadScriptTypes, LoadScriptRequests DEF IInv
<1>9. ASSUME NEW a \in Attempt, ScriptFails(a)
      PROVE  IInv'
  <2>1. /\ verify' = verify /\ verifying' = verifying /\ captured' = captured
        /\ step' = step \/ step' # "verifying"
    BY <1>9 DEF ScriptFails, storeVars, refVars, flightVars, serverVars
  <2>2. QED
    BY <1>9, <2>1, RequestStep, ScriptFailsTypes, ScriptFailsRequests DEF IInv
<1>10. ASSUME NEW a \in Attempt, OpenRazorpay(a)
      PROVE  IInv'
  <2>1. /\ verify' = verify /\ verifying' = verifying /\ captured' = captured
        /\ step' = step \/ step' # "verifying"
    BY <1>10 DEF OpenRazorpay, storeVars, refVars, flightVars, serverVars
  <2>2. QED
    BY <1>10, <2>1, RequestStep, OpenRazorpayTypes, OpenRazorpayRequests DEF IInv
<1>11. QED
  BY <1>1, <1>2, <1>3, <1>4, <1>5, <1>6, <1>7, <1>8, <1>9, <1>10 DEF AttemptStep

\* What happens to an order.
LEMMA OrderInv ==
    ASSUME IInv, NEW r \in Order,
           Rehydrate(r) \/ VerifyAnswered(r) \/ VerifyTimeout(r) \/ HoldEnds(r) \/ ServerSettles(r)
    PROVE  IInv'
<1>1. ASSUME NEW o \in Order, Rehydrate(o)
      PROVE  IInv'
  <2>1. /\ attempt' = attempt /\ serverCart' = serverCart /\ orders' = orders
        /\ verify' = verify /\ verifying' = verifying /\ captured \subseteq captured'
        /\ step' = step \/ step' \notin {"reserving", "verifying"}
    BY <1>1 DEF Rehydrate, storeVars, refVars, flightVars, serverVars
  <2>2. QED
    BY <1>1, <2>1, QuietStep, RehydrateTypes DEF IInv
<1>2. ASSUME NEW o \in Order, HoldEnds(o)
      PROVE  IInv'
  <2>1. /\ attempt' = attempt /\ serverCart' = serverCart /\ orders' = orders
        /\ verify' = verify /\ verifying' = verifying /\ captured \subseteq captured'
        /\ step' = step \/ step' \notin {"reserving", "verifying"}
    BY <1>2 DEF HoldEnds, storeVars, refVars, flightVars, serverVars
  <2>2. QED
    BY <1>2, <2>1, QuietStep, HoldEndsTypes DEF IInv
<1>3. ASSUME NEW o \in Order, VerifySucceeds(o)
      PROVE  IInv'
  <2>1. Settled(o) /\ captured' = captured /\ step' # "verifying"
    BY <1>3 DEF VerifySucceeds, ServerVerifies, serverVars
  <2>2. QED
    BY <1>3, <2>1, VerifySucceedsTypes, VerifySucceedsRequests, SettledPayments DEF IInv
<1>4. ASSUME NEW o \in Order, VerifyFails(o)
      PROVE  IInv'
  <2>1. Settled(o) /\ captured' = captured /\ step' # "verifying"
    BY <1>4 DEF VerifyFails, ServerVerifies, serverVars
  <2>2. QED
    BY <1>4, <2>1, VerifyFailsTypes, VerifyFailsRequests, SettledPayments DEF IInv
<1>5. ASSUME NEW o \in Order, VerifyTimeout(o)
      PROVE  IInv'
  <2>1. /\ attempt' = attempt /\ serverCart' = serverCart /\ orders' = orders
        /\ step' = step \/ step' # "reserving"
    BY <1>5 DEF VerifyTimeout, serverVars
  <2>2. QED
    BY <1>5, <2>1, VerifyTimeoutTypes, VerifyTimeoutPayments, QuietRequests, SameOrders DEF IInv
<1>6. ASSUME NEW o \in Order, ServerSettles(o)
      PROVE  IInv'
  <2>1. /\ verify' = verify /\ verifying' = verifying /\ captured' = captured
        /\ step' = step \/ step' # "verifying"
    BY <1>6 DEF ServerSettles, storeVars, refVars, flightVars, serverVars
  <2>2. QED
    BY <1>6, <2>1, RequestStep, ServerSettlesTypes, ServerSettlesRequests DEF IInv
<1>7. QED
  BY <1>1, <1>2, <1>3, <1>4, <1>5, <1>6 DEF VerifyAnswered

\* Every step.
LEMMA NextInv ==
    ASSUME IInv, [Next]_vars
    PROVE  IInv'
<1>1. ASSUME NEW p \in Product \cup {None}, StrayEnds(p)
      PROVE  IInv'
  <2>1. /\ verify' = verify /\ verifying' = verifying /\ captured' = captured /\ step' = step
    BY <1>1 DEF StrayEnds, storeVars, refVars
  <2>2. QED
    BY <1>1, <2>1, RequestStep, StrayEndsTypes, StrayEndsRequests DEF IInv
<1>2. ASSUME CountdownEnds
      PROVE  IInv'
  <2>1. /\ attempt' = attempt /\ serverCart' = serverCart /\ orders' = orders
        /\ verify' = verify /\ verifying' = verifying /\ captured \subseteq captured'
        /\ step' = step \/ step' \notin {"reserving", "verifying"}
    BY <1>2 DEF CountdownEnds, storeVars, refVars, flightVars, serverVars
  <2>2. QED
    BY <1>2, <2>1, QuietStep, CountdownEndsTypes DEF IInv
<1>3. CASE UNCHANGED vars
  <2>1. /\ UNCHANGED <<localVars, storeVars, refVars>>
        /\ UNCHANGED <<pageVars, flightVars, serverVars>>
    BY <1>3 DEF vars
  <2>2. /\ attempt' = attempt /\ serverCart' = serverCart /\ orders' = orders
        /\ verify' = verify /\ verifying' = verifying /\ captured \subseteq captured'
        /\ step' = step
    BY <2>1 DEF storeVars, refVars, flightVars, serverVars
  <2>3. TypeInv'
    BY <2>1, SameTypes, AllTypes DEF IInv, localVars, storeVars, refVars, pageVars, flightVars,
                                     serverVars
  <2>4. QED
    BY <2>2, <2>3, QuietStep DEF IInv
<1>4. QED
  BY <1>1, <1>2, <1>3, CustomerInv, AttemptInv, OrderInv DEF Next

\* The invariant holds in every state.
LEMMA Invariance == Spec => []IInv
<1>1. Init => IInv
  BY InitInv
<1>2. IInv /\ [Next]_vars => IInv'
  BY NextInv
<1>3. QED
  BY <1>1, <1>2, PTL DEF Spec

-----------------------------------------------------------------------------
\* Type correctness, for any number of products, orders, attempts and mounts.
THEOREM PageTypesCorrect == Spec => []TypeOK
<1>1. IInv => TypeOK
  BY DEF IInv, TypeInv
<1>2. QED
  BY <1>1, Invariance, PTL

\* An order never takes in what an earlier checkout left in the server's
\* cart, nor goes out without a line whose POST failed.
THEOREM OrderIsWhatWasShown == Spec => []OrdersWhatItShowed
<1>1. IInv => OrdersWhatItShowed
  BY DEF IInv, RequestInv, AttemptsOK, AttemptOK, OrdersWhatItShowed
<1>2. QED
  BY <1>1, Invariance, PTL

\* What keeps the customer from paying has a request in flight.
THEOREM BusyEnds == Spec => []BusyHasRequest
<1>1. IInv => BusyHasRequest
  BY DEF IInv, RequestInv, VerifyInv, ReservingHasRequest, VerifyingHasRequest, BusyHasRequest,
         Requesting
<1>2. QED
  BY <1>1, Invariance, PTL
=============================================================================
