------------------------------ MODULE ApiClient ------------------------------
(***************************************************************************)
(* The HTTP client of both frontends                                       *)
(* (packages/shared-api/src/lib/api/client.ts): a request is sent with a   *)
(* timeout, sent again after a transient failure if it is a GET, and once  *)
(* more from the start after a 401 and a new token.  The query layer runs  *)
(* a GET again when it failed transiently (createAppQueryClient); a        *)
(* mutation runs once.  The options no caller uses (signal, skipAuth,      *)
(* retries) are left out.                                                  *)
(*                                                                         *)
(* A failure is "transient" (network, timeout, abort, HTTP 5xx, 408, 429:  *)
(* ApiError.isRetryable), "unauthorized" (HTTP 401) or "rejected" (any     *)
(* other).  The server may have done what a request asked for whatever the *)
(* client was told: a handler commits and raises afterwards (the payment   *)
(* intent answers 422 and keeps its order, orders/service.py), the body of *)
(* a success cannot be read, the server goes on with a request the client  *)
(* gave up.  A 401 is different: the token is checked before the handler.  *)
(***************************************************************************)
EXTENDS Integers

CONSTANTS
    Request,
    Gets,            \* the requests that are GETs; the others change the server
    MaxRetries,      \* the retries of a GET (2)
    MaxQueryRetries  \* how often the query layer runs a GET again (2)

ASSUME ApiAssumption ==
    /\ Gets \subseteq Request
    /\ MaxRetries \in Nat
    /\ MaxQueryRetries \in Nat

VARIABLES
    phase,      \* where request() is
    attempt,    \* the retries of the loop so far
    retried,    \* whether this is the call after a 401
    failures,   \* how often the query layer has seen it fail
    wire,       \* what has become of the fetch in flight
    late,       \* changes that were given up and the server may still make
    result,     \* what the caller was told
    sent,       \* (history) the fetches of this run of the request
    effects     \* (history) how often the server made the change asked for

loopVars == <<phase, attempt, retried, failures, result>>
vars == <<loopVars, wire, late, sent, effects>>

Phase == {"idle", "ready", "flight", "refreshing", "waiting", "queued", "done"}
Answer == {"ok", "transient", "rejected", "unauthorized"}
Told == Answer \cup {"none"}

TypeOK ==
    /\ phase \in [Request -> Phase]
    /\ attempt \in [Request -> 0..MaxRetries]
    /\ retried \in [Request -> BOOLEAN]
    /\ failures \in [Request -> 0..MaxQueryRetries]
    /\ wire \in [Request -> Answer \cup {"none", "sent"}]
    /\ late \in [Request -> Nat]
    /\ result \in [Request -> Told]
    /\ sent \in [Request -> Nat]
    /\ effects \in [Request -> Nat]

Init ==
    /\ phase = [r \in Request |-> "idle"]
    /\ attempt = [r \in Request |-> 0]
    /\ retried = [r \in Request |-> FALSE]
    /\ failures = [r \in Request |-> 0]
    /\ wire = [r \in Request |-> "none"]
    /\ late = [r \in Request |-> 0]
    /\ result = [r \in Request |-> "none"]
    /\ sent = [r \in Request |-> 0]
    /\ effects = [r \in Request |-> 0]

\* Faulty variant: every request is retried.
RetriesAll(r) == MaxRetries

\* maxRetries
Retries(r) == IF r \in Gets THEN MaxRetries ELSE 0

-----------------------------------------------------------------------------
(***************************************************************************)
(* How a run of request() ends                                             *)
(***************************************************************************)

\* The caller is told.
Tell(r, told) ==
    /\ phase' = [phase EXCEPT ![r] = "done"]
    /\ result' = [result EXCEPT ![r] = told]
    /\ UNCHANGED <<attempt, retried, failures>>

\* retry of the QueryClient
RunAgain(r) == r \in Gets /\ failures[r] < MaxQueryRetries

\* The catch of the loop: another attempt after a delay, or the error is
\* thrown to the caller.
Throw(r) ==
    \/ /\ attempt[r] < Retries(r)
       /\ attempt' = [attempt EXCEPT ![r] = @ + 1]
       /\ phase' = [phase EXCEPT ![r] = "waiting"]
       /\ UNCHANGED <<retried, failures, result>>
    \/ /\ attempt[r] >= Retries(r)
       /\ RunAgain(r)
       /\ failures' = [failures EXCEPT ![r] = @ + 1]
       /\ phase' = [phase EXCEPT ![r] = "queued"]
       /\ UNCHANGED <<attempt, retried, result>>
    \/ /\ attempt[r] >= Retries(r)
       /\ ~RunAgain(r)
       /\ Tell(r, "transient")

-----------------------------------------------------------------------------
(***************************************************************************)
(* The steps of the client                                                 *)
(***************************************************************************)

\* A component calls api.get, api.post and so on.
Start(r) ==
    /\ phase[r] = "idle"
    /\ phase' = [phase EXCEPT ![r] = "ready"]
    /\ UNCHANGED <<attempt, retried, failures, result, wire, late, sent, effects>>

\* fetch
Send(r) ==
    /\ phase[r] = "ready"
    /\ phase' = [phase EXCEPT ![r] = "flight"]
    /\ wire' = [wire EXCEPT ![r] = "sent"]
    /\ sent' = [sent EXCEPT ![r] = @ + 1]
    /\ UNCHANGED <<attempt, retried, failures, result, late, effects>>

\* The fetch in flight is no more; the server may not know.
GiveUp(r) ==
    /\ late' = [late EXCEPT ![r] = IF wire[r] = "sent" /\ r \notin Gets
                                  THEN @ + 1 ELSE @]
    /\ wire' = [wire EXCEPT ![r] = "none"]
    /\ Throw(r)
    /\ UNCHANGED <<sent, effects>>

\* Faulty variant: the timer is cleared once there is an answer, so that a
\* body that never ends is waited for.
TimesOutUnanswered(r) ==
    /\ phase[r] = "flight"
    /\ wire[r] = "sent"
    /\ GiveUp(r)

\* The timer fires, while the answer is awaited or its body is read.
TimesOut(r) ==
    /\ phase[r] = "flight"
    /\ GiveUp(r)

\* The connection fails, before or after the server has the request.
NetworkFails(r) ==
    /\ phase[r] = "flight"
    /\ \/ GiveUp(r)
       \/ /\ wire' = [wire EXCEPT ![r] = "none"]
          /\ Throw(r)
          /\ UNCHANGED <<late, sent, effects>>

\* The answer arrives.  A success with a body that is no JSON or says
\* "success: false" is an error that is not retried.  A 401 asks for a new
\* token, unless this is the call after one; then it is an error like another.
AnswerArrives(r) ==
    /\ phase[r] = "flight"
    /\ wire[r] \in Answer
    /\ wire' = [wire EXCEPT ![r] = "none"]
    /\ \/ /\ wire[r] = "ok"
          /\ Tell(r, "ok") \/ Tell(r, "rejected")
       \/ /\ wire[r] = "rejected"
          /\ Tell(r, "rejected")
       \/ /\ wire[r] = "transient"
          /\ Throw(r)
       \/ /\ wire[r] = "unauthorized"
          /\ ~retried[r]
          /\ phase' = [phase EXCEPT ![r] = "refreshing"]
          /\ UNCHANGED <<attempt, retried, failures, result>>
       \/ /\ wire[r] = "unauthorized"
          /\ retried[r]
          /\ Tell(r, "unauthorized")
    /\ UNCHANGED <<late, sent, effects>>

\* refreshSession has a session: request() once more, with its own retries.
Refreshed(r) ==
    /\ phase[r] = "refreshing"
    /\ phase' = [phase EXCEPT ![r] = "ready"]
    /\ attempt' = [attempt EXCEPT ![r] = 0]
    /\ retried' = [retried EXCEPT ![r] = TRUE]
    /\ UNCHANGED <<failures, result, wire, late, sent, effects>>

\* It has none and the 401 is thrown, or it throws itself.
NotRefreshed(r) ==
    /\ phase[r] = "refreshing"
    /\ Tell(r, "unauthorized") \/ Throw(r)
    /\ UNCHANGED <<wire, late, sent, effects>>

\* The delay before another attempt is over.
Retry(r) ==
    /\ phase[r] = "waiting"
    /\ phase' = [phase EXCEPT ![r] = "ready"]
    /\ UNCHANGED <<attempt, retried, failures, result, wire, late, sent, effects>>

\* The delay before another run of the query is over.
QueryRetry(r) ==
    /\ phase[r] = "queued"
    /\ phase' = [phase EXCEPT ![r] = "ready"]
    /\ attempt' = [attempt EXCEPT ![r] = 0]
    /\ retried' = [retried EXCEPT ![r] = FALSE]
    /\ sent' = [sent EXCEPT ![r] = 0]
    /\ UNCHANGED <<failures, result, wire, late, effects>>

-----------------------------------------------------------------------------
(***************************************************************************)
(* The server                                                              *)
(***************************************************************************)

\* It does what is asked and says so, or fails afterwards: with a 5xx, or with
\* the 4xx of a handler that has committed (create_payment_intent).
Serves(r) ==
    /\ wire[r] = "sent"
    /\ effects' = [effects EXCEPT ![r] = IF r \in Gets THEN @ ELSE @ + 1]
    /\ \E answer \in {"ok", "transient", "rejected"} :
          wire' = [wire EXCEPT ![r] = answer]
    /\ UNCHANGED <<loopVars, late, sent>>

\* It does nothing.  It can still say that it did: the transaction of a
\* handler is committed when its session is closed (get_db).
Refuses(r) ==
    /\ wire[r] = "sent"
    /\ \E answer \in Answer : wire' = [wire EXCEPT ![r] = answer]
    /\ UNCHANGED <<loopVars, late, sent, effects>>

\* It comes to a change the client has given up: it makes it, or never got it.
ServesLate(r) ==
    /\ late[r] > 0
    /\ late' = [late EXCEPT ![r] = @ - 1]
    /\ \/ effects' = [effects EXCEPT ![r] = @ + 1]
       \/ UNCHANGED effects
    /\ UNCHANGED <<loopVars, wire, sent>>

-----------------------------------------------------------------------------
Next ==
    \E r \in Request :
        \/ Start(r) \/ Send(r) \/ TimesOut(r) \/ NetworkFails(r)
        \/ AnswerArrives(r) \/ Refreshed(r) \/ NotRefreshed(r)
        \/ Retry(r) \/ QueryRetry(r)
        \/ Serves(r) \/ Refuses(r) \/ ServesLate(r)

Spec == Init /\ [][Next]_vars

\* The event loop runs what is ready, timers fire, and Supabase answers
\* refreshSession.  Neither the server nor the network is trusted to answer.
Fairness ==
    \A r \in Request :
        /\ WF_vars(Send(r))
        /\ WF_vars(TimesOut(r))
        /\ WF_vars(Refreshed(r) \/ NotRefreshed(r))
        /\ WF_vars(Retry(r))
        /\ WF_vars(QueryRetry(r))

FairSpec == Spec /\ Fairness

-----------------------------------------------------------------------------
(***************************************************************************)
(* Properties                                                              *)
(***************************************************************************)

\* What changes the server is done at most once for one call of the client,
\* whatever is lost or late and though a 401 sends it twice (request).
AtMostOnce == \A r \in Request \ Gets : effects[r] <= 1

\* A caller who is told 401 (isUnauthorized) may rely on it: the change was not
\* made and is not about to be, although it may have been sent twice (_retried,
\* and no retry of what is not a GET, in request).
UnauthorizedMeansUndone ==
    \A r \in Request \ Gets :
        result[r] = "unauthorized" => effects[r] = 0 /\ late[r] = 0

\* One run of a request is at most two times maxRetries + 1 fetches, however
\* often the server answers 401 (_retried of request).
SendsBounded == \A r \in Request : sent[r] <= 2 * (Retries(r) + 1)

\* Every call comes back to its caller, if nobody ever answers too (withTimeout,
\* the counters of request and of the query layer).
Settles == \A r \in Request : phase[r] = "ready" ~> phase[r] = "done"
=============================================================================
