--------------------------- MODULE ApiClientProofs ---------------------------
(***************************************************************************)
(* The client sends a bounded number of times, and changes the server at   *)
(* most once: for any requests and any numbers of retries.                 *)
(***************************************************************************)
EXTENDS ApiClient, TLAPS

\* The fetches of the call before the 401, and of the attempts so far
SentInLoop(r) ==
    /\ attempt[r] <= Retries(r)
    /\ phase[r] = "refreshing" => ~retried[r]
    /\ sent[r] <= (IF retried[r] THEN Retries(r) + 1 ELSE 0) + attempt[r]
                      + (IF phase[r] \in {"ready", "waiting", "idle"} THEN 0 ELSE 1)

\* Nothing that was asked for has been done, or may still be.
Undone(r) == effects[r] = 0 /\ late[r] = 0

\* A change is sent once, but after a 401: what sends it again, or tells of the
\* 401, knows that it is undone.
OneChange(r) ==
    /\ phase[r] \notin {"waiting", "queued"}
    /\ result[r] # "none" => phase[r] = "done"
    /\ effects[r] + late[r] <= 1
    /\ phase[r] \in {"idle", "ready", "refreshing"} => Undone(r)
    /\ wire[r] # "none" => phase[r] = "flight"
    /\ wire[r] \in {"sent", "unauthorized"} => Undone(r)
    /\ result[r] = "unauthorized" => Undone(r)

IInv ==
    /\ TypeOK
    /\ \A r \in Request : SentInLoop(r)
    /\ \A r \in Request \ Gets : OneChange(r)

\* One step of one request leaves the others alone.
Others(r) ==
    \A q \in Request \ {r} :
        /\ phase'[q] = phase[q] /\ attempt'[q] = attempt[q] /\ retried'[q] = retried[q]
        /\ wire'[q] = wire[q] /\ late'[q] = late[q] /\ result'[q] = result[q]
        /\ sent'[q] = sent[q] /\ effects'[q] = effects[q]

\* The bound of the loop
LEMMA RetriesType ==
    ASSUME NEW r \in Request
    PROVE  Retries(r) \in 0..MaxRetries /\ (r \notin Gets => Retries(r) = 0)
BY ApiAssumption DEF Retries

\* What a throw does to the loop
LEMMA ThrowEffect ==
    ASSUME TypeOK, NEW r \in Request, SentInLoop(r), Throw(r)
    PROVE  /\ phase' \in [Request -> Phase] /\ attempt' \in [Request -> 0..MaxRetries]
           /\ failures' \in [Request -> 0..MaxQueryRetries]
           /\ result' \in [Request -> Told]
           /\ retried' = retried
           /\ \A q \in Request \ {r} : /\ phase'[q] = phase[q] /\ attempt'[q] = attempt[q]
                                    /\ result'[q] = result[q]
           /\ \/ phase'[r] = "waiting" /\ attempt'[r] = attempt[r] + 1 /\ attempt[r] < Retries(r)
              \/ phase'[r] \in {"queued", "done"} /\ attempt'[r] = attempt[r]
           /\ r \notin Gets => phase'[r] = "done" /\ result'[r] = "transient"
<1>1. /\ attempt[r] \in 0..MaxRetries /\ Retries(r) \in 0..MaxRetries
      /\ r \notin Gets => Retries(r) = 0
  BY RetriesType DEF TypeOK
<1>2. CASE /\ attempt[r] < Retries(r)
           /\ attempt' = [attempt EXCEPT ![r] = @ + 1]
           /\ phase' = [phase EXCEPT ![r] = "waiting"]
           /\ UNCHANGED <<retried, failures, result>>
  BY <1>1, <1>2, ApiAssumption DEF TypeOK, Phase
<1>3. CASE /\ RunAgain(r)
           /\ failures' = [failures EXCEPT ![r] = @ + 1]
           /\ phase' = [phase EXCEPT ![r] = "queued"]
           /\ UNCHANGED <<attempt, retried, result>>
  BY <1>1, <1>3, ApiAssumption DEF TypeOK, Phase, RunAgain
<1>4. CASE Tell(r, "transient")
  BY <1>1, <1>4 DEF TypeOK, Phase, Tell, Told, Answer
<1>5. QED
  BY <1>2, <1>3, <1>4 DEF Throw

\* Each step of a request keeps its types and touches no other.
LEMMA StepTypes ==
    ASSUME IInv, NEW r \in Request,
           \/ Start(r) \/ Send(r) \/ TimesOut(r) \/ NetworkFails(r)
           \/ AnswerArrives(r) \/ Refreshed(r) \/ NotRefreshed(r)
           \/ Retry(r) \/ QueryRetry(r)
           \/ Serves(r) \/ Refuses(r) \/ ServesLate(r)
    PROVE  TypeOK' /\ Others(r)
<1> USE DEF IInv
<1>1. CASE Start(r)
  BY <1>1 DEF Start, TypeOK, Others, Phase
<1>2. CASE Send(r)
  BY <1>2 DEF Send, TypeOK, Others, Phase
<1>3. ASSUME GiveUp(r) PROVE TypeOK' /\ Others(r)
  <2>1. /\ late' \in [Request -> Nat] /\ \A q \in Request \ {r} : late'[q] = late[q]
        /\ wire' = [wire EXCEPT ![r] = "none"] /\ sent' = sent /\ effects' = effects
        /\ Throw(r)
    BY <1>3 DEF GiveUp, TypeOK
  <2>2. wire' \in [Request -> Answer \cup {"none", "sent"}]
        /\ \A q \in Request \ {r} : wire'[q] = wire[q]
    BY <2>1 DEF TypeOK
  <2>3. QED
    BY <2>1, <2>2, ThrowEffect DEF TypeOK, Others
<1>4. CASE TimesOut(r)
  BY <1>3, <1>4 DEF TimesOut
<1>5. CASE NetworkFails(r)
  <2>1. CASE GiveUp(r)
    BY <1>3, <2>1
  <2>2. CASE wire' = [wire EXCEPT ![r] = "none"] /\ Throw(r) /\ UNCHANGED <<late, sent, effects>>
    <3>1. wire' \in [Request -> Answer \cup {"none", "sent"}]
          /\ \A q \in Request \ {r} : wire'[q] = wire[q]
      BY <2>2 DEF TypeOK
    <3>2. QED
      BY <2>2, <3>1, ThrowEffect DEF TypeOK, Others
  <2>3. QED
    BY <1>5, <2>1, <2>2 DEF NetworkFails
<1>6. CASE AnswerArrives(r)
  <2>1. /\ wire' \in [Request -> Answer \cup {"none", "sent"}]
        /\ \A q \in Request \ {r} : wire'[q] = wire[q]
        /\ UNCHANGED <<late, sent, effects>>
    BY <1>6 DEF AnswerArrives, TypeOK
  <2>2. ASSUME NEW told \in Answer, Tell(r, told)
        PROVE  TypeOK' /\ Others(r)
    BY <2>1, <2>2 DEF Tell, TypeOK, Others, Phase, Told
  <2>3. CASE Throw(r)
    BY <2>1, <2>3, ThrowEffect DEF TypeOK, Others
  <2>4. CASE /\ phase' = [phase EXCEPT ![r] = "refreshing"]
             /\ UNCHANGED <<attempt, retried, failures, result>>
    BY <2>1, <2>4 DEF TypeOK, Others, Phase
  <2>5. QED
    BY <1>6, <2>2, <2>3, <2>4 DEF AnswerArrives, Answer
<1>7. CASE Refreshed(r)
  BY <1>7, ApiAssumption DEF Refreshed, TypeOK, Others, Phase
<1>8. CASE NotRefreshed(r)
  <2>1. CASE Tell(r, "unauthorized")
    BY <1>8, <2>1 DEF NotRefreshed, Tell, TypeOK, Others, Phase, Told, Answer
  <2>2. CASE Throw(r)
    BY <1>8, <2>2, ThrowEffect DEF NotRefreshed, TypeOK, Others
  <2>3. QED
    BY <1>8, <2>1, <2>2 DEF NotRefreshed
<1>9. CASE Retry(r)
  BY <1>9 DEF Retry, TypeOK, Others, Phase
<1>10. CASE QueryRetry(r)
  BY <1>10, ApiAssumption DEF QueryRetry, TypeOK, Others, Phase
<1>11. CASE Serves(r)
  BY <1>11 DEF Serves, TypeOK, Others, Answer, loopVars
<1>12. CASE Refuses(r)
  BY <1>12 DEF Refuses, TypeOK, Others, Answer, loopVars
<1>13. CASE ServesLate(r)
  BY <1>13 DEF ServesLate, TypeOK, Others, loopVars
<1>14. QED
  BY <1>1, <1>2, <1>4, <1>5, <1>6, <1>7, <1>8, <1>9, <1>10, <1>11, <1>12, <1>13

\* Each step keeps the count of the fetches.
LEMMA StepLoop ==
    ASSUME IInv, NEW r \in Request,
           \/ Start(r) \/ Send(r) \/ TimesOut(r) \/ NetworkFails(r)
           \/ AnswerArrives(r) \/ Refreshed(r) \/ NotRefreshed(r)
           \/ Retry(r) \/ QueryRetry(r)
           \/ Serves(r) \/ Refuses(r) \/ ServesLate(r)
    PROVE  SentInLoop(r)'
<1>1. /\ SentInLoop(r) /\ phase[r] \in Phase /\ attempt[r] \in Nat /\ sent[r] \in Nat
      /\ Retries(r) \in Nat /\ retried[r] \in BOOLEAN /\ Retries(r)' = Retries(r)
      /\ phase \in [Request -> Phase] /\ attempt \in [Request -> 0..MaxRetries]
      /\ retried \in [Request -> BOOLEAN] /\ sent \in [Request -> Nat]
  BY RetriesType, ApiAssumption DEF IInv, TypeOK, Retries
<1>2. ASSUME Throw(r), sent' = sent, phase[r] \in {"flight", "refreshing"}
      PROVE  SentInLoop(r)'
  <2>1. /\ retried' = retried
        /\ \/ phase'[r] = "waiting" /\ attempt'[r] = attempt[r] + 1 /\ attempt[r] < Retries(r)
           \/ phase'[r] \in {"queued", "done"} /\ attempt'[r] = attempt[r]
    BY <1>1, <1>2, ThrowEffect DEF IInv
  <2>2. QED
    BY <1>1, <1>2, <2>1 DEF SentInLoop
<1>3. ASSUME NEW told, Tell(r, told), sent' = sent, phase[r] \in {"flight", "refreshing"}
      PROVE  SentInLoop(r)'
  <2>1. phase'[r] = "done" /\ attempt' = attempt /\ retried' = retried
    BY <1>1, <1>3 DEF Tell
  <2>2. QED
    BY <1>1, <1>3, <2>1 DEF SentInLoop
<1>4. CASE Start(r)
  <2>1. /\ phase[r] = "idle" /\ phase'[r] = "ready"
        /\ attempt' = attempt /\ retried' = retried /\ sent' = sent
    BY <1>1, <1>4 DEF Start
  <2>2. QED
    BY <1>1, <2>1 DEF SentInLoop
<1>5. CASE Send(r)
  <2>1. /\ phase[r] = "ready" /\ phase'[r] = "flight" /\ sent'[r] = sent[r] + 1
        /\ attempt' = attempt /\ retried' = retried
    BY <1>1, <1>5 DEF Send
  <2>2. QED
    BY <1>1, <2>1 DEF SentInLoop
<1>6. CASE TimesOut(r)
  BY <1>2, <1>6 DEF TimesOut, GiveUp
<1>7. CASE NetworkFails(r)
  BY <1>2, <1>7 DEF NetworkFails, GiveUp
<1>8. CASE AnswerArrives(r)
  <2>1. phase[r] = "flight" /\ sent' = sent
    BY <1>8 DEF AnswerArrives
  <2>2. ASSUME NEW told, Tell(r, told) PROVE SentInLoop(r)'
    BY <2>1, <2>2, <1>3
  <2>3. CASE Throw(r)
    BY <2>1, <2>3, <1>2
  <2>4. CASE /\ ~retried[r]
             /\ phase' = [phase EXCEPT ![r] = "refreshing"]
             /\ UNCHANGED <<attempt, retried, failures, result>>
    <3>1. phase'[r] = "refreshing" /\ attempt' = attempt /\ retried' = retried
      BY <1>1, <2>4
    <3>2. QED
      BY <1>1, <2>1, <2>4, <3>1 DEF SentInLoop
  <2>5. QED
    BY <1>8, <2>2, <2>3, <2>4 DEF AnswerArrives
<1>9. CASE Refreshed(r)
  <2>1. /\ phase[r] = "refreshing" /\ phase'[r] = "ready" /\ attempt'[r] = 0
        /\ retried'[r] = TRUE /\ sent' = sent
    BY <1>1, <1>9 DEF Refreshed
  <2>2. QED
    BY <1>1, <2>1 DEF SentInLoop
<1>10. CASE NotRefreshed(r)
  <2>1. phase[r] = "refreshing" /\ sent' = sent
    BY <1>10 DEF NotRefreshed
  <2>2. CASE Tell(r, "unauthorized")
    BY <2>1, <2>2, <1>3
  <2>3. CASE Throw(r)
    BY <2>1, <2>3, <1>2
  <2>4. QED
    BY <1>10, <2>2, <2>3 DEF NotRefreshed
<1>11. CASE Retry(r)
  <2>1. /\ phase[r] = "waiting" /\ phase'[r] = "ready"
        /\ attempt' = attempt /\ retried' = retried /\ sent' = sent
    BY <1>1, <1>11 DEF Retry
  <2>2. QED
    BY <1>1, <2>1 DEF SentInLoop
<1>12. CASE QueryRetry(r)
  <2>1. phase'[r] = "ready" /\ attempt'[r] = 0 /\ retried'[r] = FALSE /\ sent'[r] = 0
    BY <1>1, <1>12 DEF QueryRetry
  <2>2. QED
    BY <1>1, <2>1 DEF SentInLoop
<1>13. CASE Serves(r) \/ Refuses(r) \/ ServesLate(r)
  <2>1. phase' = phase /\ attempt' = attempt /\ retried' = retried /\ sent' = sent
    BY <1>13 DEF Serves, Refuses, ServesLate, loopVars
  <2>2. QED
    BY <1>1, <2>1 DEF SentInLoop
<1>14. QED
  BY <1>4, <1>5, <1>6, <1>7, <1>8, <1>9, <1>10, <1>11, <1>12, <1>13

\* Each step of a request that changes the server keeps it to one change.
LEMMA StepChange ==
    ASSUME IInv, NEW r \in Request \ Gets,
           \/ Start(r) \/ Send(r) \/ TimesOut(r) \/ NetworkFails(r)
           \/ AnswerArrives(r) \/ Refreshed(r) \/ NotRefreshed(r)
           \/ Retry(r) \/ QueryRetry(r)
           \/ Serves(r) \/ Refuses(r) \/ ServesLate(r)
    PROVE  OneChange(r)'
<1>1. /\ r \in Request /\ SentInLoop(r) /\ OneChange(r)
      /\ phase[r] \in Phase /\ effects[r] \in Nat /\ late[r] \in Nat
      /\ phase \in [Request -> Phase] /\ effects \in [Request -> Nat] /\ late \in [Request -> Nat]
      /\ wire \in [Request -> Answer \cup {"none", "sent"}]
      /\ result \in [Request -> Told]
  BY DEF IInv, TypeOK
<1>2. ASSUME Throw(r)
      PROVE  phase'[r] = "done" /\ result'[r] = "transient"
  BY <1>1, <1>2, ThrowEffect DEF IInv
<1>3. ASSUME NEW told \in Answer, Tell(r, told)
      PROVE  phase'[r] = "done" /\ result'[r] = told
  BY <1>1, <1>3 DEF Tell
<1>4. CASE Start(r)
  <2>1. /\ phase[r] = "idle" /\ phase'[r] = "ready" /\ effects' = effects /\ late' = late
        /\ wire' = wire /\ result' = result
    BY <1>1, <1>4 DEF Start
  <2>2. QED
    BY <1>1, <2>1 DEF OneChange, Undone
<1>5. CASE Send(r)
  <2>1. /\ phase[r] = "ready" /\ phase'[r] = "flight" /\ effects' = effects /\ late' = late
        /\ wire'[r] = "sent" /\ result' = result
    BY <1>1, <1>5 DEF Send
  <2>2. QED
    BY <1>1, <2>1 DEF OneChange, Undone
<1>6. ASSUME GiveUp(r) PROVE OneChange(r)'
  <2>1. /\ wire'[r] = "none" /\ effects' = effects
        /\ late'[r] = IF wire[r] = "sent" THEN late[r] + 1 ELSE late[r]
        /\ phase'[r] = "done" /\ result'[r] = "transient"
    BY <1>1, <1>2, <1>6 DEF GiveUp
  <2>2. QED
    BY <1>1, <2>1 DEF OneChange, Undone
<1>7. CASE TimesOut(r)
  BY <1>6, <1>7 DEF TimesOut
<1>8. CASE NetworkFails(r)
  <2>1. CASE wire' = [wire EXCEPT ![r] = "none"] /\ Throw(r) /\ UNCHANGED <<late, sent, effects>>
    <3>1. /\ wire'[r] = "none" /\ effects' = effects /\ late' = late
          /\ phase'[r] = "done" /\ result'[r] = "transient"
      BY <1>1, <1>2, <2>1
    <3>2. QED
      BY <1>1, <3>1 DEF OneChange, Undone
  <2>2. QED
    BY <1>6, <1>8, <2>1 DEF NetworkFails
<1>9. CASE AnswerArrives(r)
  <2>1. wire'[r] = "none" /\ effects' = effects /\ late' = late
    BY <1>1, <1>9 DEF AnswerArrives
  <2>2. CASE Tell(r, "ok") \/ Tell(r, "rejected")
    <3>1. phase'[r] = "done" /\ result'[r] \in {"ok", "rejected"}
      BY <1>3, <2>2 DEF Answer
    <3>2. QED
      BY <1>1, <2>1, <3>1 DEF OneChange, Undone
  <2>3. CASE Throw(r)
    <3>1. phase'[r] = "done" /\ result'[r] = "transient"
      BY <1>2, <2>3
    <3>2. QED
      BY <1>1, <2>1, <3>1 DEF OneChange, Undone
  <2>4. CASE /\ wire[r] = "unauthorized"
             /\ phase' = [phase EXCEPT ![r] = "refreshing"]
             /\ UNCHANGED <<attempt, retried, failures, result>>
    <3>1. phase'[r] = "refreshing" /\ result' = result /\ wire[r] # "none"
      BY <1>1, <2>4
    <3>2. result[r] = "none"
      BY <1>1, <3>1 DEF OneChange
    <3>3. QED
      BY <1>1, <2>1, <2>4, <3>1, <3>2 DEF OneChange, Undone
  <2>5. CASE wire[r] = "unauthorized" /\ Tell(r, "unauthorized")
    <3>1. phase'[r] = "done" /\ result'[r] = "unauthorized"
      BY <1>3, <2>5 DEF Answer
    <3>2. QED
      BY <1>1, <2>1, <2>5, <3>1 DEF OneChange, Undone
  <2>6. QED
    BY <1>9, <2>2, <2>3, <2>4, <2>5 DEF AnswerArrives
<1>10. CASE Refreshed(r)
  <2>1. /\ phase[r] = "refreshing" /\ phase'[r] = "ready" /\ effects' = effects /\ late' = late
        /\ wire' = wire /\ result' = result
    BY <1>1, <1>10 DEF Refreshed
  <2>2. QED
    BY <1>1, <2>1 DEF OneChange, Undone
<1>11. CASE NotRefreshed(r)
  <2>1. phase[r] = "refreshing" /\ wire' = wire /\ effects' = effects /\ late' = late
    BY <1>11 DEF NotRefreshed
  <2>2. wire[r] = "none" /\ Undone(r)
    BY <1>1, <2>1 DEF OneChange
  <2>3. phase'[r] = "done" /\ result'[r] \in {"unauthorized", "transient"}
    BY <1>2, <1>3, <1>11 DEF NotRefreshed, Answer
  <2>4. QED
    BY <1>1, <2>1, <2>2, <2>3 DEF OneChange, Undone
<1>12. CASE Retry(r) \/ QueryRetry(r)
  BY <1>1, <1>12 DEF Retry, QueryRetry, OneChange
<1>13. CASE Serves(r)
  <2>1. /\ wire[r] = "sent" /\ wire'[r] \in {"ok", "transient", "rejected"} /\ effects'[r] = effects[r] + 1
        /\ late' = late /\ phase' = phase /\ result' = result
    BY <1>1, <1>13 DEF Serves, loopVars
  <2>2. phase[r] = "flight" /\ result[r] = "none" /\ Undone(r)
    BY <1>1, <2>1 DEF OneChange
  <2>3. QED
    BY <1>1, <2>1, <2>2 DEF OneChange, Undone
<1>14. CASE Refuses(r)
  <2>1. /\ wire[r] = "sent" /\ wire'[r] \in Answer
        /\ effects' = effects /\ late' = late /\ phase' = phase /\ result' = result
    BY <1>1, <1>14 DEF Refuses, loopVars
  <2>2. QED
    BY <1>1, <2>1 DEF OneChange, Undone, Answer
<1>15. CASE ServesLate(r)
  <2>1. /\ late[r] > 0 /\ late'[r] = late[r] - 1 /\ effects'[r] \in {effects[r], effects[r] + 1}
        /\ wire' = wire /\ phase' = phase /\ result' = result
    BY <1>1, <1>15 DEF ServesLate, loopVars
  <2>2. ~Undone(r)
    BY <1>1, <2>1 DEF Undone
  <2>3. effects'[r] + late'[r] <= 1
    BY <1>1, <2>1 DEF OneChange
  <2>4. QED
    BY <1>1, <2>1, <2>2, <2>3 DEF OneChange
<1>16. QED
  BY <1>4, <1>5, <1>7, <1>8, <1>9, <1>10, <1>11, <1>12, <1>13, <1>14, <1>15

\* The invariant is one.
LEMMA Invariant == Spec => []IInv
<1>1. Init => IInv
  <2> SUFFICES ASSUME Init PROVE IInv
    OBVIOUS
  <2>1. TypeOK
    BY ApiAssumption DEF Init, TypeOK, Phase, Told
  <2>2. \A r \in Request : SentInLoop(r)
    <3> SUFFICES ASSUME NEW r \in Request PROVE SentInLoop(r)
      OBVIOUS
    <3>1. Retries(r) \in Nat
      BY RetriesType, ApiAssumption
    <3>2. /\ phase[r] = "idle" /\ attempt[r] = 0 /\ retried[r] = FALSE /\ sent[r] = 0
      BY DEF Init
    <3>3. QED
      BY <3>1, <3>2 DEF SentInLoop
  <2>3. \A r \in Request : OneChange(r)
    <3> SUFFICES ASSUME NEW r \in Request PROVE OneChange(r)
      OBVIOUS
    <3>1. /\ phase[r] = "idle" /\ effects[r] = 0 /\ late[r] = 0
          /\ wire[r] = "none" /\ result[r] = "none"
      BY DEF Init
    <3>2. QED
      BY <3>1 DEF OneChange, Undone
  <2>4. QED
    BY <2>1, <2>2, <2>3 DEF IInv
<1>2. IInv /\ [Next]_vars => IInv'
  <2> SUFFICES ASSUME IInv, [Next]_vars PROVE IInv'
    OBVIOUS
  <2>1. CASE UNCHANGED vars
    BY <2>1 DEF vars, loopVars, IInv, TypeOK, SentInLoop, OneChange, Undone, Retries
  <2>2. CASE Next
    <3>1. PICK r \in Request :
              \/ Start(r) \/ Send(r) \/ TimesOut(r) \/ NetworkFails(r)
              \/ AnswerArrives(r) \/ Refreshed(r) \/ NotRefreshed(r)
              \/ Retry(r) \/ QueryRetry(r)
              \/ Serves(r) \/ Refuses(r) \/ ServesLate(r)
      BY <2>2 DEF Next
    <3>2. TypeOK' /\ Others(r)
      BY <3>1, StepTypes
    <3>3. SentInLoop(r)' /\ (r \notin Gets => OneChange(r)')
      BY <3>1, StepLoop, StepChange
    <3>4. \A q \in Request \ {r} : SentInLoop(q)' /\ (q \notin Gets => OneChange(q)')
      BY <3>2 DEF IInv, Others, SentInLoop, OneChange, Undone, Retries
    <3>5. QED
      BY <3>2, <3>3, <3>4 DEF IInv
  <2>3. QED
    BY <2>1, <2>2
<1>3. QED
  BY <1>1, <1>2, PTL DEF Spec

\* The variables of the client have their types.
THEOREM ApiTypes == Spec => []TypeOK
<1>1. IInv => TypeOK
  BY DEF IInv
<1>2. QED
  BY <1>1, Invariant, PTL

\* No call of the client changes the server twice.
THEOREM ApiAtMostOnce == Spec => []AtMostOnce
<1>1. ASSUME IInv, NEW r \in Request \ Gets PROVE effects[r] <= 1
  <2>1. effects[r] \in Nat /\ late[r] \in Nat /\ effects[r] + late[r] <= 1
    BY <1>1 DEF IInv, OneChange, TypeOK
  <2>2. QED
    BY <2>1
<1>2. IInv => AtMostOnce
  BY <1>1 DEF AtMostOnce
<1>3. QED
  BY <1>2, Invariant, PTL

\* A change whose caller is told 401 is neither made nor about to be.
THEOREM ApiUnauthorizedMeansUndone == Spec => []UnauthorizedMeansUndone
<1>1. IInv => UnauthorizedMeansUndone
  BY DEF IInv, UnauthorizedMeansUndone, OneChange, Undone
<1>2. QED
  BY <1>1, Invariant, PTL

\* A run of a request is at most two times maxRetries + 1 fetches.
THEOREM ApiSendsBounded == Spec => []SendsBounded
<1>1. IInv => SendsBounded
  <2> SUFFICES ASSUME IInv, NEW r \in Request
               PROVE  sent[r] <= 2 * (Retries(r) + 1)
    BY DEF SendsBounded
  <2>1. /\ SentInLoop(r) /\ sent[r] \in Nat /\ attempt[r] \in Nat /\ Retries(r) \in Nat
        /\ retried[r] \in BOOLEAN
    BY RetriesType, ApiAssumption DEF IInv, TypeOK
  <2>2. QED
    BY <2>1 DEF SentInLoop
<1>2. QED
  BY <1>1, Invariant, PTL
=============================================================================
