---------------------- MODULE NotificationRetryProofs ----------------------
(***************************************************************************)
(* A notification is not repeated without a reason, for any rows, sweeps,  *)
(* limits and numbers of attempts.                                         *)
(***************************************************************************)
EXTENDS NotificationRetry, TLAPS

SweepRun == [phase : {"starting", "listed", "sending"}, guarded : BOOLEAN,
             age : 0..Limit, todo : SUBSET Log, call : Call]

SweepTypes == sweep \in [Sweep -> {Off} \cup SweepRun]

\* A sweep that runs holds the lock, which outlives it: the lock was taken with
\* the sweep, and both grow older alike.
HoldsLock ==
    ~unguarded => \A s \in Running : sweep[s].guarded /\ sweep[s].age + lease >= LockTtl

\* Hence no second one is started next to it.
OneSweep == ~unguarded => \A s, t \in Running : s = t

\* A sweep takes a row off its list before it sends it.
OnceListed ==
    \A s \in Running :
        /\ sweep[s].phase = "starting" => sweep[s].todo = {} /\ sweep[s].call = NoCall
        /\ sweep[s].call # NoCall => sweep[s].call.log \notin sweep[s].todo

\* The first attempt is to come, is under way, or has failed.
FirstOpen(l) == status[l] = "none" \/ sending[l] \in {"asked", "failed"}

AdminOpen(l) == asking # NoCall /\ asking.log = l /\ asking.answer \in {"asked", "failed"}

Calls(s, l) == sweep[s].call # NoCall /\ sweep[s].call.log = l

InHand(l) == \E s \in Running : l \in sweep[s].todo \/ Calls(s, l)

\* What a sweep has sent is no longer open: its record overwrites whatever the
\* row says meanwhile.
SentBySweep(l) == \E s \in Running : Calls(s, l) /\ sweep[s].call.answer = "sent"

RetryOpen(l) == ~SentBySweep(l) /\ (InHand(l) \/ status[l] \in {"retrying", "due"})

Count(open) == IF open THEN 1 ELSE 0

\* Each copy, and each way in which the row may still be sent, has its reason.
Budget(l) == copies[l] + Count(FirstOpen(l)) + Count(AdminOpen(l)) + Count(RetryOpen(l))

OneCopy == ~unguarded => \A l \in Log : Budget(l) <= 1

\* An attempt is under way only for a row that exists.
Dispatched == \A l \in Log : sending[l] # "none" => status[l] # "none"

IInv == TypeOK /\ SweepTypes /\ HoldsLock /\ OneSweep /\ OnceListed /\ Dispatched /\ OneCopy

-----------------------------------------------------------------------------
(***************************************************************************)
(* Types                                                                   *)
(***************************************************************************)

\* A call that was made has a row and an answer.
LEMMA CallTypes ==
    ASSUME NEW c \in Call
    PROVE  /\ c # NoCall <=> c.answer # "none"
           /\ c # NoCall => c.log \in Log /\ c.answer \in Answer
           /\ c.answer \in Answer \cup {"none"}
           /\ \A l \in Log : c = [log |-> l, answer |-> "sent"]
                               <=> c # NoCall /\ c.log = l /\ c.answer = "sent"
BY DEF Call, NoCall, Answer

\* A new call.
LEMMA NewCall ==
    ASSUME NEW l \in Log, NEW a \in Answer
    PROVE  /\ [log |-> l, answer |-> a] \in Call
           /\ [log |-> l, answer |-> a] # NoCall
BY DEF Call, NoCall, Answer

\* What runs is a record of a sweep.
LEMMA RunTypes ==
    ASSUME SweepTypes, NEW s \in Sweep
    PROVE  /\ s \in Running <=> sweep[s] \in SweepRun
           /\ s \in Running => /\ sweep[s].phase \in {"starting", "listed", "sending"}
                               /\ sweep[s].guarded \in BOOLEAN
                               /\ sweep[s].age \in 0..Limit
                               /\ sweep[s].todo \in SUBSET Log
                               /\ sweep[s].call \in Call
BY DEF SweepTypes, SweepRun, Running, Off

\* A record of an outcome keeps the types of the row.
LEMMA RecordTypes ==
    ASSUME TypeOK, NEW l \in Log, NEW a \in Answer \ {"asked"}, UpdateLogStatus(l, a)
    PROVE  /\ status' \in [Log -> {"none", "pending", "retrying", "due", "sent", "failed"}]
           /\ attempts' \in [Log -> Nat]
           /\ \A k \in Log : status'[k] \in {"retrying", "due"} => attempts'[k] \in 1..MaxAttempts-1
<1>1. CASE a = "silent"
  BY <1>1 DEF TypeOK, UpdateLogStatus
<1>2. CASE a # "silent"
  <2> DEFINE new == CASE a = "sent" -> "sent"
                      [] a = "failed" /\ attempts[l] + 1 < MaxAttempts -> "retrying"
                      [] OTHER -> "failed"
  <2>1. /\ attempts' = [attempts EXCEPT ![l] = @ + 1]
        /\ status' = [status EXCEPT ![l] = new]
    BY <1>2 DEF UpdateLogStatus
  <2>2. /\ new \in {"retrying", "sent", "failed"}
        /\ new = "retrying" => attempts[l] + 1 < MaxAttempts
    OBVIOUS
  <2> HIDE DEF new
  <2>3. QED
    BY <2>1, <2>2, RetryAssumption DEF TypeOK
<1>3. QED
  BY <1>1, <1>2

\* What a record makes of the row, whose budget it spends.
LEMMA RecordEffect ==
    ASSUME TypeOK, NEW l \in Log, NEW a \in Answer \ {"asked"}, UpdateLogStatus(l, a)
    PROVE  /\ \A k \in Log \ {l} : status'[k] = status[k]
           /\ a = "silent" => status' = status
           /\ a # "silent" => status'[l] \in {"sent", "retrying", "failed"}
           /\ status'[l] = "retrying" => a \in {"silent", "failed"}
           /\ status'[l] = "due" => a = "silent"
           /\ status'[l] = "none" => status[l] = "none"
<1>1. CASE a = "silent"
  BY <1>1 DEF TypeOK, UpdateLogStatus
<1>2. CASE a # "silent"
  <2> DEFINE new == CASE a = "sent" -> "sent"
                      [] a = "failed" /\ attempts[l] + 1 < MaxAttempts -> "retrying"
                      [] OTHER -> "failed"
  <2>1. status' = [status EXCEPT ![l] = new]
    BY <1>2 DEF UpdateLogStatus
  <2>2. /\ new \in {"retrying", "sent", "failed"}
        /\ new = "retrying" => a = "failed"
    OBVIOUS
  <2> HIDE DEF new
  <2>3. QED
    BY <1>2, <2>1, <2>2 DEF TypeOK
<1>3. QED
  BY <1>1, <1>2

\* A record of 'sent' that raises leaves the row alone or sent, and is a reason
\* for another copy.
LEMMA RaiseEffect ==
    ASSUME TypeOK, NEW l \in Log, RecordRaises(l)
    PROVE  /\ status' \in [Log -> {"none", "pending", "retrying", "due", "sent", "failed"}]
           /\ attempts' \in [Log -> Nat]
           /\ \A k \in Log : status'[k] \in {"retrying", "due"} => attempts'[k] \in 1..MaxAttempts-1
           /\ copies' \in [Log -> Int]
           /\ \A k \in Log : copies'[k] = IF k = l THEN copies[k] - 1 ELSE copies[k]
           /\ \A k \in Log : status'[k] # status[k] => status'[k] = "sent"
<1>1. /\ copies' \in [Log -> Int]
      /\ \A k \in Log : copies'[k] = IF k = l THEN copies[k] - 1 ELSE copies[k]
  BY DEF RecordRaises, TypeOK
<1>2. CASE UNCHANGED <<status, attempts>>
  BY <1>1, <1>2 DEF TypeOK
<1>3. CASE UpdateLogStatus(l, "sent")
  <2>1. "sent" \in Answer \ {"asked"}
    BY DEF Answer
  <2>2. status' = [status EXCEPT ![l] = "sent"]
    BY <1>3 DEF UpdateLogStatus
  <2>3. \A k \in Log : status'[k] # status[k] => status'[k] = "sent"
    BY <2>2 DEF TypeOK
  <2>4. QED
    BY <1>1, <1>3, <2>1, <2>3, RecordTypes
<1>4. QED
  BY <1>2, <1>3 DEF RecordRaises

\* The sweeps keep their types.
LEMMA SweepTypesStep ==
    ASSUME TypeOK, SweepTypes, [Next]_vars
    PROVE  SweepTypes'
<1> USE DEF SweepTypes
<1>1. ASSUME NEW s \in Sweep, NEW n \in {Off} \cup SweepRun, sweep' = [sweep EXCEPT ![s] = n]
      PROVE  SweepTypes'
  BY <1>1
<1>2. ASSUME NEW s \in Sweep, NEW g \in BOOLEAN, sweep' = [sweep EXCEPT ![s] = Started(g)]
      PROVE  SweepTypes'
  <2>1. Started(g) \in SweepRun
    BY RetryAssumption DEF Started, SweepRun, Call
  <2>2. QED
    BY <1>1, <1>2, <2>1
<1>3. ASSUME NEW s \in Sweep, List(s)
      PROVE  SweepTypes'
  <2>1. s \in Running /\ sweep' = [sweep EXCEPT ![s] = [@ EXCEPT !.phase = "listed", !.todo = Due]]
    BY <1>3 DEF List
  <2>2. [sweep[s] EXCEPT !.phase = "listed", !.todo = Due] \in SweepRun
    BY <2>1, RunTypes DEF SweepRun, Due
  <2>3. QED
    BY <1>1, <2>1, <2>2
<1>4. ASSUME NEW s \in Sweep, NEW l \in Log, RetryLog(s, l)
      PROVE  SweepTypes'
  <2> DEFINE n == [sweep[s] EXCEPT !.phase = "sending", !.todo = @ \ {l},
                                   !.call = [log |-> l, answer |-> "asked"]]
  <2>1. s \in Running /\ sweep' = [sweep EXCEPT ![s] = n]
    BY <1>4 DEF RetryLog
  <2>2. n \in SweepRun
    <3>1. [log |-> l, answer |-> "asked"] \in Call
      BY NewCall DEF Answer
    <3>2. QED
      BY <2>1, <3>1, RunTypes DEF SweepRun
  <2> HIDE DEF n
  <2>3. QED
    BY <1>1, <2>1, <2>2
<1>5. ASSUME NEW s \in Sweep, NEW a \in Answer, sweep[s].call.answer # "none", s \in Running,
             sweep' = [sweep EXCEPT ![s].call.answer = a]
      PROVE  SweepTypes'
  <2> DEFINE c == [sweep[s].call EXCEPT !.answer = a]
             n == [sweep[s] EXCEPT !.call = c]
  <2>1. sweep' = [sweep EXCEPT ![s] = n]
    BY <1>5
  <2>2. c \in Call
    BY <1>5, RunTypes DEF Call, NoCall, Answer
  <2> HIDE DEF c
  <2>3. n \in SweepRun
    BY <1>5, <2>2, RunTypes DEF SweepRun
  <2> HIDE DEF n
  <2>4. QED
    BY <1>1, <2>1, <2>3
<1>6. ASSUME NEW s \in Sweep, s \in Running, sweep' = [sweep EXCEPT ![s].call = NoCall]
      PROVE  SweepTypes'
  <2> DEFINE n == [sweep[s] EXCEPT !.call = NoCall]
  <2>1. sweep' = [sweep EXCEPT ![s] = n]
    BY <1>6
  <2>2. n \in SweepRun
    BY <1>6, RunTypes DEF SweepRun, Call
  <2> HIDE DEF n
  <2>3. QED
    BY <1>1, <2>1, <2>2
<1>7. CASE Tick
  <2>1. ASSUME NEW s \in Running
        PROVE  [sweep[s] EXCEPT !.age = @ + 1] \in SweepRun
    BY <1>7, RunTypes, RetryAssumption DEF Tick, SweepRun, Running
  <2>2. QED
    BY <1>7, <2>1 DEF Tick
<1>8. CASE UNCHANGED sweep
  BY <1>8
<1>9. ASSUME NEW s \in Sweep, SweepAnswered(s) \/ SweepRecordRaises(s)
      PROVE  SweepTypes'
  <2>1. PICK a \in Answer : sweep' = [sweep EXCEPT ![s].call.answer = a]
    BY <1>9 DEF SweepAnswered, SweepRecordRaises, Excepted, Answer
  <2>2. sweep[s].call.answer # "none" /\ s \in Running
    BY <1>9 DEF SweepAnswered, SweepRecordRaises
  <2>3. QED
    BY <1>5, <2>1, <2>2
<1>10. QED
  BY <1>1, <1>2, <1>3, <1>4, <1>6, <1>7, <1>8, <1>9 DEF Next, vars, Dispatch, Attempt,
     SenderAnswered, SenderRecords, SenderRecordRaises, SenderDies, AdminAsks, AdminAnswered,
     AdminRecords, AdminRecordRaises, AdminFails, Start, StartUnguarded, Works, SweepRecords,
     Finish, Killed, Raises, Drops, BecomesDue

\* An answer of the provider to a call for one row counts the copies.
LEMMA ProviderEffect ==
    ASSUME TypeOK, NEW l \in Log, NEW a \in Answer, Provider(l, a)
    PROVE  /\ a \in {"sent", "failed", "silent", "refused"}
           /\ copies' \in [Log -> Int]
           /\ \A k \in Log : copies'[k] = IF k = l /\ a = "sent" THEN copies[k] + 1 ELSE copies[k]
BY DEF TypeOK, Provider

\* The answer to a call is recorded with it.
LEMMA AnsweredCall ==
    ASSUME NEW c \in Call, c.answer # "none", NEW a \in Answer
    PROVE  /\ [c EXCEPT !.answer = a] \in Call
           /\ [c EXCEPT !.answer = a] # NoCall
           /\ [c EXCEPT !.answer = a].log = c.log
           /\ [c EXCEPT !.answer = a].answer = a
BY DEF Call, NoCall, Answer

\* The types that do not concern the sweeps.
RowTypes ==
    /\ status \in [Log -> {"none", "pending", "retrying", "due", "sent", "failed"}]
    /\ \A l \in Log : status[l] \in {"retrying", "due"} => attempts[l] \in 1..MaxAttempts-1
    /\ attempts \in [Log -> Nat] /\ copies \in [Log -> Int]
    /\ sending \in [Log -> Answer \cup {"none"}]
    /\ asking \in Call
    /\ lease \in 0..LockTtl

\* Rows, first attempts, the administrator's call and the lock keep their types.
LEMMA RowTypesStep ==
    ASSUME TypeOK, SweepTypes, [Next]_vars
    PROVE  RowTypes'
<1> USE DEF RowTypes
<1>0. RowTypes
  BY DEF TypeOK
<1>1. ASSUME NEW l \in Log, Dispatch(l)
      PROVE  RowTypes'
  BY <1>0, <1>1 DEF Dispatch, Answer
<1>2. ASSUME NEW l \in Log, SenderAnswered(l)
      PROVE  RowTypes'
  <2>1. PICK a \in Answer : Provider(l, a) /\ sending' = [sending EXCEPT ![l] = a]
    BY <1>2 DEF SenderAnswered
  <2>2. copies' \in [Log -> Int]
    BY <2>1, ProviderEffect
  <2>3. QED
    BY <1>0, <1>2, <2>1, <2>2 DEF SenderAnswered
<1>3. ASSUME NEW l \in Log, SenderRecords(l)
      PROVE  RowTypes'
  <2>1. sending[l] \in Answer \ {"asked"}
    BY <1>0, <1>3 DEF SenderRecords
  <2>2. /\ status' \in [Log -> {"none", "pending", "retrying", "due", "sent", "failed"}]
        /\ attempts' \in [Log -> Nat]
        /\ \A k \in Log : status'[k] \in {"retrying", "due"} => attempts'[k] \in 1..MaxAttempts-1
    BY <1>3, <2>1, RecordTypes DEF SenderRecords
  <2>3. QED
    BY <1>0, <1>3, <2>2 DEF SenderRecords
<1>4. ASSUME NEW l \in Log, SenderDies(l) \/ BecomesDue(l)
      PROVE  RowTypes'
  BY <1>0, <1>4 DEF SenderDies, BecomesDue
<1>5. ASSUME NEW l \in Log, AdminAsks(l)
      PROVE  RowTypes'
  <2>1. [log |-> l, answer |-> "asked"] \in Call
    BY NewCall DEF Answer
  <2>2. copies' \in [Log -> Int]
    BY <1>0, <1>5 DEF AdminAsks
  <2>3. QED
    BY <1>0, <1>5, <2>1, <2>2 DEF AdminAsks
<1>6. CASE AdminAnswered
  <2>1. PICK a \in Answer : Provider(asking.log, a) /\ asking' = [asking EXCEPT !.answer = a]
    BY <1>6 DEF AdminAnswered
  <2>2. asking.answer # "none" /\ asking.log \in Log
    BY <1>0, <1>6, CallTypes DEF AdminAnswered
  <2>3. copies' \in [Log -> Int] /\ asking' \in Call
    BY <1>0, <2>1, <2>2, ProviderEffect, AnsweredCall
  <2>4. QED
    BY <1>0, <1>6, <2>3 DEF AdminAnswered
<1>7. CASE AdminRecords
  <2>1. asking.answer \in Answer \ {"asked"} /\ asking.log \in Log
    BY <1>0, <1>7, CallTypes DEF AdminRecords
  <2>2. /\ status' \in [Log -> {"none", "pending", "retrying", "due", "sent", "failed"}]
        /\ attempts' \in [Log -> Nat]
        /\ \A k \in Log : status'[k] \in {"retrying", "due"} => attempts'[k] \in 1..MaxAttempts-1
    BY <1>7, <2>1, RecordTypes DEF AdminRecords
  <2>3. QED
    BY <1>0, <1>7, <2>2 DEF AdminRecords, Call
<1>8. ASSUME NEW s \in Sweep, SweepAnswered(s)
      PROVE  RowTypes'
  <2>1. PICK a \in Answer : Provider(sweep[s].call.log, a)
    BY <1>8 DEF SweepAnswered
  <2>2. sweep[s].call.log \in Log
    BY <1>8, RunTypes, CallTypes DEF SweepAnswered
  <2>3. copies' \in [Log -> Int]
    BY <2>1, <2>2, ProviderEffect
  <2>4. QED
    BY <1>0, <1>8, <2>3 DEF SweepAnswered
<1>9. ASSUME NEW s \in Sweep, SweepRecords(s)
      PROVE  RowTypes'
  <2>1. sweep[s].call.answer \in Answer \ {"asked"} /\ sweep[s].call.log \in Log
    BY <1>9, RunTypes, CallTypes DEF SweepRecords
  <2>2. /\ status' \in [Log -> {"none", "pending", "retrying", "due", "sent", "failed"}]
        /\ attempts' \in [Log -> Nat]
        /\ \A k \in Log : status'[k] \in {"retrying", "due"} => attempts'[k] \in 1..MaxAttempts-1
    BY <1>9, <2>1, RecordTypes DEF SweepRecords
  <2>3. QED
    BY <1>0, <1>9, <2>2 DEF SweepRecords
<1>10. ASSUME NEW s \in Sweep, Start(s) \/ Finish(s)
       PROVE  RowTypes'
  <2>1. lease' \in {lease, 0, LockTtl}
    BY <1>10 DEF Start, Finish
  <2>2. UNCHANGED <<status, attempts, copies, sending, asking>>
    BY <1>10 DEF Start, Finish
  <2>3. QED
    BY <1>0, <2>1, <2>2, RetryAssumption
<1>11. ASSUME NEW s \in Sweep, Killed(s) \/ Raises(s)
       PROVE  RowTypes'
  <2>1. Drops(s) /\ lease' \in {lease, 0}
    BY <1>11 DEF Killed, Raises
  <2>2. copies' \in [Log -> Int]
    BY <1>0, <2>1 DEF Drops
  <2>3. UNCHANGED <<status, attempts, sending, asking>>
    BY <2>1 DEF Drops
  <2>4. QED
    BY <1>0, <2>1, <2>2, <2>3, RetryAssumption
<1>12. CASE Tick
  BY <1>0, <1>12, RetryAssumption DEF Tick
<1>13. CASE UNCHANGED <<status, attempts, copies, sending, asking, lease>>
  BY <1>0, <1>13
<1>14. ASSUME NEW l \in Log, SenderRecordRaises(l)
       PROVE  RowTypes'
  <2>1. sending' \in [Log -> Answer \cup {"none"}]
    BY <1>0, <1>14 DEF SenderRecordRaises, Excepted, Answer
  <2>2. UNCHANGED <<asking, lease>> /\ RecordRaises(l)
    BY <1>14 DEF SenderRecordRaises
  <2>3. QED
    BY <1>0, <2>1, <2>2, RaiseEffect
<1>15. CASE AdminRecordRaises
  <2>1. PICK a \in Excepted : asking' = [asking EXCEPT !.answer = a]
    BY <1>15 DEF AdminRecordRaises
  <2>2. asking.answer # "none" /\ asking.log \in Log /\ a \in Answer
    BY <1>0, <1>15, CallTypes DEF AdminRecordRaises, Excepted, Answer
  <2>3. asking' \in Call
    BY <1>0, <2>1, <2>2, AnsweredCall
  <2>4. UNCHANGED <<sending, lease>> /\ RecordRaises(asking.log)
    BY <1>15 DEF AdminRecordRaises
  <2>5. QED
    BY <1>0, <2>2, <2>3, <2>4, RaiseEffect
<1>16. CASE AdminFails
  BY <1>0, <1>16 DEF AdminFails, Call
<1>17. ASSUME NEW s \in Sweep, SweepRecordRaises(s)
       PROVE  RowTypes'
  <2>1. sweep[s].call.log \in Log
    BY <1>17, RunTypes, CallTypes DEF SweepRecordRaises
  <2>2. UNCHANGED <<sending, asking, lease>> /\ RecordRaises(sweep[s].call.log)
    BY <1>17 DEF SweepRecordRaises
  <2>3. QED
    BY <1>0, <2>1, <2>2, RaiseEffect
<1>18. QED
  BY <1>1, <1>2, <1>3, <1>4, <1>5, <1>6, <1>7, <1>8, <1>9, <1>10, <1>11, <1>12, <1>13,
     <1>14, <1>15, <1>16, <1>17
     DEF Next, vars, Attempt, Works, StartUnguarded, List, RetryLog

\* TypeOK is what the sweeps and the rest say together.
LEMMA TypeStep == TypeOK /\ SweepTypes /\ [Next]_vars => TypeOK' /\ SweepTypes'
<1> SUFFICES ASSUME TypeOK, SweepTypes, [Next]_vars
             PROVE  TypeOK' /\ SweepTypes'
  OBVIOUS
<1>1. SweepTypes'
  BY SweepTypesStep
<1>2. \A s \in Running' : sweep'[s] \in SweepRun
  BY <1>1 DEF SweepTypes, Running
<1>3. RowTypes'
  BY RowTypesStep
<1>4. QED
  BY <1>1, <1>2, <1>3 DEF TypeOK, RowTypes, SweepRun

-----------------------------------------------------------------------------
(***************************************************************************)
(* One sweep at a time                                                     *)
(***************************************************************************)

\* A step of a sweep that goes on is one of that sweep alone, and no other
\* sweep starts or ends with it.
GoesOn(s) ==
    /\ s \in Running /\ Running' = Running
    /\ \A t \in Sweep \ {s} : sweep'[t] = sweep[t]
    /\ sweep'[s].guarded = sweep[s].guarded /\ sweep'[s].age = sweep[s].age
    /\ UNCHANGED <<lease, unguarded>>

\* What the steps of a sweep that goes on make of it.
LEMMA GoesOnEffect ==
    ASSUME TypeOK, SweepTypes, NEW s \in Sweep
    PROVE  /\ List(s) =>
                /\ GoesOn(s) /\ sweep[s].phase = "starting"
                /\ sweep'[s].phase = "listed" /\ sweep'[s].todo = Due
                /\ sweep'[s].call = sweep[s].call
           /\ \A l \in Log : RetryLog(s, l) =>
                /\ GoesOn(s) /\ l \in sweep[s].todo /\ sweep[s].call = NoCall
                /\ sweep'[s].phase = "sending" /\ sweep'[s].todo = sweep[s].todo \ {l}
                /\ sweep'[s].call = [log |-> l, answer |-> "asked"]
           /\ SweepAnswered(s) =>
                /\ GoesOn(s) /\ sweep'[s].todo = sweep[s].todo
                /\ sweep[s].call.answer = "asked" /\ sweep[s].call \in Call
                /\ sweep[s].call # NoCall /\ sweep[s].call.log \in Log
                /\ sweep'[s].call.log = sweep[s].call.log /\ sweep'[s].call # NoCall
                /\ sweep'[s].phase = sweep[s].phase
                /\ sweep'[s].call.answer \in Answer
                /\ Provider(sweep[s].call.log, sweep'[s].call.answer)
           /\ SweepRecords(s) =>
                /\ GoesOn(s) /\ sweep'[s].todo = sweep[s].todo
                /\ sweep[s].call # NoCall /\ sweep[s].call.log \in Log
                /\ sweep[s].call.answer \in Answer \ {"asked"}
                /\ sweep'[s].phase = sweep[s].phase
                /\ sweep'[s].call = NoCall
           /\ SweepRecordRaises(s) =>
                /\ GoesOn(s) /\ sweep'[s].todo = sweep[s].todo
                /\ sweep[s].call.answer = "sent"
                /\ sweep[s].call # NoCall /\ sweep[s].call.log \in Log
                /\ sweep'[s].call.log = sweep[s].call.log /\ sweep'[s].call # NoCall
                /\ sweep'[s].phase = sweep[s].phase
                /\ sweep'[s].call.answer \in Excepted
<1>1. ASSUME List(s)
      PROVE  /\ GoesOn(s) /\ sweep[s].phase = "starting"
             /\ sweep'[s].phase = "listed" /\ sweep'[s].todo = Due
             /\ sweep'[s].call = sweep[s].call
  <2> DEFINE n == [sweep[s] EXCEPT !.phase = "listed", !.todo = Due]
  <2>1. s \in Running /\ sweep' = [sweep EXCEPT ![s] = n] /\ sweep[s].phase = "starting"
    BY <1>1 DEF List
  <2>2. n \in SweepRun
    BY <2>1, RunTypes DEF SweepRun, Due
  <2>3. /\ n.phase = "listed" /\ n.todo = Due /\ n.call = sweep[s].call
        /\ n.guarded = sweep[s].guarded /\ n.age = sweep[s].age
    BY <2>1, RunTypes DEF SweepRun
  <2> HIDE DEF n
  <2>4. sweep'[s] = n /\ \A t \in Sweep \ {s} : sweep'[t] = sweep[t]
    BY <2>1 DEF SweepTypes
  <2>5. Running' = Running
    BY <2>1, <2>2, <2>4 DEF Running, SweepTypes, SweepRun, Off
  <2>6. QED
    BY <1>1, <2>1, <2>3, <2>4, <2>5 DEF GoesOn, List
<1>2. ASSUME NEW l \in Log, RetryLog(s, l)
      PROVE  /\ GoesOn(s) /\ l \in sweep[s].todo /\ sweep[s].call = NoCall
             /\ sweep'[s].phase = "sending" /\ sweep'[s].todo = sweep[s].todo \ {l}
             /\ sweep'[s].call = [log |-> l, answer |-> "asked"]
  <2> DEFINE c == [log |-> l, answer |-> "asked"]
             n == [sweep[s] EXCEPT !.phase = "sending", !.todo = @ \ {l}, !.call = c]
  <2>1. s \in Running /\ sweep' = [sweep EXCEPT ![s] = n]
    BY <1>2 DEF RetryLog
  <2>0. c \in Call
    BY NewCall DEF Answer
  <2> HIDE DEF c
  <2>2. n \in SweepRun
    BY <2>0, <2>1, RunTypes DEF SweepRun
  <2>3. /\ n.phase = "sending" /\ n.todo = sweep[s].todo \ {l} /\ n.call = c
        /\ n.guarded = sweep[s].guarded /\ n.age = sweep[s].age
    BY <2>1, RunTypes DEF SweepRun
  <2> HIDE DEF n
  <2>4. sweep'[s] = n /\ \A t \in Sweep \ {s} : sweep'[t] = sweep[t]
    BY <2>1 DEF SweepTypes
  <2>5. Running' = Running
    BY <2>1, <2>2, <2>4 DEF Running, SweepTypes, SweepRun, Off
  <2>6. QED
    BY <1>2, <2>1, <2>3, <2>4, <2>5 DEF GoesOn, RetryLog, c
<1>3. ASSUME SweepAnswered(s)
      PROVE  /\ GoesOn(s) /\ sweep'[s].todo = sweep[s].todo
             /\ sweep[s].call.answer = "asked" /\ sweep[s].call \in Call
             /\ sweep[s].call # NoCall /\ sweep[s].call.log \in Log
             /\ sweep'[s].call.log = sweep[s].call.log /\ sweep'[s].call # NoCall
             /\ sweep'[s].phase = sweep[s].phase
             /\ sweep'[s].call.answer \in Answer
             /\ Provider(sweep[s].call.log, sweep'[s].call.answer)
  <2>1. PICK a \in Answer : /\ Provider(sweep[s].call.log, a)
                            /\ sweep' = [sweep EXCEPT ![s].call.answer = a]
    BY <1>3 DEF SweepAnswered
  <2> DEFINE c == [sweep[s].call EXCEPT !.answer = a]
             n == [sweep[s] EXCEPT !.call = c]
  <2>2. s \in Running /\ sweep' = [sweep EXCEPT ![s] = n] /\ sweep[s].call.answer = "asked"
    BY <1>3, <2>1 DEF SweepAnswered
  <2>3. sweep[s].call \in Call
    BY <2>2, RunTypes
  <2>4. c \in Call /\ c # NoCall /\ c.log = sweep[s].call.log /\ c.answer = a
    BY <2>2, <2>3, AnsweredCall
  <2> HIDE DEF c
  <2>5. n \in SweepRun
    BY <2>2, <2>4, RunTypes DEF SweepRun
  <2>6. /\ n.phase = sweep[s].phase /\ n.todo = sweep[s].todo /\ n.call = c
        /\ n.guarded = sweep[s].guarded /\ n.age = sweep[s].age
    BY <2>2, RunTypes DEF SweepRun
  <2> HIDE DEF n
  <2>7. sweep'[s] = n /\ \A t \in Sweep \ {s} : sweep'[t] = sweep[t]
    BY <2>2 DEF SweepTypes
  <2>8. Running' = Running
    BY <2>2, <2>5, <2>7 DEF Running, SweepTypes, SweepRun, Off
  <2>9. sweep[s].call # NoCall /\ sweep[s].call.log \in Log
    BY <2>2, <2>3, CallTypes
  <2>10. QED
    BY <1>3, <2>1, <2>2, <2>3, <2>4, <2>6, <2>7, <2>8, <2>9 DEF GoesOn, SweepAnswered
<1>4. ASSUME SweepRecords(s)
      PROVE  /\ GoesOn(s) /\ sweep'[s].todo = sweep[s].todo
             /\ sweep[s].call # NoCall /\ sweep[s].call.log \in Log
             /\ sweep[s].call.answer \in Answer \ {"asked"}
             /\ sweep'[s].phase = sweep[s].phase
             /\ sweep'[s].call = NoCall
  <2> DEFINE n == [sweep[s] EXCEPT !.call = NoCall]
  <2>1. s \in Running /\ sweep' = [sweep EXCEPT ![s] = n]
    BY <1>4 DEF SweepRecords
  <2>2. n \in SweepRun
    BY <2>1, RunTypes DEF SweepRun, Call
  <2>3. /\ n.phase = sweep[s].phase /\ n.todo = sweep[s].todo /\ n.call = NoCall
        /\ n.guarded = sweep[s].guarded /\ n.age = sweep[s].age
    BY <2>1, RunTypes DEF SweepRun
  <2> HIDE DEF n
  <2>4. sweep'[s] = n /\ \A t \in Sweep \ {s} : sweep'[t] = sweep[t]
    BY <2>1 DEF SweepTypes
  <2>5. Running' = Running
    BY <2>1, <2>2, <2>4 DEF Running, SweepTypes, SweepRun, Off
  <2>6. /\ sweep[s].call # NoCall /\ sweep[s].call.log \in Log
        /\ sweep[s].call.answer \in Answer \ {"asked"}
    BY <1>4, <2>1, RunTypes, CallTypes DEF SweepRecords
  <2>7. QED
    BY <1>4, <2>1, <2>3, <2>4, <2>5, <2>6 DEF GoesOn, SweepRecords
<1>5. ASSUME SweepRecordRaises(s)
      PROVE  /\ GoesOn(s) /\ sweep'[s].todo = sweep[s].todo
             /\ sweep[s].call.answer = "sent"
             /\ sweep[s].call # NoCall /\ sweep[s].call.log \in Log
             /\ sweep'[s].call.log = sweep[s].call.log /\ sweep'[s].call # NoCall
             /\ sweep'[s].phase = sweep[s].phase
             /\ sweep'[s].call.answer \in Excepted
  <2>1. PICK a \in Excepted : sweep' = [sweep EXCEPT ![s].call.answer = a]
    BY <1>5 DEF SweepRecordRaises
  <2> DEFINE c == [sweep[s].call EXCEPT !.answer = a]
             n == [sweep[s] EXCEPT !.call = c]
  <2>2. s \in Running /\ sweep' = [sweep EXCEPT ![s] = n] /\ sweep[s].call.answer = "sent"
    BY <1>5, <2>1 DEF SweepRecordRaises
  <2>3. sweep[s].call \in Call /\ a \in Answer
    BY <2>2, RunTypes DEF Excepted, Answer
  <2>4. c \in Call /\ c # NoCall /\ c.log = sweep[s].call.log /\ c.answer = a
    BY <2>2, <2>3, AnsweredCall
  <2> HIDE DEF c
  <2>5. n \in SweepRun
    BY <2>2, <2>4, RunTypes DEF SweepRun
  <2>6. /\ n.phase = sweep[s].phase /\ n.todo = sweep[s].todo /\ n.call = c
        /\ n.guarded = sweep[s].guarded /\ n.age = sweep[s].age
    BY <2>2, RunTypes DEF SweepRun
  <2> HIDE DEF n
  <2>7. sweep'[s] = n /\ \A t \in Sweep \ {s} : sweep'[t] = sweep[t]
    BY <2>2 DEF SweepTypes
  <2>8. Running' = Running
    BY <2>2, <2>5, <2>7 DEF Running, SweepTypes, SweepRun, Off
  <2>9. sweep[s].call # NoCall /\ sweep[s].call.log \in Log
    BY <2>2, <2>3, CallTypes
  <2>10. QED
    BY <1>5, <2>1, <2>2, <2>4, <2>6, <2>7, <2>8, <2>9 DEF GoesOn, SweepRecordRaises
<1>6. QED
  BY <1>1, <1>2, <1>3, <1>4, <1>5

\* A sweep that is over leaves the others alone.
LEMMA OverEffect ==
    ASSUME SweepTypes, NEW s \in Sweep, sweep' = [sweep EXCEPT ![s] = Off]
    PROVE  Running' = Running \ {s} /\ \A t \in Running' : sweep'[t] = sweep[t]
BY DEF Running, SweepTypes

\* Nor does one that starts disturb the others.
LEMMA StartEffect ==
    ASSUME SweepTypes, NEW s \in Sweep, NEW g \in BOOLEAN,
           sweep' = [sweep EXCEPT ![s] = Started(g)]
    PROVE  /\ Running' = Running \cup {s}
           /\ \A t \in Running' \ {s} : sweep'[t] = sweep[t]
           /\ sweep'[s] = Started(g)
BY DEF Running, SweepTypes, Started, Off

\* While time passes the sweeps get older and nothing else.
LEMMA TickEffect ==
    ASSUME SweepTypes, Tick
    PROVE  /\ Running' = Running
           /\ \A s \in Running : /\ sweep[s].age \in 0..Limit /\ sweep[s].age < Limit
                                 /\ sweep'[s].age = sweep[s].age + 1
                                 /\ sweep'[s].guarded = sweep[s].guarded
                                 /\ sweep'[s].phase = sweep[s].phase
                                 /\ sweep'[s].todo = sweep[s].todo
                                 /\ sweep'[s].call = sweep[s].call
<1>1. ASSUME NEW s \in Running
      PROVE  /\ sweep[s].age \in 0..Limit /\ sweep[s].age < Limit
             /\ sweep'[s].age = sweep[s].age + 1
             /\ sweep'[s].guarded = sweep[s].guarded
             /\ sweep'[s].phase = sweep[s].phase
             /\ sweep'[s].todo = sweep[s].todo
             /\ sweep'[s].call = sweep[s].call
             /\ sweep'[s] # Off
  <2> DEFINE n == [sweep[s] EXCEPT !.age = @ + 1]
  <2>1. sweep'[s] = n /\ sweep[s].age < Limit
    BY DEF Tick, Running
  <2>2. sweep[s] \in SweepRun
    BY RunTypes DEF Running
  <2>3. QED
    BY <2>1, <2>2, RetryAssumption DEF SweepRun, Off
<1>2. \A s \in Sweep \ Running : sweep'[s] = Off
  BY DEF Tick
<1>3. QED
  BY <1>1, <1>2 DEF Running

\* One sweep at a time holds the lock, and lists its rows once.
LEMMA LockStep ==
    ASSUME IInv, [Next]_vars
    PROVE  HoldsLock' /\ OneSweep' /\ OnceListed'
<1>0. TypeOK /\ SweepTypes /\ HoldsLock /\ OneSweep /\ OnceListed
  BY DEF IInv
<1>1. ASSUME NEW s \in Sweep, Start(s)
      PROVE  HoldsLock' /\ OneSweep' /\ OnceListed'
  <2>1. /\ Running' = Running \cup {s}
        /\ \A t \in Running' \ {s} : sweep'[t] = sweep[t]
        /\ sweep'[s] = Started(TRUE)
    BY <1>0, <1>1, StartEffect DEF Start
  <2>2. lease = 0 /\ lease' = LockTtl /\ unguarded' = unguarded
    BY <1>1 DEF Start
  <2>3. ~unguarded => Running = {}
    <3>1. ASSUME NEW t \in Running, ~unguarded
          PROVE  FALSE
      <4>1. sweep[t].age \in 0..Limit
        BY <1>0, RunTypes DEF Running
      <4>2. sweep[t].age + lease >= LockTtl
        BY <1>0, <3>1 DEF HoldsLock
      <4>3. QED
        BY <2>2, <4>1, <4>2, RetryAssumption
    <3>2. QED
      BY <3>1
  <2>4. HoldsLock' /\ OneSweep'
    <3>1. ~unguarded' => \A t \in Running' : t = s
      BY <2>1, <2>2, <2>3
    <3>2. sweep'[s].guarded = TRUE /\ sweep'[s].age = 0
      BY <2>1 DEF Started
    <3>3. QED
      BY <2>2, <3>1, <3>2, RetryAssumption DEF HoldsLock, OneSweep
  <2>5. sweep'[s].todo = {} /\ sweep'[s].call = NoCall
    BY <2>1 DEF Started
  <2>6. OnceListed'
    BY <1>0, <2>1, <2>5 DEF OnceListed
  <2>7. QED
    BY <2>4, <2>6
<1>2. ASSUME NEW s \in Sweep, StartUnguarded(s)
      PROVE  HoldsLock' /\ OneSweep' /\ OnceListed'
  <2>1. PICK g \in BOOLEAN : sweep' = [sweep EXCEPT ![s] = Started(g)]
    BY <1>2 DEF StartUnguarded
  <2>2. /\ Running' = Running \cup {s}
        /\ \A t \in Running' \ {s} : sweep'[t] = sweep[t]
        /\ sweep'[s] = Started(g)
    BY <1>0, <2>1, StartEffect
  <2>3. sweep'[s].todo = {} /\ sweep'[s].call = NoCall
    BY <2>2 DEF Started
  <2>4. OnceListed'
    BY <1>0, <2>2, <2>3 DEF OnceListed
  <2>5. unguarded'
    BY <1>2 DEF StartUnguarded
  <2>6. QED
    BY <2>4, <2>5 DEF HoldsLock, OneSweep
<1>3. ASSUME NEW s \in Sweep, GoesOn(s)
      PROVE  HoldsLock' /\ OneSweep'
  BY <1>0, <1>3 DEF GoesOn, HoldsLock, OneSweep, Running
<1>4. ASSUME NEW s \in Sweep, GoesOn(s),
             sweep'[s].phase = "starting" => sweep'[s].todo = {} /\ sweep'[s].call = NoCall,
             sweep'[s].call # NoCall => sweep'[s].call.log \notin sweep'[s].todo
      PROVE  OnceListed'
  BY <1>0, <1>4 DEF GoesOn, OnceListed, Running
<1>5. ASSUME NEW s \in Sweep, List(s)
      PROVE  HoldsLock' /\ OneSweep' /\ OnceListed'
  <2>1. /\ GoesOn(s) /\ sweep[s].phase = "starting" /\ sweep'[s].phase = "listed"
        /\ sweep'[s].call = sweep[s].call
    BY <1>0, <1>5, GoesOnEffect
  <2>2. sweep'[s].call = NoCall
    BY <1>0, <2>1 DEF OnceListed, GoesOn
  <2>3. QED
    BY <1>3, <1>4, <2>1, <2>2
<1>6. ASSUME NEW s \in Sweep, NEW l \in Log, RetryLog(s, l)
      PROVE  HoldsLock' /\ OneSweep' /\ OnceListed'
  <2>1. /\ GoesOn(s) /\ sweep'[s].phase = "sending"
        /\ sweep'[s].todo = sweep[s].todo \ {l}
        /\ sweep'[s].call = [log |-> l, answer |-> "asked"]
    BY <1>0, <1>6, GoesOnEffect
  <2>2. sweep'[s].call.log \notin sweep'[s].todo
    BY <2>1
  <2>3. QED
    BY <1>3, <1>4, <2>1, <2>2
<1>7. ASSUME NEW s \in Sweep, SweepAnswered(s) \/ SweepRecords(s) \/ SweepRecordRaises(s)
      PROVE  HoldsLock' /\ OneSweep' /\ OnceListed'
  <2>1. /\ GoesOn(s) /\ sweep'[s].todo = sweep[s].todo
        /\ sweep[s].call # NoCall
        /\ sweep'[s].phase = sweep[s].phase
        /\ sweep'[s].call # NoCall => sweep'[s].call.log = sweep[s].call.log
    BY <1>0, <1>7, GoesOnEffect
  <2>2. sweep[s].phase # "starting" /\ sweep[s].call.log \notin sweep[s].todo
    BY <1>0, <2>1 DEF OnceListed, GoesOn
  <2>3. QED
    BY <1>3, <1>4, <2>1, <2>2
<1>8. ASSUME NEW s \in Sweep, Finish(s) \/ Killed(s) \/ Raises(s)
      PROVE  HoldsLock' /\ OneSweep' /\ OnceListed'
  <2>1. Running' = Running \ {s} /\ \A t \in Running' : sweep'[t] = sweep[t]
    BY <1>0, <1>8, OverEffect DEF Finish, Killed, Raises, Drops
  <2>2. unguarded' = unguarded /\ s \in Running
    BY <1>8 DEF Finish, Killed, Raises, Drops
  <2>3. ~unguarded => Running' = {}
    BY <1>0, <2>1, <2>2 DEF OneSweep
  <2>4. HoldsLock' /\ OneSweep'
    BY <2>2, <2>3 DEF HoldsLock, OneSweep
  <2>5. OnceListed'
    BY <1>0, <2>1 DEF OnceListed
  <2>6. QED
    BY <2>4, <2>5
<1>9. CASE Tick
  <2>1. /\ Running' = Running
        /\ \A s \in Running : /\ sweep[s].age \in 0..Limit /\ sweep[s].age < Limit
                              /\ sweep'[s].age = sweep[s].age + 1
                              /\ sweep'[s].guarded = sweep[s].guarded
                              /\ sweep'[s].phase = sweep[s].phase
                              /\ sweep'[s].todo = sweep[s].todo
                              /\ sweep'[s].call = sweep[s].call
    BY <1>0, <1>9, TickEffect
  <2>2. unguarded' = unguarded /\ lease' = (IF lease > 0 THEN lease - 1 ELSE 0)
    BY <1>9 DEF Tick
  <2>3. OnceListed'
    BY <1>0, <2>1 DEF OnceListed
  <2>4. OneSweep'
    BY <1>0, <2>1, <2>2 DEF OneSweep
  <2>5. HoldsLock'
    <3>1. ASSUME NEW s \in Running, ~unguarded
          PROVE  sweep'[s].guarded /\ sweep'[s].age + lease' >= LockTtl
      <4>1. sweep[s].guarded /\ sweep[s].age + lease >= LockTtl
        BY <1>0, <3>1 DEF HoldsLock
      <4>2. sweep[s].age \in Nat /\ lease \in Nat
        BY <1>0, <2>1, RetryAssumption DEF TypeOK
      <4>3. sweep'[s].age + lease' >= LockTtl
        BY <2>1, <2>2, <4>1, <4>2, RetryAssumption
      <4>4. QED
        BY <2>1, <4>1, <4>3, Zenon
    <3>2. QED
      BY <2>1, <2>2, <3>1 DEF HoldsLock
  <2>6. QED
    BY <2>3, <2>4, <2>5
<1>10. CASE UNCHANGED <<sweep, lease, unguarded>>
  BY <1>0, <1>10 DEF HoldsLock, OneSweep, OnceListed, Running
<1>11. QED
  BY <1>1, <1>2, <1>5, <1>6, <1>7, <1>8, <1>9, <1>10 DEF Next, vars, Attempt, Works, Dispatch,
     SenderAnswered, SenderRecords, SenderRecordRaises, SenderDies, AdminAsks, AdminAnswered,
     AdminRecords, AdminRecordRaises, AdminFails, BecomesDue

-----------------------------------------------------------------------------
(***************************************************************************)
(* Each copy has its reason                                                *)
(***************************************************************************)

\* The ways in which a step may use the budget of a row: it opens nothing; one
\* way that was open leaves a copy, or a row to be retried; or there is a new
\* reason, for one way at most.
Spends(l) ==
    \/ /\ copies'[l] = copies[l]
       /\ FirstOpen(l)' => FirstOpen(l)
       /\ AdminOpen(l)' => AdminOpen(l)
       /\ RetryOpen(l)' => RetryOpen(l)
    \/ /\ copies'[l] = copies[l]
       /\ \/ FirstOpen(l) /\ ~FirstOpen(l)' /\ (AdminOpen(l)' => AdminOpen(l))
          \/ AdminOpen(l) /\ ~AdminOpen(l)' /\ (FirstOpen(l)' => FirstOpen(l))
    \/ /\ copies'[l] = copies[l] + 1
       /\ FirstOpen(l)' => FirstOpen(l)
       /\ AdminOpen(l)' => AdminOpen(l)
       /\ RetryOpen(l)' => RetryOpen(l)
       /\ \/ FirstOpen(l) /\ ~FirstOpen(l)'
          \/ AdminOpen(l) /\ ~AdminOpen(l)'
          \/ RetryOpen(l) /\ ~RetryOpen(l)'
    \/ /\ copies'[l] = copies[l] - 1
       /\ \/ (FirstOpen(l)' => FirstOpen(l)) /\ (AdminOpen(l)' => AdminOpen(l))
          \/ (FirstOpen(l)' => FirstOpen(l)) /\ (RetryOpen(l)' => RetryOpen(l))
          \/ (AdminOpen(l)' => AdminOpen(l)) /\ (RetryOpen(l)' => RetryOpen(l))

\* None of them exceeds it.
LEMMA BudgetStep ==
    ASSUME TypeOK, NEW l \in Log, Budget(l) <= 1, Spends(l)
    PROVE  Budget(l)' <= 1
BY DEF TypeOK, Budget, Count, Spends

\* When one sweep runs, what is in hand is in its hand.
LEMMA OneHand ==
    ASSUME NEW s \in Running, \A t \in Running : t = s, NEW l \in Log
    PROVE  /\ InHand(l) <=> l \in sweep[s].todo \/ Calls(s, l)
           /\ SentBySweep(l) <=> Calls(s, l) /\ sweep[s].call.answer = "sent"
BY DEF InHand, SentBySweep

\* A row that exists is not forgotten.
LEMMA DispatchedStep ==
    ASSUME TypeOK, SweepTypes, Dispatched, [Next]_vars
    PROVE  Dispatched'
<1> USE DEF Dispatched
<1>1. ASSUME NEW l \in Log, Dispatch(l) \/ SenderAnswered(l) \/ SenderDies(l) \/ BecomesDue(l)
      PROVE  Dispatched'
  BY <1>1 DEF Dispatch, SenderAnswered, SenderDies, BecomesDue, TypeOK
<1>2. ASSUME NEW l \in Log, NEW a \in Answer \ {"asked"}, UpdateLogStatus(l, a),
             \A k \in Log : sending'[k] # "none" => sending[k] # "none"
      PROVE  Dispatched'
  BY <1>2, RecordEffect
<1>3. ASSUME NEW l \in Log, SenderRecords(l)
      PROVE  Dispatched'
  <2>1. sending[l] \in Answer \ {"asked"}
    BY <1>3 DEF SenderRecords, TypeOK
  <2>2. QED
    BY <1>2, <1>3, <2>1 DEF SenderRecords, TypeOK
<1>4. CASE AdminRecords
  <2>1. asking.answer \in Answer \ {"asked"} /\ asking.log \in Log
    BY <1>4, CallTypes DEF AdminRecords, TypeOK
  <2>2. QED
    BY <1>2, <1>4, <2>1 DEF AdminRecords
<1>5. ASSUME NEW s \in Sweep, SweepRecords(s)
      PROVE  Dispatched'
  <2>1. sweep[s].call.answer \in Answer \ {"asked"} /\ sweep[s].call.log \in Log
    BY <1>5, RunTypes, CallTypes DEF SweepRecords
  <2>2. QED
    BY <1>2, <1>5, <2>1 DEF SweepRecords
<1>6. CASE UNCHANGED <<status, sending>>
  BY <1>6
<1>7. ASSUME NEW l \in Log, RecordRaises(l),
             \A k \in Log : sending'[k] # "none" => sending[k] # "none"
      PROVE  Dispatched'
  BY <1>7, RaiseEffect
<1>8. ASSUME NEW l \in Log, SenderRecordRaises(l)
      PROVE  Dispatched'
  BY <1>7, <1>8 DEF SenderRecordRaises, TypeOK
<1>9. CASE AdminRecordRaises
  <2>1. asking.log \in Log
    BY <1>9, CallTypes DEF AdminRecordRaises, TypeOK
  <2>2. QED
    BY <1>7, <1>9, <2>1 DEF AdminRecordRaises
<1>10. ASSUME NEW s \in Sweep, SweepRecordRaises(s)
       PROVE  Dispatched'
  <2>1. sweep[s].call.log \in Log
    BY <1>10, RunTypes, CallTypes DEF SweepRecordRaises
  <2>2. QED
    BY <1>7, <1>10, <2>1 DEF SweepRecordRaises
<1>11. QED
  BY <1>1, <1>3, <1>4, <1>5, <1>6, <1>8, <1>9, <1>10 DEF Next, vars, Attempt, Works, AdminAsks,
     AdminAnswered, AdminFails, Start, StartUnguarded, List, RetryLog, SweepAnswered, Finish,
     Killed, Raises, Drops, Tick

\* The first attempt uses no more than its budget.
LEMMA SenderSpends ==
    ASSUME TypeOK, Dispatched, NEW k \in Log,
           \/ Dispatch(k) \/ SenderAnswered(k) \/ SenderRecords(k)
           \/ SenderRecordRaises(k) \/ SenderDies(k),
           NEW l \in Log
    PROVE  Spends(l)
<1>0. /\ InHand(l)' <=> InHand(l)
      /\ SentBySweep(l)' <=> SentBySweep(l)
      /\ AdminOpen(l)' <=> AdminOpen(l)
  BY DEF InHand, SentBySweep, Calls, Running, AdminOpen, Dispatch, SenderAnswered,
     SenderRecords, SenderRecordRaises, SenderDies
<1>1. CASE Dispatch(k)
  BY <1>0, <1>1 DEF Dispatch, Spends, FirstOpen, RetryOpen, TypeOK
<1>2. CASE SenderAnswered(k)
  <2>1. PICK a \in Answer : Provider(k, a) /\ sending' = [sending EXCEPT ![k] = a]
    BY <1>2 DEF SenderAnswered
  <2>2. copies'[l] = IF l = k /\ a = "sent" THEN copies[l] + 1 ELSE copies[l]
    BY <2>1, ProviderEffect
  <2>3. FirstOpen(l)' => FirstOpen(l)
    BY <1>2, <2>1 DEF SenderAnswered, FirstOpen, TypeOK
  <2>4. RetryOpen(l)' => RetryOpen(l)
    BY <1>0, <1>2 DEF SenderAnswered, RetryOpen
  <2>5. l = k /\ a = "sent" => FirstOpen(l) /\ ~FirstOpen(l)'
    BY <1>2, <2>1 DEF SenderAnswered, FirstOpen, TypeOK, Dispatched
  <2>6. QED
    BY <1>0, <2>2, <2>3, <2>4, <2>5 DEF Spends
<1>3. CASE SenderRecords(k)
  <2>1. sending[k] \in Answer \ {"asked"} /\ UpdateLogStatus(k, sending[k])
    BY <1>3 DEF SenderRecords, TypeOK
  <2>2. copies' = copies /\ sending' = [sending EXCEPT ![k] = "none"]
    BY <1>3 DEF SenderRecords
  <2>3. FirstOpen(l)' => FirstOpen(l)
    BY <2>1, <2>2, RecordEffect DEF FirstOpen, TypeOK
  <2>4. CASE l = k /\ sending[k] = "failed"
    <3>1. FirstOpen(l) /\ ~FirstOpen(l)'
      BY <2>1, <2>2, <2>4, RecordEffect DEF FirstOpen, TypeOK, Dispatched
    <3>2. QED
      BY <1>0, <2>2, <3>1 DEF Spends
  <2>5. CASE l # k \/ sending[k] # "failed"
    <3>1. status'[l] \in {"retrying", "due"} => status[l] \in {"retrying", "due"}
      BY <2>1, <2>5, RecordEffect
    <3>2. RetryOpen(l)' => RetryOpen(l)
      BY <1>0, <3>1 DEF RetryOpen
    <3>3. QED
      BY <1>0, <2>2, <2>3, <3>2 DEF Spends
  <2>6. QED
    BY <2>4, <2>5
<1>4. CASE SenderDies(k)
  BY <1>0, <1>4 DEF SenderDies, Spends, FirstOpen, RetryOpen, TypeOK
<1>5. CASE SenderRecordRaises(k)
  <2>1. RecordRaises(k) /\ l # k => sending'[l] = sending[l]
    BY <1>5 DEF SenderRecordRaises, TypeOK
  <2>2. /\ copies'[l] = IF l = k THEN copies[l] - 1 ELSE copies[l]
        /\ status'[l] # status[l] => status'[l] = "sent"
    BY <1>5, RaiseEffect DEF SenderRecordRaises
  <2>3. RetryOpen(l)' => RetryOpen(l)
    BY <1>0, <2>2 DEF RetryOpen
  <2>4. l # k => (FirstOpen(l)' => FirstOpen(l))
    BY <1>5, <2>1, <2>2 DEF SenderRecordRaises, FirstOpen
  <2>5. QED
    BY <1>0, <2>2, <2>3, <2>4 DEF Spends
<1>6. QED
  BY <1>1, <1>2, <1>3, <1>4, <1>5

\* Nor does the retry of an administrator, who is a reason himself.
LEMMA AdminSpends ==
    ASSUME TypeOK,
           \/ \E k \in Log : AdminAsks(k)
           \/ AdminAnswered \/ AdminRecords \/ AdminRecordRaises \/ AdminFails,
           NEW l \in Log
    PROVE  Spends(l)
<1>0. /\ InHand(l)' <=> InHand(l)
      /\ SentBySweep(l)' <=> SentBySweep(l)
  BY DEF InHand, SentBySweep, Calls, Running, AdminAsks, AdminAnswered, AdminRecords,
     AdminRecordRaises, AdminFails
<1>1. ASSUME NEW k \in Log, AdminAsks(k)
      PROVE  Spends(l)
  <2>1. /\ FirstOpen(l)' <=> FirstOpen(l)
        /\ RetryOpen(l)' <=> RetryOpen(l)
    BY <1>0, <1>1 DEF AdminAsks, FirstOpen, RetryOpen
  <2>2. copies'[l] = IF l = k THEN copies[l] - 1 ELSE copies[l]
    BY <1>1 DEF AdminAsks, TypeOK
  <2>3. l # k => ~AdminOpen(l)'
    BY <1>1 DEF AdminAsks, AdminOpen
  <2>4. QED
    BY <2>1, <2>2, <2>3 DEF Spends
<1>2. CASE AdminAnswered
  <2>1. PICK a \in Answer : Provider(asking.log, a) /\ asking' = [asking EXCEPT !.answer = a]
    BY <1>2 DEF AdminAnswered
  <2>2. asking.answer = "asked" /\ asking \in Call /\ asking # NoCall /\ asking.log \in Log
    BY <1>2, CallTypes DEF AdminAnswered, TypeOK
  <2>3. asking' # NoCall /\ asking'.log = asking.log /\ asking'.answer = a
    BY <2>1, <2>2, AnsweredCall
  <2>4. copies'[l] = IF l = asking.log /\ a = "sent" THEN copies[l] + 1 ELSE copies[l]
    BY <2>1, <2>2, ProviderEffect
  <2>5. /\ FirstOpen(l)' <=> FirstOpen(l)
        /\ RetryOpen(l)' <=> RetryOpen(l)
    BY <1>0, <1>2 DEF AdminAnswered, FirstOpen, RetryOpen
  <2>6. /\ AdminOpen(l)' => AdminOpen(l)
        /\ l = asking.log /\ a = "sent" => AdminOpen(l) /\ ~AdminOpen(l)'
    BY <2>2, <2>3 DEF AdminOpen
  <2>7. QED
    BY <2>4, <2>5, <2>6 DEF Spends
<1>3. CASE AdminRecords
  <2>1. /\ asking.answer \in Answer \ {"asked"} /\ asking # NoCall /\ asking.log \in Log
        /\ UpdateLogStatus(asking.log, asking.answer)
    BY <1>3, CallTypes DEF AdminRecords, TypeOK
  <2>2. copies' = copies /\ sending' = sending /\ asking' = NoCall
    BY <1>3 DEF AdminRecords
  <2>3. FirstOpen(l)' => FirstOpen(l)
    BY <2>1, <2>2, RecordEffect DEF FirstOpen
  <2>4. ~AdminOpen(l)'
    BY <2>2 DEF AdminOpen
  <2>5. CASE l = asking.log /\ asking.answer = "failed"
    <3>1. AdminOpen(l)
      BY <2>1, <2>5 DEF AdminOpen
    <3>2. QED
      BY <2>2, <2>3, <2>4, <3>1 DEF Spends
  <2>6. CASE l # asking.log \/ asking.answer # "failed"
    <3>1. status'[l] \in {"retrying", "due"} => status[l] \in {"retrying", "due"}
      BY <2>1, <2>6, RecordEffect
    <3>2. RetryOpen(l)' => RetryOpen(l)
      BY <1>0, <3>1 DEF RetryOpen
    <3>3. QED
      BY <2>2, <2>3, <2>4, <3>2 DEF Spends
  <2>7. QED
    BY <2>5, <2>6
<1>4. CASE AdminRecordRaises
  <2>1. asking.log \in Log /\ RecordRaises(asking.log) /\ asking # NoCall
    BY <1>4, CallTypes DEF AdminRecordRaises, TypeOK
  <2>2. /\ copies'[l] = IF l = asking.log THEN copies[l] - 1 ELSE copies[l]
        /\ status'[l] # status[l] => status'[l] = "sent"
    BY <2>1, RaiseEffect
  <2>3. /\ RetryOpen(l)' => RetryOpen(l)
        /\ FirstOpen(l)' => FirstOpen(l)
    BY <1>0, <1>4, <2>2 DEF AdminRecordRaises, RetryOpen, FirstOpen
  <2>4. asking'.log = asking.log
    <3>1. PICK a \in Excepted : asking' = [asking EXCEPT !.answer = a]
      BY <1>4 DEF AdminRecordRaises
    <3>2. asking \in Call /\ asking.answer # "none" /\ a \in Answer
      BY <1>4 DEF AdminRecordRaises, TypeOK, Excepted, Answer
    <3>3. QED
      BY <3>1, <3>2, AnsweredCall
  <2>5. l # asking.log => ~AdminOpen(l)'
    BY <2>4 DEF AdminOpen
  <2>6. QED
    BY <2>2, <2>3, <2>5 DEF Spends
<1>5. CASE AdminFails
  BY <1>0, <1>5 DEF AdminFails, Spends, AdminOpen, FirstOpen, RetryOpen
<1>6. QED
  BY <1>1, <1>2, <1>3, <1>4, <1>5

\* A sweep that is alone uses no more than the budget of the rows it lists.
LEMMA SweepSpends ==
    ASSUME IInv, ~unguarded, NEW s \in Sweep,
           (Works(s) /\ ~Finish(s)) \/ SweepRecordRaises(s), NEW l \in Log
    PROVE  Spends(l)
<1>0. TypeOK /\ SweepTypes /\ OneSweep /\ OnceListed
  BY DEF IInv
<1>1. /\ AdminOpen(l)' <=> AdminOpen(l)
      /\ sending' = sending
  BY DEF AdminOpen, Works, List, RetryLog, SweepAnswered, SweepRecords, SweepRecordRaises, Finish
<1>2. ASSUME GoesOn(s)
      PROVE  /\ InHand(l) <=> l \in sweep[s].todo \/ Calls(s, l)
             /\ SentBySweep(l) <=> Calls(s, l) /\ sweep[s].call.answer = "sent"
             /\ InHand(l)' <=> l \in sweep'[s].todo \/ Calls(s, l)'
             /\ SentBySweep(l)' <=> Calls(s, l)' /\ sweep'[s].call.answer = "sent"
  <2>1. s \in Running /\ Running' = Running /\ \A t \in Running : t = s
    BY <1>0, <1>2 DEF GoesOn, OneSweep
  <2>2. QED
    BY <2>1 DEF InHand, SentBySweep, Calls
<1>3. CASE List(s)
  <2>1. /\ GoesOn(s) /\ sweep[s].phase = "starting"
        /\ sweep'[s].todo = Due /\ sweep'[s].call = sweep[s].call
    BY <1>0, <1>3, GoesOnEffect
  <2>2. sweep[s].call = NoCall
    BY <1>0, <2>1 DEF OnceListed, GoesOn
  <2>3. ~SentBySweep(l) /\ ~Calls(s, l)'
    BY <1>2, <2>1, <2>2 DEF Calls
  <2>4. status' = status /\ copies' = copies
    BY <1>3 DEF List
  <2>5. InHand(l)' => status[l] = "due"
    BY <1>2, <2>1, <2>3 DEF Due
  <2>6. RetryOpen(l)' => RetryOpen(l)
    BY <2>3, <2>4, <2>5 DEF RetryOpen
  <2>7. QED
    BY <1>1, <2>4, <2>6 DEF Spends, FirstOpen
<1>4. ASSUME NEW k \in Log, RetryLog(s, k)
      PROVE  Spends(l)
  <2>1. /\ GoesOn(s) /\ k \in sweep[s].todo /\ sweep[s].call = NoCall
        /\ sweep'[s].todo = sweep[s].todo \ {k}
        /\ sweep'[s].call = [log |-> k, answer |-> "asked"]
    BY <1>0, <1>4, GoesOnEffect
  <2>2. sweep'[s].call # NoCall /\ sweep'[s].call.log = k
    <3>1. "asked" \in Answer
      BY DEF Answer
    <3>2. [log |-> k, answer |-> "asked"] # NoCall
      BY <3>1, NewCall
    <3>3. QED
      BY <2>1, <3>2
  <2>3. Calls(s, l)' <=> l = k
    BY <2>2 DEF Calls
  <2>4. ~SentBySweep(l) /\ (InHand(l)' <=> InHand(l))
    BY <1>2, <2>1, <2>3 DEF Calls
  <2>5. status' = status /\ copies' = copies
    BY <1>4 DEF RetryLog
  <2>6. RetryOpen(l)' => RetryOpen(l)
    BY <2>4, <2>5 DEF RetryOpen
  <2>7. QED
    BY <1>1, <2>5, <2>6 DEF Spends, FirstOpen
<1>5. CASE SweepAnswered(s)
  <2> DEFINE k == sweep[s].call.log
             a == sweep'[s].call.answer
  <2>1. /\ GoesOn(s) /\ sweep'[s].todo = sweep[s].todo
        /\ sweep[s].call.answer = "asked" /\ sweep[s].call # NoCall /\ k \in Log
        /\ sweep'[s].call.log = k /\ sweep'[s].call # NoCall
        /\ a \in Answer /\ Provider(k, a)
    BY <1>0, <1>5, GoesOnEffect
  <2>2. copies'[l] = IF l = k /\ a = "sent" THEN copies[l] + 1 ELSE copies[l]
    BY <1>0, <2>1, ProviderEffect
  <2>3. (Calls(s, l) <=> l = k) /\ (Calls(s, l)' <=> l = k)
    BY <2>1 DEF Calls
  <2>4. ~SentBySweep(l) /\ (InHand(l)' <=> InHand(l)) /\ (l = k => InHand(l))
        /\ (SentBySweep(l)' <=> l = k /\ a = "sent")
    BY <1>2, <2>1, <2>3
  <2> HIDE DEF k, a
  <2>5. status' = status
    BY <1>5 DEF SweepAnswered
  <2>6. /\ RetryOpen(l)' => RetryOpen(l)
        /\ l = k /\ a = "sent" => RetryOpen(l) /\ ~RetryOpen(l)'
    BY <2>4, <2>5 DEF RetryOpen
  <2>7. FirstOpen(l)' <=> FirstOpen(l)
    BY <1>1, <2>5 DEF FirstOpen
  <2>8. QED
    BY <1>1, <2>2, <2>6, <2>7 DEF Spends
<1>6. CASE SweepRecords(s)
  <2> DEFINE k == sweep[s].call.log
             a == sweep[s].call.answer
  <2>1. /\ GoesOn(s) /\ sweep'[s].todo = sweep[s].todo
        /\ sweep[s].call # NoCall /\ k \in Log /\ a \in Answer \ {"asked"}
        /\ sweep'[s].call = NoCall
    BY <1>0, <1>6, GoesOnEffect
  <2>2. UpdateLogStatus(k, a) /\ copies' = copies
    BY <1>6 DEF SweepRecords
  <2>3. (Calls(s, l) <=> l = k) /\ ~Calls(s, l)'
    BY <2>1 DEF Calls
  <2>4. k \notin sweep[s].todo
    BY <1>0, <2>1 DEF OnceListed, GoesOn
  <2>5. /\ SentBySweep(l) <=> l = k /\ a = "sent"
        /\ ~SentBySweep(l)'
        /\ l = k => InHand(l) /\ ~InHand(l)'
        /\ l # k => (InHand(l)' <=> InHand(l))
    BY <1>2, <2>1, <2>3, <2>4
  <2> HIDE DEF k, a
  <2>6. /\ status'[l] = "none" => status[l] = "none"
        /\ l # k => status'[l] = status[l]
        /\ a = "sent" => status'[k] \notin {"retrying", "due"}
    BY <1>0, <2>1, <2>2, RecordEffect
  <2>7. RetryOpen(l)' => RetryOpen(l)
    BY <2>5, <2>6 DEF RetryOpen
  <2>8. FirstOpen(l)' => FirstOpen(l)
    BY <1>1, <2>6 DEF FirstOpen
  <2>9. QED
    BY <1>1, <2>2, <2>7, <2>8 DEF Spends
<1>7. CASE SweepRecordRaises(s)
  <2> DEFINE k == sweep[s].call.log
  <2>1. /\ GoesOn(s) /\ sweep'[s].todo = sweep[s].todo
        /\ sweep[s].call.answer = "sent" /\ sweep[s].call # NoCall /\ k \in Log
        /\ sweep'[s].call.log = k /\ sweep'[s].call # NoCall
        /\ RecordRaises(k)
    BY <1>0, <1>7, GoesOnEffect DEF SweepRecordRaises
  <2>2. /\ copies'[l] = IF l = k THEN copies[l] - 1 ELSE copies[l]
        /\ status'[l] # status[l] => status'[l] = "sent"
    BY <1>0, <2>1, RaiseEffect
  <2>3. (Calls(s, l) <=> l = k) /\ (Calls(s, l)' <=> l = k)
    BY <2>1 DEF Calls
  <2>4. /\ InHand(l)' <=> InHand(l)
        /\ l # k => (SentBySweep(l)' <=> SentBySweep(l))
    BY <1>2, <2>1, <2>3
  <2> HIDE DEF k
  <2>5. /\ l # k => (RetryOpen(l)' => RetryOpen(l))
        /\ FirstOpen(l)' => FirstOpen(l)
    BY <1>1, <2>2, <2>4 DEF RetryOpen, FirstOpen
  <2>6. QED
    BY <1>1, <2>2, <2>5 DEF Spends
<1>8. QED
  BY <1>3, <1>4, <1>5, <1>6, <1>7 DEF Works

\* A sweep that ends, by itself or not, leaves what it has not sent as it was;
\* a copy that it cannot record any more is a reason to send another.
LEMMA EndSpends ==
    ASSUME IInv, ~unguarded, NEW s \in Sweep, Finish(s) \/ Killed(s) \/ Raises(s), NEW l \in Log
    PROVE  Spends(l)
<1>0. TypeOK /\ SweepTypes /\ OneSweep
  BY DEF IInv
<1>1. s \in Running /\ \A t \in Running : t = s
  BY <1>0 DEF OneSweep, Finish, Killed, Raises, Drops
<1>2. Running' = {}
  BY <1>0, <1>1, OverEffect DEF Finish, Killed, Raises, Drops
<1>3. ~InHand(l)' /\ ~SentBySweep(l)'
  BY <1>2 DEF InHand, SentBySweep
<1>4. /\ AdminOpen(l)' <=> AdminOpen(l)
      /\ FirstOpen(l)' <=> FirstOpen(l)
      /\ status' = status
  BY DEF AdminOpen, FirstOpen, Finish, Killed, Raises, Drops
<1>5. SentBySweep(l) <=> sweep[s].call = [log |-> l, answer |-> "sent"]
  <2>1. sweep[s].call \in Call
    BY <1>0, <1>1, RunTypes
  <2>2. sweep[s].call = [log |-> l, answer |-> "sent"]
          <=> sweep[s].call # NoCall /\ sweep[s].call.log = l /\ sweep[s].call.answer = "sent"
    BY <2>1, CallTypes
  <2>3. QED
    BY <1>1, <2>2, OneHand DEF Calls
<1>6. CASE Finish(s)
  <2>1. ~SentBySweep(l) /\ copies' = copies
    BY <1>1, <1>6, OneHand DEF Finish, Calls
  <2>2. QED
    BY <1>3, <1>4, <2>1 DEF Spends, RetryOpen
<1>7. CASE Killed(s) \/ Raises(s)
  <2>1. copies'[l] = IF SentBySweep(l) THEN copies[l] - 1 ELSE copies[l]
    BY <1>5, <1>7 DEF Killed, Raises, Drops
  <2>2. ~SentBySweep(l) => (RetryOpen(l)' => RetryOpen(l))
    BY <1>3, <1>4 DEF RetryOpen
  <2>3. QED
    BY <1>4, <2>1, <2>2 DEF Spends
<1>8. QED
  BY <1>6, <1>7

\* A new sweep has nothing in hand, and time opens nothing.
LEMMA TimeSpends ==
    ASSUME IInv, ~unguarded, NEW l \in Log,
           Tick \/ (\E k \in Log : BecomesDue(k)) \/ (\E s \in Sweep : Start(s))
    PROVE  Spends(l)
<1>0. TypeOK /\ SweepTypes
  BY DEF IInv
<1>1. /\ AdminOpen(l)' <=> AdminOpen(l)
      /\ FirstOpen(l)' <=> FirstOpen(l)
      /\ copies' = copies
      /\ status'[l] \in {"retrying", "due"} => status[l] \in {"retrying", "due"}
  BY <1>0 DEF AdminOpen, FirstOpen, Tick, BecomesDue, Start, TypeOK
<1>2. /\ InHand(l)' <=> InHand(l)
      /\ SentBySweep(l)' <=> SentBySweep(l)
  <2>1. CASE Tick
    BY <1>0, <2>1, TickEffect DEF InHand, SentBySweep, Calls
  <2>2. ASSUME NEW k \in Log, BecomesDue(k)
        PROVE  <1>2!1 /\ <1>2!2
    BY <2>2 DEF BecomesDue, InHand, SentBySweep, Calls, Running
  <2>3. ASSUME NEW s \in Sweep, Start(s)
        PROVE  <1>2!1 /\ <1>2!2
    <3>1. /\ Running' = Running \cup {s}
          /\ \A t \in Running' \ {s} : sweep'[t] = sweep[t]
          /\ sweep'[s] = Started(TRUE)
      BY <1>0, <2>3, StartEffect DEF Start
    <3>2. s \notin Running
      BY <2>3 DEF Start, Running
    <3>3. sweep'[s].todo = {} /\ sweep'[s].call = NoCall
      BY <3>1 DEF Started
    <3>4. QED
      BY <3>1, <3>2, <3>3 DEF InHand, SentBySweep, Calls
  <2>4. QED
    BY <2>1, <2>2, <2>3
<1>3. QED
  BY <1>1, <1>2 DEF Spends, RetryOpen

\* No step exceeds the budget of a row.
LEMMA CopyStep ==
    ASSUME IInv, [Next]_vars
    PROVE  OneCopy'
<1> SUFFICES ASSUME ~unguarded', NEW l \in Log
             PROVE  Budget(l)' <= 1
  BY DEF OneCopy
<1>0. TypeOK /\ Dispatched
  BY DEF IInv
<1>1. CASE \E s \in Sweep : StartUnguarded(s)
  BY <1>1 DEF StartUnguarded
<1>2. CASE UNCHANGED vars
  <2>1. ~unguarded
    BY <1>2 DEF vars
  <2>2. Budget(l)' = Budget(l)
    BY <1>2 DEF vars, Budget, FirstOpen, AdminOpen, RetryOpen, InHand, SentBySweep, Calls, Running
  <2>3. QED
    BY <2>1, <2>2 DEF IInv, OneCopy
<1>3. CASE ~unguarded /\ Next /\ ~\E s \in Sweep : StartUnguarded(s)
  <2>1. Budget(l) <= 1
    BY <1>3 DEF IInv, OneCopy
  <2>2. Spends(l)
    BY <1>0, <1>3, SenderSpends, AdminSpends, SweepSpends, EndSpends, TimeSpends
       DEF Next, Attempt
  <2>3. QED
    BY <1>0, <2>1, <2>2, BudgetStep
<1>4. ~unguarded \/ UNCHANGED vars \/ \E s \in Sweep : StartUnguarded(s)
  BY DEF Next, vars, Dispatch, Attempt, SenderAnswered, SenderRecords, SenderRecordRaises,
     SenderDies, AdminAsks, AdminAnswered, AdminRecords, AdminRecordRaises, AdminFails, Start,
     Works, List, RetryLog, SweepAnswered, SweepRecords, SweepRecordRaises, Finish, Killed, Raises,
     Drops, BecomesDue, Tick
<1>5. QED
  BY <1>1, <1>2, <1>3, <1>4

-----------------------------------------------------------------------------
\* The inductive invariant holds at the start.
LEMMA InitIInv == Init => IInv
<1> SUFFICES ASSUME Init
             PROVE  IInv
  OBVIOUS
<1>1. Running = {}
  BY DEF Init, Running
<1>2. TypeOK /\ SweepTypes
  BY <1>1, RetryAssumption DEF Init, TypeOK, SweepTypes, Call
<1>3. HoldsLock /\ OneSweep /\ OnceListed /\ Dispatched
  BY <1>1 DEF Init, HoldsLock, OneSweep, OnceListed, Dispatched
<1>4. OneCopy
  <2>1. ASSUME NEW l \in Log
        PROVE  copies[l] = 0 /\ ~AdminOpen(l) /\ ~RetryOpen(l)
    <3>1. copies[l] = 0 /\ status[l] = "none" /\ asking = NoCall
      BY DEF Init
    <3>2. ~InHand(l)
      BY <1>1 DEF InHand
    <3>3. QED
      BY <3>1, <3>2 DEF AdminOpen, RetryOpen
  <2>2. ASSUME NEW l \in Log
        PROVE  Budget(l) <= 1
    <3>1. Count(FirstOpen(l)) \in {0, 1} /\ Count(AdminOpen(l)) = 0 /\ Count(RetryOpen(l)) = 0
      BY <2>1 DEF Count
    <3>2. QED
      BY <2>1, <3>1 DEF Budget
  <2>3. QED
    BY <2>2 DEF OneCopy
<1>5. QED
  BY <1>2, <1>3, <1>4 DEF IInv

\* The inductive invariant is one.
LEMMA Invariance == Spec => []IInv
<1>1. IInv /\ [Next]_vars => IInv'
  BY TypeStep, LockStep, DispatchedStep, CopyStep DEF IInv
<1>2. QED
  BY <1>1, InitIInv, PTL DEF Spec

\* The rows, calls and sweeps keep their types; a row waits for another attempt
\* only while it has one left, and no sweep outlives the limit.
THEOREM NotificationTypes == Spec => []TypeOK
<1>1. IInv => TypeOK
  BY DEF IInv
<1>2. QED
  BY <1>1, Invariance, PTL

\* The sweep never repeats a delivery on its own.
THEOREM NotificationSentOnce == Spec => []OneSend
<1>1. IInv => OneSend
  <2>1. ASSUME IInv, ~unguarded, NEW l \in Log
        PROVE  copies[l] <= 1
    <3>1. Budget(l) <= 1 /\ copies[l] \in Int
      BY <2>1 DEF IInv, OneCopy, TypeOK
    <3>2. QED
      BY <3>1 DEF Budget, Count
  <2>2. QED
    BY <2>1 DEF OneSend
<1>2. QED
  BY <1>1, Invariance, PTL
=============================================================================
