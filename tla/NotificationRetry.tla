------------------------- MODULE NotificationRetry -------------------------
(***************************************************************************)
(* The attempts to deliver a notification: the first one, made by the code *)
(* that creates its row of notification_logs, the sweep that Celery beat   *)
(* starts every 30 seconds for the rows in 'retrying', and the retries an  *)
(* administrator asks for.                                                 *)
(*                                                                         *)
(* Each attempt commits, calls the provider without a transaction, and     *)
(* records the outcome in a session of its own.  Nothing in the row says   *)
(* that an attempt is under way: one sweep at a time is the work of a lock *)
(* in Redis that expires LockTtl after it was taken, longer than the Limit *)
(* at which Celery kills the sweep.  The sweep runs without the lock when  *)
(* Redis is out, and when an administrator asks for it.                    *)
(***************************************************************************)
EXTENDS Integers

CONSTANTS Log,           \* rows of notification_logs
          Sweep,         \* processes that may run the sweep
          Limit,         \* time_limit of the task
          LockTtl,       \* _LOCK_TTL_SECONDS, in the same unit
          MaxAttempts,   \* len(_RETRY_DELAYS)
          MaxMishaps     \* processes that stop, records that raise, retries an
                         \* administrator asks for and sweeps without the lock,
                         \* taken together

ASSUME RetryAssumption ==
  /\ Limit \in Nat \ {0} /\ LockTtl \in Nat /\ LockTtl > Limit
  /\ MaxAttempts \in Nat \ {0}
  /\ MaxMishaps \in Nat

VARIABLES
  status,       \* notification_logs.status; "due": next_retry_at has passed
  attempts,     \* notification_logs.attempt_count
  copies,       \* messages the provider took of each row, less the reasons
                \* there were to send another: see OneSend
  sending,      \* the first attempt at each row: the provider's answer
  asking,       \* the rows the administrator retries, with the answer
  sweep,        \* the sweep each process runs
  lease,        \* time until the lock expires, 0: nobody holds it
  mishaps,
  unguarded     \* a sweep has run without the lock

vars == <<status, attempts, copies, sending, asking, sweep, lease, mishaps, unguarded>>

Off == [phase |-> "off"]

\* What is known of a call of the provider
Answer == {"asked", "sent", "failed", "silent", "refused"}

NoCall == [answer |-> "none"]

Running == {s \in Sweep : sweep[s] # Off}

Init ==
  /\ status = [l \in Log |-> "none"]
  /\ attempts = [l \in Log |-> 0]
  /\ copies = [l \in Log |-> 0]
  /\ sending = [l \in Log |-> "none"]
  /\ asking = NoCall
  /\ sweep = [s \in Sweep |-> Off]
  /\ lease = 0
  /\ mishaps = 0 /\ unguarded = FALSE

Mishap == mishaps < MaxMishaps /\ mishaps' = mishaps + 1

----------------------------------------------------------------------------
(* One attempt: the provider, and what is recorded of its answer *)

\* The provider takes the message and says so; the call fails, and the message
\* may have been taken (a copy, and a reason to send another); it fails with an
\* exception that has no text, as a timeout of httpx, or the answer has no id of
\* a message, which counts for nothing either; it refuses the configuration.
Provider(l, answer) ==
  \/ /\ answer = "sent"
     /\ copies' = [copies EXCEPT ![l] = @ + 1]
  \/ /\ answer \in {"failed", "silent", "refused"}
     /\ UNCHANGED copies

\* (faulty: one attempt too many)
UpdateLogStatusOnceMore(l, answer) ==
  \/ /\ answer = "silent"
     /\ UNCHANGED <<attempts, status>>
  \/ /\ answer # "silent"
     /\ attempts' = [attempts EXCEPT ![l] = @ + 1]
     /\ status' = [status EXCEPT ![l] =
          CASE answer = "sent" -> "sent"
            [] answer = "failed" /\ attempts[l] < MaxAttempts -> "retrying"
            [] OTHER -> "failed"]

\* _update_log_status: mark_sent, mark_failed or mark_permanently_failed, and
\* nothing at all for a failure without a text or a message without an id.
UpdateLogStatus(l, answer) ==
  \/ /\ answer = "silent"
     /\ UNCHANGED <<attempts, status>>
  \/ /\ answer # "silent"
     /\ attempts' = [attempts EXCEPT ![l] = @ + 1]
     /\ status' = [status EXCEPT ![l] =
          CASE answer = "sent" -> "sent"
            [] answer = "failed" /\ attempts[l] + 1 < MaxAttempts -> "retrying"
            [] OTHER -> "failed"]

\* Recording 'sent' raises, before its commit or after it.  This happens inside
\* the try around the call, so that the message counts as not sent: a reason to
\* send another.
RecordRaises(l) ==
  /\ Mishap
  /\ UNCHANGED <<status, attempts>> \/ UpdateLogStatus(l, "sent")
  /\ copies' = [copies EXCEPT ![l] = @ - 1]

\* What the except clause records then.
Excepted == {"failed", "silent"}

----------------------------------------------------------------------------
(* The first attempt, and the administrator's *)

Dispatch(l) ==
  /\ status[l] = "none"
  /\ status' = [status EXCEPT ![l] = "pending"]
  /\ sending' = [sending EXCEPT ![l] = "asked"]
  /\ UNCHANGED <<attempts, copies, asking, sweep, lease, mishaps, unguarded>>

SenderAnswered(l) ==
  /\ sending[l] = "asked"
  /\ \E a \in Answer : Provider(l, a) /\ sending' = [sending EXCEPT ![l] = a]
  /\ UNCHANGED <<status, attempts, asking, sweep, lease, mishaps, unguarded>>

SenderRecords(l) ==
  /\ sending[l] \notin {"none", "asked"}
  /\ UpdateLogStatus(l, sending[l])
  /\ sending' = [sending EXCEPT ![l] = "none"]
  /\ UNCHANGED <<copies, asking, sweep, lease, mishaps, unguarded>>

SenderRecordRaises(l) ==
  /\ sending[l] = "sent"
  /\ RecordRaises(l)
  /\ \E a \in Excepted : sending' = [sending EXCEPT ![l] = a]
  /\ UNCHANGED <<asking, sweep, lease, unguarded>>

\* The process stops, or the record of a failure raises as well: nobody looks at
\* the pending row again.
SenderDies(l) ==
  /\ sending[l] # "none"
  /\ Mishap
  /\ sending' = [sending EXCEPT ![l] = "none"]
  /\ UNCHANGED <<status, attempts, copies, asking, sweep, lease, unguarded>>

\* retry_log_by_id: any row, whatever its status.
AdminAsks(l) ==
  /\ asking = NoCall /\ status[l] # "none"
  /\ Mishap
  /\ asking' = [log |-> l, answer |-> "asked"]
  /\ copies' = [copies EXCEPT ![l] = @ - 1]
  /\ UNCHANGED <<status, attempts, sending, sweep, lease, unguarded>>

AdminAnswered ==
  /\ asking.answer = "asked"
  /\ \E a \in Answer :
       Provider(asking.log, a) /\ asking' = [asking EXCEPT !.answer = a]
  /\ UNCHANGED <<status, attempts, sending, sweep, lease, mishaps, unguarded>>

AdminRecords ==
  /\ asking.answer \notin {"none", "asked"}
  /\ UpdateLogStatus(asking.log, asking.answer)
  /\ asking' = NoCall
  /\ UNCHANGED <<copies, sending, sweep, lease, mishaps, unguarded>>

AdminRecordRaises ==
  /\ asking.answer = "sent"
  /\ RecordRaises(asking.log)
  /\ \E a \in Excepted : asking' = [asking EXCEPT !.answer = a]
  /\ UNCHANGED <<sending, sweep, lease, unguarded>>

\* The record of a failure raises as well: the administrator gets an error.
AdminFails ==
  /\ asking.answer \notin {"none", "asked"}
  /\ Mishap
  /\ asking' = NoCall
  /\ UNCHANGED <<status, attempts, copies, sending, sweep, lease, unguarded>>

----------------------------------------------------------------------------
(* The sweep *)

Started(guarded) ==
  [phase |-> "starting", guarded |-> guarded, age |-> 0, todo |-> {}, call |-> NoCall]

\* SET NX EX.
Start(s) ==
  /\ sweep[s] = Off /\ lease = 0
  /\ sweep' = [sweep EXCEPT ![s] = Started(TRUE)]
  /\ lease' = LockTtl
  /\ UNCHANGED <<status, attempts, copies, sending, asking, mishaps, unguarded>>

\* Without the lock: SET raised, and the sweep will delete the lock although it
\* is not its own; or redis_available() is false, or an administrator asked for
\* the sweep, and it leaves the lock alone.
StartUnguarded(s) ==
  /\ sweep[s] = Off
  /\ Mishap /\ unguarded' = TRUE
  /\ \E deletes \in BOOLEAN : sweep' = [sweep EXCEPT ![s] = Started(deletes)]
  /\ UNCHANGED <<status, attempts, copies, sending, asking, lease>>

\* Rows a sweep has selected FOR UPDATE and not yet let go with a commit.
Selected == UNION {sweep[s].todo : s \in {t \in Running : sweep[t].phase = "listed"}}

\* (faulty: takes the rows whose first attempt is under way for lost ones)
DueOrPending == {l \in Log : status[l] \in {"due", "pending"}} \ Selected

\* get_pending_retries: FOR UPDATE SKIP LOCKED.
Due == {l \in Log : status[l] = "due"} \ Selected

List(s) ==
  /\ s \in Running /\ sweep[s].phase = "starting"
  /\ sweep' = [sweep EXCEPT ![s].phase = "listed", ![s].todo = Due]
  /\ UNCHANGED <<status, attempts, copies, sending, asking, lease, mishaps,
                 unguarded>>

\* _retry_log up to the call: the commit lets go of every row of the list, and
\* the row is sent as it was listed, whatever has become of it.
RetryLog(s, l) ==
  /\ s \in Running /\ sweep[s].phase # "starting"
  /\ l \in sweep[s].todo /\ sweep[s].call = NoCall
  /\ sweep' = [sweep EXCEPT ![s].phase = "sending", ![s].todo = @ \ {l},
                            ![s].call = [log |-> l, answer |-> "asked"]]
  /\ UNCHANGED <<status, attempts, copies, sending, asking, lease, mishaps,
                 unguarded>>

SweepAnswered(s) ==
  /\ s \in Running /\ sweep[s].call.answer = "asked"
  /\ \E a \in Answer :
       /\ Provider(sweep[s].call.log, a)
       /\ sweep' = [sweep EXCEPT ![s].call.answer = a]
  /\ UNCHANGED <<status, attempts, sending, asking, lease, mishaps, unguarded>>

SweepRecords(s) ==
  /\ s \in Running /\ sweep[s].call.answer \notin {"none", "asked"}
  /\ UpdateLogStatus(sweep[s].call.log, sweep[s].call.answer)
  /\ sweep' = [sweep EXCEPT ![s].call = NoCall]
  /\ UNCHANGED <<copies, sending, asking, lease, mishaps, unguarded>>

SweepRecordRaises(s) ==
  /\ s \in Running /\ sweep[s].call.answer = "sent"
  /\ RecordRaises(sweep[s].call.log)
  /\ \E a \in Excepted : sweep' = [sweep EXCEPT ![s].call.answer = a]
  /\ UNCHANGED <<sending, asking, lease, unguarded>>

Finish(s) ==
  /\ s \in Running /\ sweep[s].phase # "starting"
  /\ sweep[s].todo = {} /\ sweep[s].call = NoCall
  /\ sweep' = [sweep EXCEPT ![s] = Off]
  /\ lease' = IF sweep[s].guarded THEN 0 ELSE lease
  /\ UNCHANGED <<status, attempts, copies, sending, asking, mishaps, unguarded>>

\* What the provider answered is not recorded: a reason to send another, as a
\* message on its way that is still taken is.
Drops(s) ==
  /\ s \in Running
  /\ Mishap
  /\ sweep' = [sweep EXCEPT ![s] = Off]
  /\ copies' = [l \in Log |-> IF sweep[s].call = [log |-> l, answer |-> "sent"]
                              THEN copies[l] - 1 ELSE copies[l]]
  /\ UNCHANGED <<status, attempts, sending, asking, unguarded>>

\* Celery kills the process at the Limit, or it stops for another reason: the
\* lock stays.
Killed(s) == Drops(s) /\ UNCHANGED lease

\* The record of a failure raises as well, or the list of the due rows does, or
\* the soft time limit: the finally clause gives the lock back.
Raises(s) == Drops(s) /\ lease' = IF sweep[s].guarded THEN 0 ELSE lease

----------------------------------------------------------------------------
(* Time *)

BecomesDue(l) ==
  /\ status[l] = "retrying"
  /\ status' = [status EXCEPT ![l] = "due"]
  /\ UNCHANGED <<attempts, copies, sending, asking, sweep, lease, mishaps,
                 unguarded>>

\* (faulty: a lock without expiry)
TickKeepingLock ==
  /\ \A s \in Running : sweep[s].age < Limit
  /\ lease > 0 \/ Running # {}
  /\ sweep' = [s \in Sweep |-> IF s \in Running THEN [sweep[s] EXCEPT !.age = @ + 1]
                                                ELSE Off]
  /\ UNCHANGED <<status, attempts, copies, sending, asking, lease, mishaps,
                 unguarded>>

\* A sweep is over, or killed, before its age passes the Limit.
Tick ==
  /\ \A s \in Running : sweep[s].age < Limit
  /\ lease > 0 \/ Running # {}
  /\ sweep' = [s \in Sweep |-> IF s \in Running THEN [sweep[s] EXCEPT !.age = @ + 1]
                                                ELSE Off]
  /\ lease' = IF lease > 0 THEN lease - 1 ELSE 0
  /\ UNCHANGED <<status, attempts, copies, sending, asking, mishaps, unguarded>>

----------------------------------------------------------------------------

Attempt(l) == SenderAnswered(l) \/ SenderRecords(l)

Works(s) ==
  \/ List(s) \/ SweepAnswered(s) \/ SweepRecords(s) \/ Finish(s)
  \/ \E l \in Log : RetryLog(s, l)

Next ==
  \/ \E l \in Log : Dispatch(l) \/ Attempt(l) \/ SenderRecordRaises(l) \/ SenderDies(l)
  \/ \E l \in Log : AdminAsks(l)
  \/ AdminAnswered \/ AdminRecords \/ AdminRecordRaises \/ AdminFails
  \/ \E s \in Sweep : Start(s) \/ StartUnguarded(s) \/ Works(s)
  \/ \E s \in Sweep : SweepRecordRaises(s) \/ Killed(s) \/ Raises(s)
  \/ \E l \in Log : BecomesDue(l)
  \/ Tick

Spec == Init /\ [][Next]_vars

\* Beat keeps starting the sweep, providers answer or time out, time passes, and
\* a process that is not killed goes on.
Fairness ==
  /\ WF_vars(Tick)
  /\ \A l \in Log : WF_vars(BecomesDue(l))
  /\ WF_vars(\E s \in Sweep : Start(s))
  /\ \A s \in Sweep : WF_vars(Works(s))

FairSpec == Spec /\ Fairness

----------------------------------------------------------------------------
(* Properties *)

Call == {NoCall} \cup [log : Log, answer : Answer]

\* Types; a row waits for another attempt only after it failed and while it has
\* attempts left, and no sweep outlives the limit or the lock its time.
TypeOK ==
  /\ status \in [Log -> {"none", "pending", "retrying", "due", "sent", "failed"}]
  /\ \A l \in Log : status[l] \in {"retrying", "due"} => attempts[l] \in 1..MaxAttempts-1
  /\ attempts \in [Log -> Nat] /\ copies \in [Log -> Int]
  /\ sending \in [Log -> Answer \cup {"none"}]
  /\ asking \in Call
  /\ \A s \in Running :
       sweep[s] \in [phase : {"starting", "listed", "sending"}, guarded : BOOLEAN,
                     age : 0..Limit, todo : SUBSET Log, call : Call]
  /\ lease \in 0..LockTtl

\* As long as each sweep took the lock, a customer gets a message a second time
\* only when the provider's answer was lost, when it came and was not recorded
\* (its process stopped in between, or the record raised), or when an
\* administrator asked for a retry: overlapping attempts and sweeps never repeat
\* a delivery on their own.
OneSend == ~unguarded => \A l \in Log : copies[l] <= 1

\* A row does not stay in 'retrying': it is sent or given up, whatever process
\* was killed, with the lock or without, unless the provider goes on failing
\* without a text: such an attempt is not counted.
RetryEnds ==
  \A l \in Log :
    <>[](\A s \in Running : sweep[s].call # [log |-> l, answer |-> "silent"])
      => (status[l] \in {"retrying", "due"} ~> status[l] \in {"sent", "failed"})
=============================================================================
