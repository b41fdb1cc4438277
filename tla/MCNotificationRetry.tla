------------------------ MODULE MCNotificationRetry ------------------------
(* NotificationRetry over two rows and two processes that may sweep. *)
EXTENDS NotificationRetry, TLC

CONSTANTS l1, l2, s1, s2

MCLogs == {l1, l2}
MCSweeps == {s1, s2}

\* One mishap, and after it the record of an administrator's retry may raise as
\* well.  Nothing tells the rows or the processes apart, so the one it happens to
\* is the first.
MCMishaps ==
  mishaps' # mishaps =>
    /\ mishaps > 0 => asking.answer \notin {"none", "asked"} /\ asking' # asking
    /\ asking' \in {NoCall} \cup [log : {l1}, answer : Answer]
    /\ sending'[l2] = sending[l2] /\ sweep'[s2] = sweep[s2]
=============================================================================
