------------------------------- MODULE SyncBus -------------------------------
(***************************************************************************)
(* The event bus between the tabs of one browser                           *)
(* (packages/shared-api/src/lib/sync/SyncBus.ts).  A tab dispatches what   *)
(* it emits to its own listeners and posts it on a BroadcastChannel; every *)
(* event carries the version of its origin, and a tab drops an event whose *)
(* version is not above the last one it has seen of that origin.  Events   *)
(* of the origin "server" stay in their tab, one above the last, so they   *)
(* are never dropped and need no version here.                             *)
(***************************************************************************)
EXTENDS Integers, Sequences

CONSTANTS
    Tab,       \* the TAB_IDs; a tab that is closed does not come back
    Kind,      \* the event types
    MaxEvents  \* bound of the model: the events a tab emits

ASSUME BusAssumption == MaxEvents \in Nat

VARIABLES
    open,      \* the tabs that are open
    opened,    \* the tabs that have been open
    versions,  \* versions[t][o]: the last version tab t has seen of origin o
    channel,   \* channel[<<o, t>>]: posted by o and not yet received by t
    emitted,   \* (history) the number of events a tab has emitted
    handled,   \* (history) handled[t][o]: the events of o that t dispatched
    since      \* (history) since[t][o]: the events o had emitted when t opened

busVars == <<open, opened, versions, channel, emitted, handled, since>>

Message == [kind : Kind, version : Nat]
Link == Tab \X Tab

BusTypeOK ==
    /\ open \subseteq opened
    /\ opened \subseteq Tab
    /\ versions \in [Tab -> [Tab -> Nat]]
    /\ channel \in [Link -> Seq(Message)]
    /\ emitted \in [Tab -> Nat]
    /\ handled \in [Tab -> [Tab -> Nat]]
    /\ since \in [Tab -> [Tab -> Nat]]

NoneSeen == [t \in Tab |-> [o \in Tab |-> 0]]

BusInit ==
    /\ open = {}
    /\ opened = {}
    /\ versions = NoneSeen
    /\ channel = [l \in Link |-> <<>>]
    /\ emitted = [t \in Tab |-> 0]
    /\ handled = NoneSeen
    /\ since = NoneSeen

\* initSyncBus, with a TAB_ID nobody has had
OpenTab(t) ==
    /\ t \notin opened
    /\ open' = open \cup {t}
    /\ opened' = opened \cup {t}
    /\ since' = [since EXCEPT ![t] = emitted]
    /\ UNCHANGED <<versions, channel, emitted, handled>>

\* The tab is gone with what it has not received; what it posted arrives.
CloseTab(t) ==
    /\ t \in open
    /\ open' = open \ {t}
    /\ channel' = [l \in Link |-> IF l[2] = t THEN <<>> ELSE channel[l]]
    /\ UNCHANGED <<opened, versions, emitted, handled, since>>

\* Faulty variant: _nextVersion stores the version it hands out.
EmitStored(t, k) ==
    /\ t \in open
    /\ emitted[t] < MaxEvents
    /\ versions' = [versions EXCEPT ![t][t] = @ + 1]
    /\ emitted' = [emitted EXCEPT ![t] = @ + 1]
    /\ channel' = [l \in Link |->
          IF l[1] = t /\ l[2] \in open \ {t}
          THEN Append(channel[l], [kind |-> k, version |-> versions[t][t] + 1])
          ELSE channel[l]]
    /\ UNCHANGED <<open, opened, handled, since>>

\* emit: the next version is above the last the tab has seen of itself, so
\* its own listeners get the event; then every other tab is sent it.
Emit(t, k) ==
    /\ t \in open
    /\ emitted[t] < MaxEvents
    /\ versions' = [versions EXCEPT ![t][t] = @ + 1]
    /\ handled' = [handled EXCEPT ![t][t] = @ + 1]
    /\ emitted' = [emitted EXCEPT ![t] = @ + 1]
    /\ channel' = [l \in Link |->
          IF l[1] = t /\ l[2] \in open \ {t}
          THEN Append(channel[l], [kind |-> k, version |-> versions[t][t] + 1])
          ELSE channel[l]]
    /\ UNCHANGED <<open, opened, since>>

\* What onmessage makes of the next event of origin o: _isStale or a dispatch
Stale(t, o) == Head(channel[<<o, t>>]).version <= versions[t][o]

Receive(t, o) ==
    /\ t \in open
    /\ channel[<<o, t>>] # <<>>
    /\ channel' = [channel EXCEPT ![<<o, t>>] = Tail(@)]
    /\ IF Stale(t, o) THEN UNCHANGED <<versions, handled>>
       ELSE /\ versions' = [versions EXCEPT ![t][o] = Head(channel[<<o, t>>]).version]
            /\ handled' = [handled EXCEPT ![t][o] = @ + 1]
    /\ UNCHANGED <<open, opened, emitted, since>>

BusNext ==
    \E t \in Tab :
        \/ OpenTab(t)
        \/ CloseTab(t)
        \/ \E k \in Kind : Emit(t, k)
        \/ \E o \in Tab : Receive(t, o)

BusSpec == BusInit /\ [][BusNext]_busVars

-----------------------------------------------------------------------------
\* The version check never drops an event: a tab has dispatched, or will
\* receive, every event emitted by any tab since it was opened, its own
\* included (_nextVersion, _isStale).
NoEventLost ==
    \A t \in open, o \in Tab :
        handled[t][o] + Len(channel[<<o, t>>]) = emitted[o] - since[t][o]
=============================================================================
