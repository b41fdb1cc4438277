----------------------------- MODULE TabsProofs -----------------------------
(***************************************************************************)
(* What the bus promises, that the tabs keep it, and that their caches     *)
(* neither leak from one customer to the next nor go back in time: for any *)
(* number of tabs, customers, events and changes.                          *)
(***************************************************************************)
EXTENDS Tabs, SequenceTheorems, TLAPS

-----------------------------------------------------------------------------
(***************************************************************************)
(* The bus                                                                 *)
(***************************************************************************)

\* A tab that was never open has emitted and seen nothing; one that is not
\* open is sent nothing.
Unopened ==
    /\ \A t \in Tab \ opened : emitted[t] = 0
    /\ \A t \in Tab \ opened, o \in Tab : versions[t][o] = 0 /\ handled[t][o] = 0
    /\ \A t \in Tab \ open, o \in Tab : channel[<<o, t>>] = <<>>

\* A tab posts nothing to itself, and has seen all it emitted.
OwnVersion ==
    \A t \in Tab : channel[<<t, t>>] = <<>> /\ versions[t][t] = emitted[t]

\* What is on the way from a tab are its last events, in the order of their
\* versions.
LastEvents ==
    \A o \in Tab, t \in Tab : \A i \in 1..Len(channel[<<o, t>>]) :
        channel[<<o, t>>][i].version = emitted[o] - Len(channel[<<o, t>>]) + i

\* All of them are above the last version seen.
AllAhead ==
    \A t \in open, o \in Tab :
        versions[t][o] + Len(channel[<<o, t>>]) <= emitted[o]

BusInv == BusTypeOK /\ Unopened /\ OwnVersion /\ LastEvents /\ AllAhead /\ NoEventLost

\* The next event from a tab is never stale.
LEMMA NeverStale ==
    ASSUME BusInv, NEW t \in open, NEW o \in Tab, channel[<<o, t>>] # <<>>
    PROVE  ~Stale(t, o)
<1>1. t \in Tab /\ <<o, t>> \in Link
  BY DEF BusInv, BusTypeOK, Link
<1>2. channel[<<o, t>>] \in Seq(Message)
  BY <1>1 DEF BusInv, BusTypeOK
<1>3. Len(channel[<<o, t>>]) \in Nat \ {0}
  BY <1>2
<1>4. channel[<<o, t>>][1].version = emitted[o] - Len(channel[<<o, t>>]) + 1
  BY <1>1, <1>3 DEF BusInv, LastEvents
<1>5. versions[t][o] + Len(channel[<<o, t>>]) <= emitted[o]
  BY DEF BusInv, AllAhead
<1>6. versions[t][o] \in Nat /\ emitted[o] \in Nat
  BY <1>1 DEF BusInv, BusTypeOK
<1>7. Head(channel[<<o, t>>]) = channel[<<o, t>>][1]
  BY <1>2
<1>8. QED
  BY <1>3, <1>4, <1>5, <1>6, <1>7 DEF Stale

\* The bus starts empty.
LEMMA BusInitInv == ASSUME BusInit PROVE BusInv
<1>1. \A l \in Link : channel[l] = <<>> /\ Len(channel[l]) = 0
  BY DEF BusInit
<1>2. \A o \in Tab, t \in Tab : <<o, t>> \in Link
  BY DEF Link
<1>3. BusTypeOK
  BY DEF BusInit, BusTypeOK, NoneSeen
<1>4. QED
  BY <1>1, <1>2, <1>3 DEF BusInit, BusInv, Unopened, OwnVersion, LastEvents, AllAhead,
     NoEventLost, NoneSeen

\* A tab that opens is owed nothing of what was emitted before.
LEMMA OpenTabInv ==
    ASSUME BusInv, NEW t \in Tab, OpenTab(t)
    PROVE  BusInv'
<1> USE DEF BusInv, OpenTab
<1>1. BusTypeOK'
  BY DEF BusTypeOK
<1>2. t \notin open /\ emitted[t] = 0
  BY DEF BusTypeOK, Unopened
<1>3. Unopened' /\ OwnVersion' /\ LastEvents'
  BY DEF Unopened, OwnVersion, LastEvents
<1>4. ASSUME NEW u \in open', NEW o \in Tab
      PROVE  /\ versions[u][o] + Len(channel[<<o, u>>]) <= emitted[o]
             /\ handled[u][o] + Len(channel[<<o, u>>]) = emitted[o] - since'[u][o]
  <2>1. CASE u = t
    <3>1. /\ channel[<<o, t>>] = <<>> /\ versions[t][o] = 0 /\ handled[t][o] = 0
          /\ emitted[o] \in Nat /\ since'[t][o] = emitted[o]
      BY <1>2 DEF Unopened, BusTypeOK
    <3>2. Len(channel[<<o, t>>]) = 0
      BY <3>1
    <3>3. QED
      BY <2>1, <3>1, <3>2
  <2>2. CASE u # t
    <3>1. u \in open /\ since'[u] = since[u]
      BY <2>2 DEF BusTypeOK
    <3>2. QED
      BY <3>1 DEF AllAhead, NoEventLost
  <2>3. QED
    BY <2>1, <2>2
<1>5. AllAhead' /\ NoEventLost'
  BY <1>4 DEF AllAhead, NoEventLost
<1>6. QED
  BY <1>1, <1>3, <1>5

\* A tab that closes takes what it was sent with it.
LEMMA CloseTabInv ==
    ASSUME BusInv, NEW t \in Tab, CloseTab(t)
    PROVE  BusInv'
<1> USE DEF BusInv
<1>1. \A o \in Tab, u \in Tab :
          channel'[<<o, u>>] = IF u = t THEN <<>> ELSE channel[<<o, u>>]
  BY DEF CloseTab, Link
<1>2. BusTypeOK'
  BY DEF BusTypeOK, CloseTab
<1>3. Unopened'
  BY <1>1 DEF CloseTab, Unopened
<1>4. OwnVersion' /\ LastEvents'
  BY <1>1 DEF CloseTab, OwnVersion, LastEvents
<1>5. \A u \in open' : /\ u \in open /\ u \in Tab
                        /\ \A o \in Tab : channel'[<<o, u>>] = channel[<<o, u>>]
  <2>1. open' = open \ {t} /\ open \subseteq Tab
    BY DEF CloseTab, BusTypeOK
  <2>2. QED
    BY <1>1, <2>1
<1>6. AllAhead'
  BY <1>5 DEF AllAhead, CloseTab
<1>7. NoEventLost'
  <2>1. \A u \in open', o \in Tab :
            handled[u][o] + Len(channel'[<<o, u>>]) = emitted[o] - since[u][o]
    BY <1>5, Zenon DEF NoEventLost
  <2>2. handled' = handled /\ emitted' = emitted /\ since' = since
    BY DEF CloseTab
  <2>3. QED
    BY <2>1, <2>2, Zenon DEF NoEventLost
<1>8. QED
  BY <1>2, <1>3, <1>4, <1>6, <1>7

\* Every open tab is sent, or dispatches, what a tab emits.
LEMMA EmitInv ==
    ASSUME BusInv, NEW t \in Tab, NEW k \in Kind, Emit(t, k)
    PROVE  BusInv'
<1> DEFINE m == [kind |-> k, version |-> versions[t][t] + 1]
<1> USE DEF BusInv
<1>1. m \in Message /\ m.version = emitted[t] + 1
  <2>1. versions[t][t] = emitted[t] /\ emitted[t] \in Nat
    BY DEF BusTypeOK, OwnVersion
  <2>2. QED
    BY <2>1 DEF Message
<1>2. /\ t \in open /\ open \subseteq Tab
      /\ open' = open /\ opened' = opened /\ since' = since
      /\ emitted' = [emitted EXCEPT ![t] = @ + 1]
      /\ versions' = [versions EXCEPT ![t][t] = @ + 1]
      /\ handled' = [handled EXCEPT ![t][t] = @ + 1]
  BY DEF Emit, BusTypeOK
<1>3. \A u \in open \ {t} : channel'[<<t, u>>] = Append(channel[<<t, u>>], m)
  BY <1>2 DEF Emit, Link
<1>4. \A o \in Tab, u \in Tab :
          o # t \/ u \notin open \ {t} => channel'[<<o, u>>] = channel[<<o, u>>]
  BY <1>2 DEF Emit, Link
<1>5. \A o \in Tab, u \in Tab : channel[<<o, u>>] \in Seq(Message)
  BY DEF BusTypeOK, Link
<1> HIDE DEF m
<1>6. BusTypeOK'
  <2>1. channel' \in [Link -> Seq(Message)]
    BY <1>1 DEF Emit, BusTypeOK, m
  <2>2. QED
    BY <1>2, <2>1, SMTT(30) DEF BusTypeOK
<1>7. Unopened'
  <2>1. ASSUME NEW u \in Tab \ opened, NEW o \in Tab
        PROVE  emitted'[u] = 0 /\ versions'[u][o] = 0 /\ handled'[u][o] = 0
    <3>1. u # t
      BY <1>2 DEF BusTypeOK
    <3>2. emitted[u] = 0 /\ versions[u][o] = 0 /\ handled[u][o] = 0
      BY DEF Unopened
    <3>3. emitted'[u] = emitted[u] /\ versions'[u] = versions[u] /\ handled'[u] = handled[u]
      BY <3>1, <1>2 DEF BusTypeOK
    <3>4. QED
      BY <3>2, <3>3
  <2>2. ASSUME NEW u \in Tab \ open, NEW o \in Tab
        PROVE  channel'[<<o, u>>] = <<>>
    BY <1>4 DEF Unopened
  <2>3. QED
    BY <1>2, <2>1, <2>2 DEF Unopened
<1>8. OwnVersion'
  BY <1>2, <1>4 DEF OwnVersion, BusTypeOK
<1>9. LastEvents'
  <2> SUFFICES ASSUME NEW o \in Tab, NEW u \in Tab, NEW i \in 1..Len(channel'[<<o, u>>])
               PROVE  channel'[<<o, u>>][i].version
                          = emitted'[o] - Len(channel'[<<o, u>>]) + i
    BY DEF LastEvents
  <2>1. CASE o = t /\ u \in open \ {t}
    <3>0. channel'[<<o, u>>] = Append(channel[<<o, u>>], m) /\ channel[<<o, u>>] \in Seq(Message)
      BY <2>1, <1>2, <1>3, <1>5
    <3>1. /\ channel'[<<o, u>>] = Append(channel[<<o, u>>], m)
          /\ Len(channel'[<<o, u>>]) = Len(channel[<<o, u>>]) + 1
          /\ emitted'[o] = emitted[o] + 1
          /\ emitted[o] \in Nat /\ Len(channel[<<o, u>>]) \in Nat
      <4>1. Len(channel'[<<o, u>>]) = Len(channel[<<o, u>>]) + 1 /\ Len(channel[<<o, u>>]) \in Nat
        BY <3>0, <1>1, AppendProperties
      <4>2. emitted'[o] = emitted[o] + 1 /\ emitted[o] \in Nat
        BY <2>1, <1>2 DEF BusTypeOK
      <4>3. QED
        BY <3>0, <4>1, <4>2
    <3>2. CASE i = Len(channel[<<o, u>>]) + 1
      BY <2>1, <3>1, <3>2, <1>1, <1>5
    <3>3. CASE i # Len(channel[<<o, u>>]) + 1
      <4>1. i \in 1..Len(channel[<<o, u>>])
        BY <3>1, <3>3
      <4>2. channel'[<<o, u>>][i] = channel[<<o, u>>][i]
        BY <4>1, <3>1, <1>1, <1>5
      <4>3. channel[<<o, u>>][i].version = emitted[o] - Len(channel[<<o, u>>]) + i
        BY <4>1 DEF LastEvents
      <4> DEFINE e == emitted[o]  l == Len(channel[<<o, u>>])
                 e1 == emitted'[o]  l1 == Len(channel'[<<o, u>>])
      <4>4. e \in Nat /\ l \in Nat /\ i \in Nat /\ e1 = e + 1 /\ l1 = l + 1
        BY <4>1, <3>1
      <4> HIDE DEF e, l, e1, l1
      <4>5. e - l + i = e1 - l1 + i
        BY <4>4
      <4>6. channel'[<<o, u>>][i].version = e - l + i
        BY <4>2, <4>3 DEF e, l
      <4>7. QED
        BY <4>5, <4>6, Zenon DEF e1, l1
    <3>4. QED
      BY <3>2, <3>3
  <2>2. CASE o # t
    <3>1. channel'[<<o, u>>] = channel[<<o, u>>] /\ emitted'[o] = emitted[o]
      BY <2>2, <1>2, <1>4 DEF BusTypeOK
    <3>2. QED
      BY <3>1 DEF LastEvents
  <2>3. CASE u \notin open \ {t}
    <3>1. channel'[<<o, u>>] = channel[<<o, u>>]
      BY <2>3, <1>4
    <3>2. o # t \/ channel[<<o, u>>] = <<>>
      BY <2>3 DEF Unopened, OwnVersion
    <3>3. QED
      BY <2>2, <3>1, <3>2
  <2>4. QED
    BY <2>1, <2>2, <2>3
<1>10. ASSUME NEW u \in open, NEW o \in Tab
       PROVE  /\ versions'[u][o] + Len(channel'[<<o, u>>]) <= emitted'[o]
              /\ handled'[u][o] + Len(channel'[<<o, u>>]) = emitted'[o] - since[u][o]
  <2>1. /\ u \in Tab /\ versions[u][o] \in Nat /\ handled[u][o] \in Nat
        /\ emitted[o] \in Nat /\ since[u][o] \in Nat /\ Len(channel[<<o, u>>]) \in Nat
        /\ versions[u][o] + Len(channel[<<o, u>>]) <= emitted[o]
        /\ handled[u][o] + Len(channel[<<o, u>>]) = emitted[o] - since[u][o]
    <3>1. /\ u \in Tab /\ versions[u][o] \in Nat /\ handled[u][o] \in Nat
          /\ emitted[o] \in Nat /\ since[u][o] \in Nat
      BY <1>2 DEF BusTypeOK
    <3>2. Len(channel[<<o, u>>]) \in Nat
      BY <3>1, <1>5
    <3>3. QED
      BY <3>1, <3>2, Zenon DEF AllAhead, NoEventLost
  <2>2. CASE o = t /\ u # t
    <3>1. Len(channel'[<<o, u>>]) = Len(channel[<<o, u>>]) + 1
      <4>1. channel'[<<o, u>>] = Append(channel[<<o, u>>], m) /\ channel[<<o, u>>] \in Seq(Message)
        BY <2>2, <2>1, <1>3, <1>5
      <4>2. QED
        BY <4>1, <1>1, AppendProperties
    <3>2. /\ versions'[u][o] = versions[u][o] /\ handled'[u][o] = handled[u][o]
          /\ emitted'[o] = emitted[o] + 1
      BY <2>1, <2>2, <1>2 DEF BusTypeOK
    <3> DEFINE v == versions[u][o]  h == handled[u][o]  e == emitted[o]  s == since[u][o]
               l == Len(channel[<<o, u>>])  e1 == emitted'[o]  l1 == Len(channel'[<<o, u>>])
    <3>3. /\ v \in Nat /\ h \in Nat /\ e \in Nat /\ s \in Nat /\ l \in Nat
          /\ v + l <= e /\ h + l = e - s /\ e1 = e + 1 /\ l1 = l + 1
      BY <2>1, <3>1, <3>2
    <3>4. versions'[u][o] = v /\ handled'[u][o] = h
      BY <3>2
    <3> HIDE DEF v, h, e, s, l, e1, l1
    <3>5. v + l1 <= e1 /\ h + l1 = e1 - s
      BY <3>3
    <3>6. QED
      BY <3>4, <3>5, Zenon DEF e1, l1, s
  <2>3. CASE o = t /\ u = t
    <3>1. channel'[<<o, u>>] = channel[<<o, u>>]
      BY <2>3, <2>1, <1>4
    <3>2. /\ versions'[u][o] = versions[u][o] + 1 /\ handled'[u][o] = handled[u][o] + 1
          /\ emitted'[o] = emitted[o] + 1
      BY <2>1, <2>3, <1>2 DEF BusTypeOK
    <3> DEFINE v == versions[u][o]  h == handled[u][o]  e == emitted[o]  s == since[u][o]
               l == Len(channel[<<o, u>>])  v1 == versions'[u][o]  h1 == handled'[u][o]
               e1 == emitted'[o]
    <3>3. /\ v \in Nat /\ h \in Nat /\ e \in Nat /\ s \in Nat /\ l \in Nat
          /\ v + l <= e /\ h + l = e - s /\ v1 = v + 1 /\ h1 = h + 1 /\ e1 = e + 1
      BY <2>1, <3>2
    <3>4. Len(channel'[<<o, u>>]) = l
      BY <3>1
    <3> HIDE DEF v, h, e, s, l, v1, h1, e1
    <3>5. v1 + l <= e1 /\ h1 + l = e1 - s
      BY <3>3
    <3>6. QED
      BY <3>4, <3>5, Zenon DEF v1, h1, e1, s
  <2>4. CASE o # t
    <3>1. channel'[<<o, u>>] = channel[<<o, u>>]
      BY <2>4, <2>1, <1>4
    <3>2. /\ versions'[u][o] = versions[u][o] /\ handled'[u][o] = handled[u][o]
          /\ emitted'[o] = emitted[o]
      BY <2>1, <2>4, <1>2 DEF BusTypeOK
    <3>3. QED
      BY <2>1, <3>1, <3>2
  <2>5. QED
    BY <2>2, <2>3, <2>4
<1>11. AllAhead' /\ NoEventLost'
  BY <1>2, <1>10 DEF AllAhead, NoEventLost
<1>12. QED
  BY <1>6, <1>7, <1>8, <1>9, <1>11

\* What a tab receives it dispatches.
LEMMA ReceiveInv ==
    ASSUME BusInv, NEW t \in Tab, NEW o \in Tab, Receive(t, o)
    PROVE  BusInv'
<1> DEFINE c == channel[<<o, t>>]
<1> USE DEF BusInv
<1>1. /\ t \in open /\ open \subseteq Tab /\ <<o, t>> \in Link
      /\ open' = open /\ opened' = opened /\ since' = since /\ emitted' = emitted
      /\ c \in Seq(Message) /\ c # <<>> /\ Len(c) \in Nat \ {0}
  BY SMTT(30) DEF Receive, BusTypeOK, Link
<1>2. o # t
  BY <1>1 DEF OwnVersion
<1>3. /\ channel' = [channel EXCEPT ![<<o, t>>] = Tail(c)]
      /\ Tail(c) \in Seq(Message) /\ Len(Tail(c)) = Len(c) - 1
      /\ \A i \in 1..Len(Tail(c)) : Tail(c)[i] = c[i + 1]
  BY <1>1, SMTT(30) DEF Receive
<1>4. Head(c).version = emitted[o] - Len(c) + 1 /\ Head(c).version \in Nat
  <2>1. Head(c) = c[1] /\ Head(c) \in Message
    BY <1>1
  <2>2. QED
    BY <2>1, <1>1 DEF LastEvents, Message
<1>5. /\ versions' = [versions EXCEPT ![t][o] = Head(c).version]
      /\ handled' = [handled EXCEPT ![t][o] = @ + 1]
  BY <1>1, NeverStale DEF Receive
<1> HIDE DEF c
<1>6. \A p \in Tab, u \in Tab :
          p # o \/ u # t => channel'[<<p, u>>] = channel[<<p, u>>]
  BY <1>1, <1>3 DEF BusTypeOK, Link
<1>7. channel'[<<o, t>>] = Tail(c)
  BY <1>1, <1>3 DEF BusTypeOK
<1>8. BusTypeOK'
  <2>1. channel' \in [Link -> Seq(Message)]
    BY <1>1, <1>3 DEF BusTypeOK
  <2>2. versions' \in [Tab -> [Tab -> Nat]] /\ handled' \in [Tab -> [Tab -> Nat]]
    <3>1. versions \in [Tab -> [Tab -> Nat]] /\ handled \in [Tab -> [Tab -> Nat]]
      BY DEF BusTypeOK
    <3>2. versions[t] \in [Tab -> Nat] /\ handled[t] \in [Tab -> Nat] /\ handled[t][o] + 1 \in Nat
      BY <3>1
    <3>3. versions' \in [Tab -> [Tab -> Nat]]
      BY <3>1, <3>2, <1>4, <1>5
    <3>4. handled' \in [Tab -> [Tab -> Nat]]
      BY <3>1, <3>2, <1>5
    <3>5. QED
      BY <3>3, <3>4
  <2>3. QED
    BY <1>1, <2>1, <2>2 DEF BusTypeOK
<1>9. Unopened'
  <2>1. ASSUME NEW u \in Tab \ opened, NEW p \in Tab
        PROVE  emitted[u] = 0 /\ versions'[u][p] = 0 /\ handled'[u][p] = 0
    <3>1. u # t
      BY <1>1 DEF BusTypeOK
    <3>2. emitted[u] = 0 /\ versions[u][p] = 0 /\ handled[u][p] = 0
      BY DEF Unopened
    <3>3. versions'[u] = versions[u] /\ handled'[u] = handled[u]
      BY <3>1, <1>5 DEF BusTypeOK
    <3>4. QED
      BY <3>2, <3>3
  <2>2. ASSUME NEW u \in Tab \ open, NEW p \in Tab
        PROVE  channel'[<<p, u>>] = <<>>
    <3>1. u # t
      BY <1>1
    <3>2. QED
      BY <3>1, <1>6 DEF Unopened
  <2>3. QED
    BY <1>1, <2>1, <2>2 DEF Unopened
<1>10. OwnVersion'
  BY <1>1, <1>2, <1>5, <1>6 DEF OwnVersion, BusTypeOK
<1>11. LastEvents'
  <2> SUFFICES ASSUME NEW p \in Tab, NEW u \in Tab, NEW i \in 1..Len(channel'[<<p, u>>])
               PROVE  channel'[<<p, u>>][i].version
                          = emitted[p] - Len(channel'[<<p, u>>]) + i
    BY <1>1 DEF LastEvents
  <2>1. CASE p = o /\ u = t
    <3>1. i \in 1..Len(Tail(c)) /\ i + 1 \in 1..Len(c)
      BY <2>1, <1>1, <1>3, <1>7
    <3>2. c[i + 1].version = emitted[o] - Len(c) + (i + 1)
      BY <3>1 DEF LastEvents, c
    <3>3. emitted[o] \in Nat
      BY DEF BusTypeOK
    <3>4. channel'[<<p, u>>][i].version = emitted[o] - Len(c) + (i + 1)
      BY <2>1, <3>1, <3>2, <1>3, <1>7
    <3>5. Len(channel'[<<p, u>>]) = Len(c) - 1
      BY <2>1, <1>3, <1>7
    <3>6. i \in Nat /\ Len(c) \in Nat
      BY <3>1, <1>1, <1>3
    <3> DEFINE e == emitted[o]  l == Len(c)  l1 == Len(channel'[<<p, u>>])
    <3>7. e \in Nat /\ l \in Nat /\ i \in Nat /\ l1 = l - 1
      BY <3>3, <3>5, <3>6
    <3>8. channel'[<<p, u>>][i].version = e - l + (i + 1)
      BY <3>4
    <3> HIDE DEF e, l, l1
    <3>9. e - l + (i + 1) = e - l1 + i
      BY <3>7
    <3>10. QED
      BY <2>1, <3>8, <3>9, Zenon DEF e, l1
  <2>2. CASE p # o \/ u # t
    BY <2>2, <1>6 DEF LastEvents
  <2>3. QED
    BY <2>1, <2>2
<1>12. ASSUME NEW u \in open, NEW p \in Tab
       PROVE  /\ versions'[u][p] + Len(channel'[<<p, u>>]) <= emitted[p]
              /\ handled'[u][p] + Len(channel'[<<p, u>>]) = emitted[p] - since[u][p]
  <2>1. /\ u \in Tab /\ emitted[p] \in Nat /\ since[u][p] \in Nat /\ handled[u][p] \in Nat
        /\ versions[u][p] + Len(channel[<<p, u>>]) <= emitted[p]
        /\ handled[u][p] + Len(channel[<<p, u>>]) = emitted[p] - since[u][p]
    <3>1. u \in Tab
      BY DEF BusTypeOK
    <3>2. emitted[p] \in Nat /\ since[u][p] \in Nat /\ handled[u][p] \in Nat
      BY <3>1 DEF BusTypeOK
    <3>3. QED
      BY <3>1, <3>2 DEF AllAhead, NoEventLost
  <2>2. CASE p = o /\ u = t
    <3>1. versions'[u][p] = Head(c).version /\ handled'[u][p] = handled[u][p] + 1
      BY <2>1, <2>2, <1>5 DEF BusTypeOK
    <3>2. handled[u][p] + Len(c) = emitted[p] - since[u][p]
      BY <2>1, <2>2 DEF c
    <3>3. /\ Len(channel'[<<p, u>>]) = Len(c) - 1 /\ Len(c) \in Nat
          /\ Head(c).version = emitted[p] - Len(c) + 1
      BY <2>2, <1>1, <1>3, <1>4, <1>7
    <3> DEFINE h == handled[u][p]  e == emitted[p]  s == since[u][p]  l == Len(c)
               v1 == versions'[u][p]  h1 == handled'[u][p]  l1 == Len(channel'[<<p, u>>])
    <3>4. /\ h \in Nat /\ e \in Nat /\ s \in Nat /\ l \in Nat
          /\ h + l = e - s /\ v1 = e - l + 1 /\ h1 = h + 1 /\ l1 = l - 1
      BY <2>1, <3>1, <3>2, <3>3
    <3> HIDE DEF h, e, s, l, v1, h1, l1
    <3>5. v1 + l1 <= e /\ h1 + l1 = e - s
      BY <3>4
    <3>6. QED
      BY <3>5, Zenon DEF v1, h1, l1, e, s
  <2>3. CASE p # o \/ u # t
    <3>1. versions'[u][p] = versions[u][p] /\ handled'[u][p] = handled[u][p]
      BY <2>1, <2>3, <1>5 DEF BusTypeOK
    <3>2. QED
      BY <2>1, <2>3, <3>1, <1>6
  <2>4. QED
    BY <2>2, <2>3
<1>13. AllAhead' /\ NoEventLost'
  BY <1>1, <1>12 DEF AllAhead, NoEventLost
<1>14. QED
  BY <1>8, <1>9, <1>10, <1>11, <1>13

\* Every step of the bus keeps the invariant.
LEMMA BusStepInv ==
    ASSUME BusInv, [BusNext]_busVars
    PROVE  BusInv'
<1>1. ASSUME NEW t \in Tab, OpenTab(t) PROVE BusInv'
  BY <1>1, OpenTabInv
<1>2. ASSUME NEW t \in Tab, CloseTab(t) PROVE BusInv'
  BY <1>2, CloseTabInv
<1>3. ASSUME NEW t \in Tab, NEW k \in Kind, Emit(t, k) PROVE BusInv'
  BY <1>3, EmitInv
<1>4. ASSUME NEW t \in Tab, NEW o \in Tab, Receive(t, o) PROVE BusInv'
  BY <1>4, ReceiveInv
<1>5. CASE UNCHANGED busVars
  <2> USE <1>5 DEF busVars
  <2>1. BusTypeOK'
    BY DEF BusInv, BusTypeOK
  <2>2. Unopened' /\ OwnVersion'
    BY DEF BusInv, Unopened, OwnVersion
  <2>3. LastEvents'
    BY DEF BusInv, LastEvents
  <2>4. AllAhead' /\ NoEventLost'
    BY DEF BusInv, AllAhead, NoEventLost
  <2>5. QED
    BY <2>1, <2>2, <2>3, <2>4 DEF BusInv
<1>6. QED
  BY <1>1, <1>2, <1>3, <1>4, <1>5 DEF BusNext

-----------------------------------------------------------------------------
(***************************************************************************)
(* The tabs                                                                *)
(***************************************************************************)

\* What the tabs do to the bus is a step of the bus, or none of its.
LEMMA TabsUseBus ==
    ASSUME [Next]_vars
    PROVE  [BusNext]_busVars
<1>1. ASSUME NEW t \in Tab, Boot(t) PROVE BusNext
  BY <1>1 DEF Boot, BusNext
<1>2. ASSUME NEW t \in Tab, Close(t) PROVE BusNext
  BY <1>2 DEF Close, BusNext
<1>3. ASSUME NEW t \in Tab, SessionTold(t) PROVE UNCHANGED busVars
  BY <1>3 DEF SessionTold
<1>4. ASSUME NEW t \in Tab, Logout(t) PROVE BusNext
  BY <1>4, TabsAssumption DEF Logout, BusNext
<1>5. ASSUME NEW t \in Tab, NEW u \in User, Login(t, u) PROVE BusNext
  BY <1>5, TabsAssumption DEF Login, BusNext
<1>6. ASSUME NEW t \in Tab, NEW o \in Tab, OnMessage(t, o) PROVE BusNext
  BY <1>6 DEF OnMessage, BusNext
<1>7. ASSUME NEW t \in Tab, MutationAnswered(t) PROVE BusNext
  BY <1>7, TabsAssumption DEF MutationAnswered, BusNext
<1>8. ASSUME NEW t \in Tab,
             StartFetch(t) \/ FetchLands(t) \/ FetchFails(t) \/ ServerEvent(t)
      PROVE  UNCHANGED busVars
  BY <1>8 DEF StartFetch, FetchLands, FetchFails, ServerEvent
<1>9. ASSUME \/ \E u \in User : SignedInByGoogle(u)
             \/ SessionEnds \/ ServerChanges \/ UNCHANGED vars
      PROVE  UNCHANGED busVars
  BY <1>9 DEF SignedInByGoogle, SessionEnds, ServerChanges, vars
<1>10. QED
  BY <1>1, <1>2, <1>3, <1>4, <1>5, <1>6, <1>7, <1>8, <1>9 DEF Next

\* The tabs implement the bus: AuthProvider, the sync handlers and the event
\* stream use it and never bypass it.
THEOREM TabsImplementBus == Spec => BusSpec
<1>1. Init => BusInit
  BY DEF Init
<1>2. [Next]_vars => [BusNext]_busVars
  BY TabsUseBus
<1>3. QED
  BY <1>1, <1>2, PTL DEF Spec, BusSpec

\* The bus alone keeps its invariant.
LEMMA BusAlwaysInv == BusSpec => []BusInv
<1>1. BusInit => BusInv
  BY BusInitInv
<1>2. BusInv /\ [BusNext]_busVars => BusInv'
  BY BusStepInv
<1>3. QED
  BY <1>1, <1>2, PTL DEF BusSpec

\* No tab ever misses an event that was emitted since it was opened: the
\* version check of SyncBus drops nothing.
THEOREM TabsLoseNoEvent == Spec => []NoEventLost
<1>1. BusInv => NoEventLost
  BY DEF BusInv
<1>2. QED
  BY <1>1, TabsImplementBus, BusAlwaysInv, PTL

-----------------------------------------------------------------------------
(***************************************************************************)
(* Whose data, and how fresh                                               *)
(***************************************************************************)

\* The customers a tab may show the data of
Allowed == {None, session} \cup unsaid

\* A LOGOUT is on the way to the tab.
Leaving(t) ==
    \E o \in Tab : \E i \in 1..Len(channel[<<o, t>>]) :
        channel[<<o, t>>][i].kind = "LOGOUT"

\* What a tab shows and what it asks for is the data of an allowed customer,
\* or it is about to be told to forget it.
Own ==
    \A t \in Tab :
        Leaving(t) \/ (cache[t].owner \in Allowed /\ fetch[t].owner \in Allowed)

\* Neither what a tab takes for fresh nor what it has asked for is older than
\* what it has heard of.
Fresh ==
    \A t \in Tab :
        /\ news[t] <= data
        /\ fetch[t].on => fetch[t].version >= news[t]
        /\ cache[t].owner # None /\ ~cache[t].stale => cache[t].version >= news[t]

\* A tab that is not open holds nothing.
ClosedHolds ==
    \A t \in Tab \ open : cache[t] = Nothing /\ fetch[t] = NoFetch /\ auth[t] = None

IInv == TypeOK /\ BusInv /\ ClosedHolds /\ Own /\ Fresh

\* What was on the way to a tab is still on the way when another event is
\* posted.
LEMMA EmitKeepsLeaving ==
    ASSUME BusInv, NEW t \in Tab, NEW k \in Kind, Emit(t, k), NEW u \in Tab, Leaving(u)
    PROVE  Leaving(u)'
<1>1. PICK o \in Tab : \E i \in 1..Len(channel[<<o, u>>]) : channel[<<o, u>>][i].kind = "LOGOUT"
  BY DEF Leaving
<1>2. PICK i \in 1..Len(channel[<<o, u>>]) : channel[<<o, u>>][i].kind = "LOGOUT"
  BY <1>1
<1> DEFINE m == [kind |-> k, version |-> versions[t][t] + 1]
<1>3. /\ <<o, u>> \in Link
      /\ channel[<<o, u>>] \in Seq(Message)
      /\ channel'[<<o, u>>] = channel[<<o, u>>]
            \/ channel'[<<o, u>>] = Append(channel[<<o, u>>], m)
  BY DEF Emit, BusInv, BusTypeOK, Link
<1>4. m \in Message
  <2>1. versions[t][t] + 1 \in Nat
    <3>1. versions \in [Tab -> [Tab -> Nat]]
      BY DEF BusInv, BusTypeOK
    <3>2. QED
      BY <3>1
  <2>2. QED
    BY <2>1 DEF Message
<1> HIDE DEF m
<1>5. Len(channel[<<o, u>>]) \in Nat
  BY <1>3
<1>6. i \in 1..Len(channel'[<<o, u>>]) /\ channel'[<<o, u>>][i] = channel[<<o, u>>][i]
  <2>1. CASE channel'[<<o, u>>] = channel[<<o, u>>]
    BY <1>2, <2>1
  <2>2. CASE channel'[<<o, u>>] = Append(channel[<<o, u>>], m)
    <3>1. /\ Len(channel'[<<o, u>>]) = Len(channel[<<o, u>>]) + 1
          /\ \A j \in 1..Len(channel[<<o, u>>]) : channel'[<<o, u>>][j] = channel[<<o, u>>][j]
      BY <2>2, <1>3, <1>4, AppendProperties
    <3>2. QED
      BY <3>1, <1>2, <1>5
  <2>3. QED
    BY <2>1, <2>2, <1>3
<1>7. QED
  BY <1>2, <1>6 DEF Leaving

\* A LOGOUT is on the way to every other open tab once it is posted.
LEMMA LogoutLeaves ==
    ASSUME BusInv, NEW t \in Tab, Emit(t, "LOGOUT"), NEW u \in open \ {t}
    PROVE  Leaving(u)'
<1> DEFINE m == [kind |-> "LOGOUT", version |-> versions[t][t] + 1]
<1>1. /\ u \in Tab /\ <<t, u>> \in Link
      /\ channel[<<t, u>>] \in Seq(Message)
      /\ channel'[<<t, u>>] = Append(channel[<<t, u>>], m)
  BY DEF Emit, BusInv, BusTypeOK, Link
<1>2. m \in Message /\ m.kind = "LOGOUT"
  <2>1. versions[t][t] + 1 \in Nat /\ t \in open
    BY SMTT(30) DEF Emit, BusInv, BusTypeOK
  <2>2. QED
    BY <2>1, TabsAssumption DEF Message
<1> HIDE DEF m
<1>3. /\ Len(channel'[<<t, u>>]) = Len(channel[<<t, u>>]) + 1
      /\ channel'[<<t, u>>][Len(channel[<<t, u>>]) + 1] = m
  BY <1>1, <1>2, AppendProperties
<1>4. Len(channel[<<t, u>>]) + 1 \in 1..Len(channel'[<<t, u>>])
  BY <1>1, <1>3
<1>5. QED
  BY <1>1, <1>2, <1>3, <1>4 DEF Leaving

\* A tab that receives another event is still to receive the LOGOUT.
LEMMA ReceiveKeepsLeaving ==
    ASSUME BusInv, NEW t \in Tab, NEW o \in Tab, Receive(t, o), NEW u \in Tab, Leaving(u),
           u = t => Head(channel[<<o, t>>]).kind # "LOGOUT"
    PROVE  Leaving(u)'
<1>1. PICK p \in Tab : \E i \in 1..Len(channel[<<p, u>>]) : channel[<<p, u>>][i].kind = "LOGOUT"
  BY DEF Leaving
<1>2. PICK i \in 1..Len(channel[<<p, u>>]) : channel[<<p, u>>][i].kind = "LOGOUT"
  BY <1>1
<1>3. CASE p # o \/ u # t
  <2>1. channel'[<<p, u>>] = channel[<<p, u>>]
    BY <1>3 DEF Receive, BusInv, BusTypeOK, Link
  <2>2. QED
    BY <1>2, <2>1 DEF Leaving
<1>4. CASE p = o /\ u = t
  <2> DEFINE c == channel[<<o, t>>]
  <2>1. c \in Seq(Message) /\ c # <<>> /\ channel'[<<o, t>>] = Tail(c)
    BY DEF Receive, BusInv, BusTypeOK, Link
  <2>2. i \in 1..Len(c) /\ c[i].kind = "LOGOUT" /\ Head(c).kind # "LOGOUT"
    BY <1>2, <1>4
  <2> HIDE DEF c
  <2>3. Head(c) = c[1] /\ Len(c) \in Nat
    BY <2>1
  <2>4. Len(Tail(c)) = Len(c) - 1 /\ \A j \in 1..Len(Tail(c)) : Tail(c)[j] = c[j + 1]
    BY <2>1, HeadTailProperties
  <2>5. i # 1
    BY <2>2, <2>3
  <2>6. i - 1 \in 1..Len(Tail(c)) /\ (i - 1) + 1 = i
    BY <2>2, <2>3, <2>4, <2>5
  <2>7. Tail(c)[i - 1].kind = "LOGOUT"
    BY <2>2, <2>4, <2>6
  <2>8. QED
    BY <1>4, <2>1, <2>6, <2>7 DEF Leaving
<1>5. QED
  BY <1>3, <1>4

Entry == [owner : User \cup {None}, version : 0..MaxData, stale : BOOLEAN]
Request == [on : BOOLEAN, owner : User \cup {None}, version : 0..MaxData]

\* The types of what the listeners change
LEMMA ListenTypes ==
    ASSUME TypeOK, NEW t \in Tab, NEW kind, Listen(t, kind)
    PROVE  /\ auth' \in [Tab -> User \cup {None}]
           /\ cache' \in [Tab -> Entry]
           /\ fetch' \in [Tab -> Request]
           /\ news' \in [Tab -> 0..MaxData]
<1>1. Nothing \in Entry /\ NoFetch \in Request
  BY TabsAssumption DEF Nothing, NoFetch, Entry, Request
<1>2. /\ cache \in [Tab -> Entry] /\ fetch \in [Tab -> Request]
      /\ news \in [Tab -> 0..MaxData] /\ data \in 0..MaxData
      /\ auth \in [Tab -> User \cup {None}]
  BY DEF TypeOK, Entry, Request
<1>3. [cache[t] EXCEPT !.stale = TRUE] \in Entry
  BY <1>2 DEF Entry
<1>4. CASE Invalidate(t) /\ UNCHANGED auth
  BY <1>1, <1>2, <1>3, <1>4 DEF Invalidate
<1>5. CASE Forget(t) /\ auth' = [auth EXCEPT ![t] = None]
  BY <1>1, <1>2, <1>5 DEF Forget
<1>6. QED
  BY <1>4, <1>5 DEF Listen

\* Every step keeps the types.
LEMMA TypesKept ==
    ASSUME TypeOK, BusInv, [Next]_vars
    PROVE  TypeOK'
<1>1. BusTypeOK'
  BY TabsUseBus, BusStepInv DEF BusInv
<1> DEFINE Types == /\ session' \in User \cup {None}
                    /\ auth' \in [Tab -> User \cup {None}]
                    /\ unsaid' \subseteq User
                    /\ data' \in 0..MaxData
                    /\ cache' \in [Tab -> Entry]
                    /\ fetch' \in [Tab -> Request]
                    /\ news' \in [Tab -> 0..MaxData]
<1>2. /\ session \in User \cup {None} /\ auth \in [Tab -> User \cup {None}]
      /\ unsaid \subseteq User /\ data \in 0..MaxData
      /\ cache \in [Tab -> Entry] /\ fetch \in [Tab -> Request] /\ news \in [Tab -> 0..MaxData]
      /\ Nothing \in Entry /\ NoFetch \in Request
  BY TabsAssumption DEF TypeOK, Entry, Request, Nothing, NoFetch
<1>3. ASSUME NEW t \in Tab, Boot(t) PROVE Types
  BY <1>2, <1>3 DEF Boot, authVars, cacheVars
<1>4. ASSUME NEW t \in Tab, Close(t) PROVE Types
  BY <1>2, <1>4, TabsAssumption DEF Close
<1>5. ASSUME NEW t \in Tab, SessionTold(t) PROVE Types
  BY <1>2, <1>5 DEF SessionTold, cacheVars
<1>6. ASSUME NEW t \in Tab, Logout(t) PROVE Types
  BY <1>2, <1>6, ListenTypes DEF Logout
<1>7. ASSUME NEW t \in Tab, NEW u \in User, Login(t, u) PROVE Types
  <2>1. [cache[t] EXCEPT !.stale = TRUE] \in Entry
    BY <1>2 DEF Entry
  <2>2. unsaid \cup ({session} \ {None, u}) \subseteq User
    BY <1>2
  <2>3. QED
    BY <1>2, <1>7, <2>1, <2>2 DEF Login, Invalidate
<1>8. ASSUME NEW t \in Tab, NEW o \in Tab, OnMessage(t, o) PROVE Types
  <2>1. CASE Stale(t, o)
    BY <1>2, <1>8, <2>1 DEF OnMessage, cacheVars
  <2>2. CASE ~Stale(t, o)
    BY <1>2, <1>8, <2>2, ListenTypes DEF OnMessage
  <2>3. QED
    BY <2>1, <2>2
<1>9. ASSUME NEW t \in Tab, MutationAnswered(t) PROVE Types
  BY <1>2, <1>9, ListenTypes DEF MutationAnswered
<1>10. ASSUME NEW t \in Tab, StartFetch(t) PROVE Types
  <2>1. [on |-> TRUE, owner |-> session, version |-> data] \in Request
    BY <1>2 DEF Request
  <2>2. QED
    BY <1>2, <1>10, <2>1 DEF StartFetch, authVars
<1>11. ASSUME NEW t \in Tab, FetchLands(t) PROVE Types
  <2>1. [owner |-> fetch[t].owner, version |-> fetch[t].version, stale |-> FALSE] \in Entry
    BY <1>2 DEF Request, Entry
  <2>2. QED
    BY <1>2, <1>11, <2>1 DEF FetchLands, authVars
<1>12. ASSUME NEW t \in Tab, FetchFails(t) PROVE Types
  BY <1>2, <1>12 DEF FetchFails, authVars
<1>13. ASSUME NEW t \in Tab, ServerEvent(t) PROVE Types
  <2>1. [cache[t] EXCEPT !.stale = TRUE] \in Entry
    BY <1>2 DEF Entry
  <2>2. QED
    BY <1>2, <1>13, <2>1 DEF ServerEvent, Invalidate, authVars
<1>14. ASSUME NEW u \in User, SignedInByGoogle(u) PROVE Types
  BY <1>2, <1>14 DEF SignedInByGoogle, cacheVars
<1>15. ASSUME SessionEnds PROVE Types
  BY <1>2, <1>15 DEF SessionEnds, cacheVars
<1>16. ASSUME ServerChanges PROVE Types
  BY <1>2, <1>16, TabsAssumption DEF ServerChanges, cacheVars, authVars
<1>17. ASSUME UNCHANGED vars PROVE Types
  BY <1>2, <1>17 DEF vars, cacheVars, authVars
<1>18. Types
  BY <1>3, <1>4, <1>5, <1>6, <1>7, <1>8, <1>9, <1>10, <1>11, <1>12, <1>13, <1>14, <1>15,
     <1>16, <1>17 DEF Next
<1>19. QED
  BY <1>1, <1>18 DEF TypeOK, Entry, Request

\* A tab's listener only makes what the tab shows more allowed and never older.
LEMMA ListenKeeps ==
    ASSUME TypeOK, Fresh, NEW t \in Tab, NEW kind, Listen(t, kind),
           data' = data
    PROVE  /\ Fresh'
           /\ cache'[t].owner \in {None, cache[t].owner}
           /\ fetch'[t].owner \in {None, fetch[t].owner}
           /\ kind = "LOGOUT" => cache'[t].owner = None /\ fetch'[t].owner = None
           /\ \A u \in Tab \ {t} : /\ cache'[u] = cache[u] /\ fetch'[u] = fetch[u]
                                  /\ auth'[u] = auth[u]
<1>1. /\ cache \in [Tab -> Entry] /\ fetch \in [Tab -> Request]
      /\ news \in [Tab -> 0..MaxData] /\ data \in 0..MaxData
      /\ auth \in [Tab -> User \cup {None}]
  BY DEF TypeOK, Entry, Request
<1>2. CASE kind \in {"ORDER", "LOGIN"} /\ Invalidate(t) /\ UNCHANGED auth
  <2>1. /\ cache'[t].owner = cache[t].owner /\ cache'[t].stale
        /\ \A u \in Tab \ {t} : cache'[u] = cache[u]
    BY <1>1, <1>2 DEF Invalidate, Entry
  <2>2. CASE cache[t].owner = None
    <3>1. fetch' = fetch /\ news' = news
      BY <1>2, <2>2 DEF Invalidate
    <3>2. QED
      BY <1>1, <1>2, <2>1, <3>1 DEF Fresh
  <2>3. CASE cache[t].owner # None
    <3>1. /\ fetch'[t] = NoFetch /\ news'[t] = data
          /\ \A u \in Tab \ {t} : fetch'[u] = fetch[u] /\ news'[u] = news[u]
      BY <1>1, <1>2, <2>3 DEF Invalidate
    <3>2. NoFetch.owner = None /\ ~NoFetch.on
      BY DEF NoFetch
    <3>3. Fresh'
      BY <1>1, <2>1, <3>1, <3>2 DEF Fresh
    <3>4. QED
      BY <1>2, <2>1, <3>1, <3>2, <3>3
  <2>4. QED
    BY <2>2, <2>3
<1>3. CASE kind = "LOGOUT" /\ Forget(t) /\ auth' = [auth EXCEPT ![t] = None]
  <2>1. /\ cache'[t] = Nothing /\ fetch'[t] = NoFetch /\ news' = news
        /\ \A u \in Tab \ {t} : cache'[u] = cache[u] /\ fetch'[u] = fetch[u] /\ auth'[u] = auth[u]
    BY <1>1, <1>3 DEF Forget
  <2>2. Nothing.owner = None /\ NoFetch.owner = None /\ ~NoFetch.on
    BY DEF Nothing, NoFetch
  <2>3. Fresh'
    BY <2>1, <2>2 DEF Fresh
  <2>4. QED
    BY <2>1, <2>2, <2>3
<1>4. QED
  BY <1>2, <1>3 DEF Listen

\* What is allowed stays allowed as long as nobody signs out.
LEMMA AllowedGrows ==
    ASSUME \/ session' = session /\ unsaid' = unsaid
           \/ \E u \in User : session' = u /\ unsaid' = unsaid \cup ({session} \ {None, u})
           \/ session = None /\ unsaid' = unsaid
           \/ unsaid' = unsaid \cup {session}
    PROVE  Allowed \subseteq Allowed'
BY DEF Allowed

\* Every step keeps what is said of data.
LEMMA DataKept ==
    ASSUME IInv, [Next]_vars
    PROVE  ClosedHolds' /\ Own' /\ Fresh'
<1> DEFINE Good == ClosedHolds' /\ Own' /\ Fresh'
<1> USE DEF IInv
<1>1. /\ cache \in [Tab -> Entry] /\ fetch \in [Tab -> Request] /\ auth \in [Tab -> User \cup {None}]
      /\ news \in [Tab -> 0..MaxData] /\ data \in 0..MaxData
      /\ open \subseteq Tab /\ channel \in [Link -> Seq(Message)]
  BY DEF TypeOK, Entry, Request, BusInv, BusTypeOK
<1>2. Nothing.owner = None /\ NoFetch.owner = None /\ ~NoFetch.on /\ None \in Allowed
  BY DEF Nothing, NoFetch, Allowed
<1>3. ASSUME NEW t \in Tab, Boot(t) PROVE Good
  BY <1>3 DEF Boot, OpenTab, authVars, cacheVars, ClosedHolds, Own, Leaving, Allowed, Fresh
<1>4. ASSUME NEW t \in Tab, Close(t) PROVE Good
  <2>1. /\ cache'[t] = Nothing /\ fetch'[t] = NoFetch /\ auth'[t] = None /\ news'[t] = 0
        /\ open' = open \ {t} /\ data' = data /\ session' = session /\ unsaid' = unsaid
        /\ \A u \in Tab \ {t} : /\ cache'[u] = cache[u] /\ fetch'[u] = fetch[u]
                               /\ auth'[u] = auth[u] /\ news'[u] = news[u]
                               /\ \A o \in Tab : channel'[<<o, u>>] = channel[<<o, u>>]
    BY <1>1, <1>4 DEF Close, CloseTab, Link
  <2>2. Allowed' = Allowed
    BY <2>1 DEF Allowed
  <2>3. ClosedHolds'
    BY <2>1 DEF ClosedHolds
  <2>4. \A u \in Tab \ {t} : Leaving(u) => Leaving(u)'
    BY <2>1 DEF Leaving
  <2>5. Own'
    BY <2>1, <2>2, <2>4, <1>2 DEF Own
  <2>6. Fresh'
    BY <2>1, <1>1, <1>2 DEF Fresh
  <2>7. QED
    BY <2>3, <2>5, <2>6
<1>5. ASSUME NEW t \in Tab, SessionTold(t) PROVE Good
  <2>1. /\ cache' = cache /\ fetch' = fetch /\ news' = news /\ data' = data /\ channel' = channel
        /\ session' = session /\ unsaid' = unsaid /\ open' = open /\ t \in open
        /\ \A u \in Tab \ {t} : auth'[u] = auth[u]
    BY <1>1, <1>5 DEF SessionTold, cacheVars, busVars
  <2>2. ClosedHolds'
    BY <2>1 DEF ClosedHolds
  <2>3. Own' /\ Fresh'
    BY <2>1 DEF Own, Fresh, Leaving, Allowed
  <2>4. QED
    BY <2>2, <2>3
<1>6. ASSUME NEW t \in Tab, Logout(t) PROVE Good
  <2>1. /\ Emit(t, "LOGOUT") /\ Listen(t, "LOGOUT") /\ data' = data /\ t \in open /\ open' = open
    BY <1>6 DEF Logout, Emit
  <2>2. /\ Fresh' /\ cache'[t].owner = None /\ fetch'[t].owner = None
        /\ \A u \in Tab \ {t} : /\ cache'[u] = cache[u] /\ fetch'[u] = fetch[u]
                               /\ auth'[u] = auth[u]
    BY <2>1, ListenKeeps
  <2>3. ClosedHolds'
    BY <2>1, <2>2 DEF ClosedHolds
  <2>4. \A u \in open \ {t} : Leaving(u)'
    BY <2>1, LogoutLeaves
  <2>5. None \in Allowed'
    BY DEF Allowed
  <2>6. \A u \in Tab \ open : cache'[u].owner = None /\ fetch'[u].owner = None
    BY <2>1, <2>2, <1>2 DEF ClosedHolds
  <2>7. Own'
    BY <2>2, <2>4, <2>5, <2>6 DEF Own
  <2>8. QED
    BY <2>2, <2>3, <2>7
<1>7. ASSUME NEW t \in Tab, NEW u \in User, Login(t, u) PROVE Good
  <2>1. /\ Emit(t, "LOGIN") /\ data' = data /\ t \in open /\ open' = open
        /\ \A v \in Tab \ {t} : auth'[v] = auth[v]
        /\ Invalidate(t)
    BY <1>1, <1>7 DEF Login, Emit
  <2>2. /\ cache'[t].owner = cache[t].owner /\ cache'[t].stale
        /\ fetch'[t].owner \in {None, fetch[t].owner}
        /\ \A v \in Tab \ {t} : cache'[v] = cache[v] /\ fetch'[v] = fetch[v]
    BY <2>1, <1>1, <1>2 DEF Invalidate, Entry
  <2>3. Fresh'
    <3>1. CASE cache[t].owner = None
      BY <3>1, <2>1, <2>2 DEF Invalidate, Fresh
    <3>2. CASE cache[t].owner # None
      <4>1. /\ fetch'[t] = NoFetch /\ news'[t] = data
            /\ \A v \in Tab \ {t} : news'[v] = news[v]
        BY <3>2, <2>1, <1>1 DEF Invalidate
      <4>2. QED
        BY <4>1, <2>1, <2>2, <1>1, <1>2 DEF Fresh
    <3>3. QED
      BY <3>1, <3>2
  <2>4. ClosedHolds'
    BY <2>1, <2>2 DEF ClosedHolds
  <2>5. Allowed \subseteq Allowed'
    BY <1>7, AllowedGrows DEF Login
  <2>6. \A v \in Tab : Leaving(v) => Leaving(v)'
    BY <2>1, TabsAssumption, EmitKeepsLeaving
  <2>7. Own'
    BY <2>2, <2>5, <2>6, <1>2 DEF Own
  <2>8. QED
    BY <2>3, <2>4, <2>7
<1>8. ASSUME NEW t \in Tab, NEW o \in Tab, OnMessage(t, o) PROVE Good
  <2>1. /\ Receive(t, o) /\ t \in open /\ open' = open /\ channel[<<o, t>>] # <<>>
        /\ data' = data /\ session' = session /\ unsaid' = unsaid
    BY <1>8 DEF OnMessage, Receive
  <2>2. Listen(t, Head(channel[<<o, t>>]).kind)
    BY <1>8, <2>1, NeverStale DEF OnMessage
  <2> DEFINE k == Head(channel[<<o, t>>]).kind
  <2>3. /\ Fresh'
        /\ cache'[t].owner \in {None, cache[t].owner}
        /\ fetch'[t].owner \in {None, fetch[t].owner}
        /\ k = "LOGOUT" => cache'[t].owner = None /\ fetch'[t].owner = None
        /\ \A u \in Tab \ {t} : /\ cache'[u] = cache[u] /\ fetch'[u] = fetch[u]
                               /\ auth'[u] = auth[u]
    BY <2>1, <2>2, ListenKeeps
  <2>4. ClosedHolds'
    BY <2>1, <2>3 DEF ClosedHolds
  <2>5. \A u \in Tab : Leaving(u) /\ (u # t \/ k # "LOGOUT") => Leaving(u)'
    BY <2>1, ReceiveKeepsLeaving
  <2>6. Allowed' = Allowed
    BY <2>1 DEF Allowed
  <2> HIDE DEF k
  <2>7. Own'
    BY <2>3, <2>5, <2>6, <1>2 DEF Own
  <2>8. QED
    BY <2>3, <2>4, <2>7
<1>9. ASSUME NEW t \in Tab, MutationAnswered(t) PROVE Good
  <2>1. /\ Emit(t, "ORDER") /\ Listen(t, "ORDER") /\ t \in open /\ open' = open
        /\ data' = data /\ session' = session /\ unsaid' = unsaid
    BY <1>9 DEF MutationAnswered, Emit
  <2>2. /\ Fresh'
        /\ cache'[t].owner \in {None, cache[t].owner}
        /\ fetch'[t].owner \in {None, fetch[t].owner}
        /\ \A u \in Tab \ {t} : /\ cache'[u] = cache[u] /\ fetch'[u] = fetch[u]
                               /\ auth'[u] = auth[u]
    BY <2>1, ListenKeeps
  <2>3. ClosedHolds'
    BY <2>1, <2>2 DEF ClosedHolds
  <2>4. \A u \in Tab : Leaving(u) => Leaving(u)'
    BY <2>1, TabsAssumption, EmitKeepsLeaving
  <2>5. Allowed' = Allowed
    BY <2>1 DEF Allowed
  <2>6. Own'
    BY <2>2, <2>4, <2>5, <1>2 DEF Own
  <2>7. QED
    BY <2>2, <2>3, <2>6
<1>10. ASSUME NEW t \in Tab, StartFetch(t) PROVE Good
  <2>1. /\ cache' = cache /\ news' = news /\ data' = data /\ channel' = channel /\ auth' = auth
        /\ session' = session /\ unsaid' = unsaid /\ open' = open /\ auth[t] # None
        /\ fetch'[t] = [on |-> TRUE, owner |-> session, version |-> data]
        /\ \A u \in Tab \ {t} : fetch'[u] = fetch[u]
    BY <1>1, <1>10 DEF StartFetch, authVars, busVars
  <2>2. t \in open
    BY <2>1 DEF ClosedHolds
  <2>3. ClosedHolds'
    BY <2>1, <2>2 DEF ClosedHolds
  <2>4. Allowed' = Allowed /\ session \in Allowed /\ \A u \in Tab : Leaving(u)' <=> Leaving(u)
    BY <2>1 DEF Allowed, Leaving
  <2>5. Own'
    BY <2>1, <2>4 DEF Own
  <2>6. Fresh'
    BY <2>1, <1>1, SMTT(30) DEF Fresh
  <2>7. QED
    BY <2>3, <2>5, <2>6
<1>11. ASSUME NEW t \in Tab, FetchLands(t) PROVE Good
  <2>1. /\ news' = news /\ data' = data /\ channel' = channel /\ auth' = auth
        /\ session' = session /\ unsaid' = unsaid /\ open' = open /\ fetch[t].on
        /\ fetch'[t] = NoFetch
        /\ cache'[t] = [owner |-> fetch[t].owner, version |-> fetch[t].version, stale |-> FALSE]
        /\ \A u \in Tab \ {t} : fetch'[u] = fetch[u] /\ cache'[u] = cache[u]
    BY <1>1, <1>11 DEF FetchLands, authVars, busVars
  <2>2. t \in open
    BY <2>1, <1>2 DEF ClosedHolds
  <2>3. ClosedHolds'
    BY <2>1, <2>2 DEF ClosedHolds
  <2>4. Allowed' = Allowed /\ \A u \in Tab : Leaving(u)' <=> Leaving(u)
    BY <2>1 DEF Allowed, Leaving
  <2>5. Own'
    BY <2>1, <2>4, <1>2 DEF Own
  <2>6. Fresh'
    <3>1. fetch[t].version >= news[t]
      BY <2>1 DEF Fresh
    <3>2. cache'[t].version = fetch[t].version /\ ~fetch'[t].on
      BY <2>1, <1>2
    <3>3. \A u \in Tab \ {t} :
              /\ news'[u] <= data
              /\ fetch'[u].on => fetch'[u].version >= news'[u]
              /\ cache'[u].owner # None /\ ~cache'[u].stale => cache'[u].version >= news'[u]
      BY <2>1 DEF Fresh
    <3>4. /\ news'[t] <= data
          /\ fetch'[t].on => fetch'[t].version >= news'[t]
          /\ cache'[t].version >= news'[t]
      BY <2>1, <3>1, <3>2 DEF Fresh
    <3>5. QED
      BY <2>1, <3>3, <3>4, Zenon DEF Fresh
  <2>7. QED
    BY <2>3, <2>5, <2>6
<1>12. ASSUME NEW t \in Tab, FetchFails(t) PROVE Good
  <2>1. /\ cache' = cache /\ news' = news /\ data' = data /\ channel' = channel /\ auth' = auth
        /\ session' = session /\ unsaid' = unsaid /\ open' = open
        /\ fetch'[t] = NoFetch
        /\ \A u \in Tab \ {t} : fetch'[u] = fetch[u]
    BY <1>1, <1>12 DEF FetchFails, authVars, busVars
  <2>2. ClosedHolds'
    BY <2>1 DEF ClosedHolds
  <2>3. Allowed' = Allowed /\ \A u \in Tab : Leaving(u)' <=> Leaving(u)
    BY <2>1 DEF Allowed, Leaving
  <2>4. Own'
    BY <2>1, <2>3, <1>2 DEF Own
  <2>5. Fresh'
    BY <2>1, <1>1, <1>2 DEF Fresh
  <2>6. QED
    BY <2>2, <2>4, <2>5
<1>13. ASSUME NEW t \in Tab, ServerEvent(t) PROVE Good
  <2>1. /\ Listen(t, "ORDER") /\ data' = data /\ session' = session /\ unsaid' = unsaid
        /\ channel' = channel /\ open' = open /\ t \in open
    BY <1>13 DEF ServerEvent, Listen, authVars, busVars
  <2>2. /\ Fresh'
        /\ cache'[t].owner \in {None, cache[t].owner}
        /\ fetch'[t].owner \in {None, fetch[t].owner}
        /\ \A u \in Tab \ {t} : /\ cache'[u] = cache[u] /\ fetch'[u] = fetch[u]
                               /\ auth'[u] = auth[u]
    BY <2>1, ListenKeeps
  <2>3. ClosedHolds'
    BY <2>1, <2>2 DEF ClosedHolds
  <2>4. Allowed' = Allowed /\ \A u \in Tab : Leaving(u)' <=> Leaving(u)
    BY <2>1 DEF Allowed, Leaving
  <2>5. Own'
    BY <2>2, <2>4, <1>2 DEF Own
  <2>6. QED
    BY <2>2, <2>3, <2>5
<1>14. ASSUME /\ UNCHANGED <<busVars, auth, cacheVars>>
              /\ data' \in Nat /\ data' >= data /\ Allowed \subseteq Allowed'
       PROVE  Good
  <2>1. /\ cache' = cache /\ fetch' = fetch /\ news' = news /\ channel' = channel
        /\ auth' = auth /\ open' = open
    BY <1>14 DEF cacheVars, busVars
  <2>2. ClosedHolds'
    BY <2>1 DEF ClosedHolds
  <2>3. \A u \in Tab : Leaving(u)' <=> Leaving(u)
    BY <2>1 DEF Leaving
  <2>4. Own'
    BY <2>1, <2>3, <1>14 DEF Own
  <2>5. Fresh'
    BY <2>1, <1>1, <1>14 DEF Fresh
  <2>6. QED
    BY <2>2, <2>4, <2>5
<1>15. ASSUME NEW u \in User, SignedInByGoogle(u) PROVE Good
  <2>1. Allowed \subseteq Allowed'
    BY <1>15, AllowedGrows DEF SignedInByGoogle
  <2>2. QED
    BY <1>1, <1>14, <1>15, <2>1 DEF SignedInByGoogle
<1>16. ASSUME SessionEnds PROVE Good
  <2>1. Allowed \subseteq Allowed'
    BY <1>16, AllowedGrows DEF SessionEnds
  <2>2. QED
    BY <1>1, <1>14, <1>16, <2>1 DEF SessionEnds
<1>17. ASSUME ServerChanges PROVE Good
  <2>1. Allowed \subseteq Allowed' /\ auth' = auth
    BY <1>17, AllowedGrows DEF ServerChanges, authVars
  <2>2. QED
    BY <1>1, <1>14, <1>17, <2>1 DEF ServerChanges
<1>18. ASSUME UNCHANGED vars PROVE Good
  <2>1. Allowed \subseteq Allowed' /\ auth' = auth /\ data' = data
    BY <1>18, AllowedGrows DEF vars, authVars
  <2>2. QED
    BY <1>1, <1>14, <1>18, <2>1 DEF vars
<1>19. QED
  BY <1>3, <1>4, <1>5, <1>6, <1>7, <1>8, <1>9, <1>10, <1>11, <1>12, <1>13, <1>15, <1>16, <1>17,
     <1>18 DEF Next

\* The invariant is one.
LEMMA Invariant == Spec => []IInv
<1>1. ASSUME Init PROVE IInv
  <2>1. /\ BusInv
        /\ cache = [t \in Tab |-> Nothing] /\ fetch = [t \in Tab |-> NoFetch]
        /\ auth = [t \in Tab |-> None] /\ news = [t \in Tab |-> 0] /\ data = 0
        /\ session = None /\ unsaid = {}
    BY <1>1, BusInitInv DEF Init
  <2>2. Nothing \in Entry /\ NoFetch \in Request /\ 0 \in 0..MaxData
    BY TabsAssumption DEF Nothing, NoFetch, Entry, Request
  <2>3. TypeOK
    BY <2>1, <2>2 DEF TypeOK, Entry, Request, BusInv
  <2>4. ClosedHolds /\ Own /\ Fresh
    <3>1. \A t \in Tab : /\ cache[t] = Nothing /\ fetch[t] = NoFetch /\ auth[t] = None
                         /\ news[t] = 0
      BY <2>1
    <3>2. /\ Nothing.owner = None /\ NoFetch.owner = None /\ ~NoFetch.on /\ None \in Allowed
          /\ 0 <= 0
      BY DEF Nothing, NoFetch, Allowed
    <3>3. ClosedHolds /\ Own
      BY <3>1, <3>2 DEF ClosedHolds, Own
    <3>4. Fresh
      BY <2>1, <3>1, <3>2 DEF Fresh
    <3>5. QED
      BY <3>3, <3>4
  <2>5. QED
    BY <2>1, <2>3, <2>4 DEF IInv
<1>2. ASSUME IInv, [Next]_vars PROVE IInv'
  <2>1. TypeOK'
    BY <1>2, TypesKept DEF IInv
  <2>2. BusInv'
    BY <1>2, TabsUseBus, BusStepInv DEF IInv
  <2>3. QED
    BY <1>2, <2>1, <2>2, DataKept DEF IInv
<1>3. QED
  BY <1>1, <1>2, PTL DEF Spec

\* The variables of the bus and of the tabs have their types.
THEOREM TabsTypes == Spec => []TypeOK
<1>1. IInv => TypeOK
  BY DEF IInv
<1>2. QED
  BY <1>1, Invariant, PTL

\* No tab that has received everything shows one customer's data to another,
\* unless a session ended with no LOGOUT.
THEOREM TabsOwnDataOnly == Spec => []OwnDataOnly
<1>1. IInv => OwnDataOnly
  <2> SUFFICES ASSUME IInv, NEW t \in open, \A o \in Tab : channel[<<o, t>>] = <<>>
               PROVE  cache[t].owner \in {None, session} \cup unsaid
    BY DEF OwnDataOnly
  <2>1. t \in Tab
    BY DEF IInv, BusInv, BusTypeOK
  <2>2. ~Leaving(t)
    <3>1. ASSUME NEW o \in Tab PROVE 1..Len(channel[<<o, t>>]) = {}
      <4>1. channel[<<o, t>>] = <<>>
        OBVIOUS
      <4>2. Len(<<>>) = 0 /\ 1..0 = {}
        OBVIOUS
      <4>3. QED
        BY <4>1, <4>2
    <3>2. QED
      BY <3>1 DEF Leaving
  <2>3. QED
    BY <2>1, <2>2 DEF IInv, Own, Allowed
<1>2. QED
  BY <1>1, Invariant, PTL

\* No tab takes data for fresh that is older than what it has heard of.
THEOREM TabsFreshAfterNews == Spec => []FreshAfterNews
<1>1. IInv => FreshAfterNews
  BY DEF IInv, Fresh, FreshAfterNews, BusInv, BusTypeOK
<1>2. QED
  BY <1>1, Invariant, PTL
=============================================================================
