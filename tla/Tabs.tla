-------------------------------- MODULE Tabs --------------------------------
(***************************************************************************)
(* The tabs of one browser and what each shows of the server: AuthProvider *)
(* (packages/shared-api/src/providers/AuthProvider.tsx), the handlers of   *)
(* lib/sync/*.sync.ts and the server's event stream (lib/sync/sse.ts) over *)
(* the bus.  The data is one query of the customer, the orders say, that   *)
(* every tab has on the screen; its key does not name the customer.        *)
(*                                                                         *)
(* The cache of TanStack Query and the session storage of Supabase, which  *)
(* the tabs share, are external: invalidating a query marks it stale and   *)
(* cancels its fetch, unless it is the first and there is nothing to show  *)
(* meanwhile; clearing the cache forgets both.                             *)
(***************************************************************************)
EXTENDS SyncBus

CONSTANTS
    User,
    None,     \* nobody
    MaxData   \* bound of the model: how often the data of the customers changes

\* Events with one listener effect are one kind: ORDER is any of them that
\* invalidates what is on the screen.
ASSUME TabsAssumption ==
    /\ Kind = {"ORDER", "LOGIN", "LOGOUT"}
    /\ None \notin User
    /\ MaxData \in Nat

VARIABLES
    session,    \* the customer whose session Supabase keeps for the browser
    auth,       \* the customer each tab believes to be signed in
    unsaid,     \* (history) the customers whose session ended with no LOGOUT since
    data,       \* the version of what the server holds of the customers
    cache,      \* what each tab holds: whose, which version, whether stale
    fetch,      \* the request each tab has in flight, and what it has read
    news        \* (history) the version there was when a tab last heard of a
                \* change of what it shows

authVars == <<session, auth, unsaid>>
cacheVars == <<cache, fetch, news>>
vars == <<busVars, authVars, data, cacheVars>>

Nothing == [owner |-> None, version |-> 0, stale |-> TRUE]
NoFetch == [on |-> FALSE, owner |-> None, version |-> 0]

TypeOK ==
    /\ BusTypeOK
    /\ session \in User \cup {None}
    /\ auth \in [Tab -> User \cup {None}]
    /\ unsaid \subseteq User
    /\ data \in 0..MaxData
    /\ cache \in [Tab -> [owner : User \cup {None}, version : 0..MaxData, stale : BOOLEAN]]
    /\ fetch \in [Tab -> [on : BOOLEAN, owner : User \cup {None}, version : 0..MaxData]]
    /\ news \in [Tab -> 0..MaxData]

Init ==
    /\ BusInit
    /\ session = None
    /\ auth = [t \in Tab |-> None]
    /\ unsaid = {}
    /\ data = 0
    /\ cache = [t \in Tab |-> Nothing]
    /\ fetch = [t \in Tab |-> NoFetch]
    /\ news = [t \in Tab |-> 0]

-----------------------------------------------------------------------------
(***************************************************************************)
(* The listeners of the bus                                                *)
(***************************************************************************)

\* Faulty variant: a fetch in flight is waited for.
InvalidateKeepingFetch(t) ==
    /\ cache' = [cache EXCEPT ![t].stale = ~fetch[t].on]
    /\ news' = [news EXCEPT ![t] = data]
    /\ UNCHANGED fetch

\* invalidateQueries: a fetch in flight is cancelled if there is data.
Invalidate(t) ==
    /\ cache' = [cache EXCEPT ![t].stale = TRUE]
    /\ IF cache[t].owner = None THEN UNCHANGED <<fetch, news>>
       ELSE /\ fetch' = [fetch EXCEPT ![t] = NoFetch]
            /\ news' = [news EXCEPT ![t] = data]

\* Faulty variant: signing out only invalidates.
ForgetLater(t) ==
    /\ cache' = [cache EXCEPT ![t].stale = TRUE]
    /\ UNCHANGED <<fetch, news>>

\* queryClient.clear()
Forget(t) ==
    /\ cache' = [cache EXCEPT ![t] = Nothing]
    /\ fetch' = [fetch EXCEPT ![t] = NoFetch]
    /\ UNCHANGED news

\* The listeners of an event: auth.sync, order.sync and its like, and the
\* effect of AuthProvider, in which a LOGIN asks for the session (SessionTold).
Listen(t, kind) ==
    \/ /\ kind \in {"ORDER", "LOGIN"}
       /\ Invalidate(t)
       /\ UNCHANGED auth
    \/ /\ kind = "LOGOUT"
       /\ Forget(t)
       /\ auth' = [auth EXCEPT ![t] = None]

\* The next event of another tab
OnMessage(t, o) ==
    /\ Receive(t, o)
    /\ IF Stale(t, o) THEN UNCHANGED <<auth, cacheVars>>
       ELSE Listen(t, Head(channel[<<o, t>>]).kind)
    /\ UNCHANGED <<session, unsaid, data>>

-----------------------------------------------------------------------------
(***************************************************************************)
(* Tabs and sessions                                                       *)
(***************************************************************************)

\* A page of the storefront is loaded.  It asks for the session
\* (SessionTold), and its stream connects later.
Boot(t) ==
    /\ OpenTab(t)
    /\ UNCHANGED <<authVars, data, cacheVars>>

Close(t) ==
    /\ CloseTab(t)
    /\ auth' = [auth EXCEPT ![t] = None]
    /\ cache' = [cache EXCEPT ![t] = Nothing]
    /\ fetch' = [fetch EXCEPT ![t] = NoFetch]
    /\ news' = [news EXCEPT ![t] = 0]
    /\ UNCHANGED <<session, unsaid, data>>

\* getSession answers, or Supabase tells of a change: onAuthStateChange.
SessionTold(t) ==
    /\ t \in open
    /\ auth' = [auth EXCEPT ![t] = session]
    /\ UNCHANGED <<busVars, session, unsaid, data, cacheVars>>

\* login, once Supabase has stored the session
Login(t, u) ==
    /\ auth[t] = None
    /\ unsaid' = unsaid \cup ({session} \ {None, u})
    /\ session' = u
    /\ Emit(t, "LOGIN")
    /\ Invalidate(t)
    /\ auth' = [auth EXCEPT ![t] = u]
    /\ UNCHANGED <<data>>

\* logout, once Supabase has dropped the session
Logout(t) ==
    /\ auth[t] # None
    /\ session' = None
    /\ unsaid' = {}
    /\ Emit(t, "LOGOUT")
    /\ Listen(t, "LOGOUT")
    /\ UNCHANGED <<data>>

\* Google returns to a page that Boot loads: the session is stored, in place
\* of one there may be, and there is no LOGIN.
SignedInByGoogle(u) ==
    /\ unsaid' = unsaid \cup ({session} \ {None, u})
    /\ session' = u
    /\ UNCHANGED <<busVars, auth, data, cacheVars>>

\* The session has expired or was revoked, and Supabase drops it.
SessionEnds ==
    /\ session # None
    /\ session' = None
    /\ unsaid' = unsaid \cup {session}
    /\ UNCHANGED <<busVars, auth, data, cacheVars>>

-----------------------------------------------------------------------------
(***************************************************************************)
(* The data                                                                *)
(***************************************************************************)

\* The server commits a change: a mutation of one of the tabs, a webhook, a
\* worker or another device.  A mutation whose answer is lost emits nothing.
ServerChanges ==
    /\ data < MaxData
    /\ data' = data + 1
    /\ UNCHANGED <<busVars, authVars, cacheVars>>

\* The answer to a mutation, some time after it changed the data or after it
\* changed nothing: onSuccess calls one of the emit functions
\* (afterOrderCreated and so on), also when the session has ended meanwhile.
MutationAnswered(t) ==
    /\ Emit(t, "ORDER")
    /\ Listen(t, "ORDER")
    /\ UNCHANGED <<session, unsaid, data>>

\* A query that is on the screen and stale is fetched while the tab believes
\* somebody to be signed in, with the token of the session there is.  The
\* server reads at once; a later read would only be of newer data.
StartFetch(t) ==
    /\ auth[t] # None
    /\ session # None
    /\ cache[t].stale
    /\ ~fetch[t].on
    /\ fetch' = [fetch EXCEPT ![t] = [on |-> TRUE, owner |-> session,
                                      version |-> data]]
    /\ UNCHANGED <<busVars, authVars, data, cache, news>>

FetchLands(t) ==
    /\ fetch[t].on
    /\ cache' = [cache EXCEPT ![t] = [owner |-> fetch[t].owner, version |-> fetch[t].version,
                                      stale |-> FALSE]]
    /\ fetch' = [fetch EXCEPT ![t] = NoFetch]
    /\ UNCHANGED <<busVars, authVars, data, news>>

FetchFails(t) ==
    /\ fetch[t].on
    /\ fetch' = [fetch EXCEPT ![t] = NoFetch]
    /\ UNCHANGED <<busVars, authVars, data, cache, news>>

\* _handleMessage and emitFromServer: an event of the server about the
\* customer Supabase has signed in (isEventForCurrentUser).  It comes at any
\* time after the change, more than once when several are on the way, or
\* never, when the stream was not connected.
ServerEvent(t) ==
    /\ t \in open
    /\ session # None
    /\ data > 0
    /\ Invalidate(t)
    /\ UNCHANGED <<busVars, authVars, data>>

-----------------------------------------------------------------------------
Next ==
    \/ \E t \in Tab :
          \/ Boot(t) \/ Close(t) \/ SessionTold(t) \/ Logout(t)
          \/ \E u \in User : Login(t, u)
          \/ \E o \in Tab : OnMessage(t, o)
          \/ MutationAnswered(t)
          \/ StartFetch(t) \/ FetchLands(t) \/ FetchFails(t)
          \/ ServerEvent(t)
    \/ \E u \in User : SignedInByGoogle(u)
    \/ SessionEnds
    \/ ServerChanges

Spec == Init /\ [][Next]_vars

-----------------------------------------------------------------------------
(***************************************************************************)
(* Properties                                                              *)
(***************************************************************************)

\* A tab that has received everything shows the data of nobody but the
\* customer who is signed in to the browser, though all customers share the
\* key of the query and requests in flight outlive a session (auth.sync,
\* logout of AuthProvider).  The one exception is a customer whose session
\* ended with no LOGOUT, because it expired or another customer signed in.
OwnDataOnly ==
    \A t \in open :
        (\A o \in Tab : channel[<<o, t>>] = <<>>)
            => cache[t].owner \in {None, session} \cup unsaid

\* A tab that has heard of a change of what it shows, from its own mutation,
\* from another tab or from the server, never takes an older answer for
\* fresh: the request that was in flight when the event came does not fill
\* the cache (the invalidations of the sync handlers).
FreshAfterNews ==
    \A t \in open :
        cache[t].owner # None /\ ~cache[t].stale
            => cache[t].version >= news[t]
=============================================================================
