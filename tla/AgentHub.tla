------------------------------ MODULE AgentHub -----------------------------
(***************************************************************************)
(* The hub's side of an agent connection: the enrolment token, the         *)
(* machine fingerprint a proxy is bound to, the registry of sessions and   *)
(* the closing of a session.                                               *)
(*                                                                         *)
(* Every connection has a handler goroutine of its own.  The statements    *)
(* of the store run one at a time, but a handler's SELECT and UPDATE are   *)
(* two of them; the registry is under a mutex, which Put keeps while it    *)
(* closes the session it replaces; Session.Close tests the closed channel  *)
(* and closes it in two steps, and closing it twice would panic.           *)
(***************************************************************************)
EXTENDS Naturals

CONSTANTS
    Proxies,    \* enrolled identities
    Universal,  \* the ones enrolled with a universal token
    Machines,   \* machine fingerprints
    Conns,      \* connections, each with its handler and its session
    Nobody      \* no machine, no session, no proxy

ASSUME HubConstants ==
    /\ Universal \subseteq Proxies
    /\ Nobody \notin Proxies \cup Machines \cup Conns

VARIABLES
    enrolled,  \* rows of the table proxies
    bound,     \* proxies.fingerprint
    pc,        \* where each handler is
    proxy,     \* the proxy its token named
    seen,      \* the fingerprint LookupToken returned, until it has been compared
    machine,   \* the fingerprint the agent sent
    holders,   \* history: connections bound since their proxy's last rotation
    lost,      \* connections that are down
    lock,      \* the handler that holds Registry.mu
    sessions,  \* Registry.sessions
    closes     \* how often Session.closed has been closed

store == <<enrolled, bound>>
hello == <<proxy, seen, machine>>
registry == <<lock, sessions>>
vars == <<store, pc, hello, holders, lost, registry, closes>>

Stages == {"idle", "hello", "select", "update", "put", "check", "evict", "store",
           "serving", "remove", "bye", "close"}

\* The stages of Put under Registry.mu.
Locked == {"check", "evict", "store"}

----------------------------------------------------------------------------
Go(k, stage) == pc' = [pc EXCEPT ![k] = stage]

\* HandleConnect closes the connection and returns; its session is garbage.
Finish(k) ==
    /\ Go(k, "idle")
    /\ lost' = lost \cup {k}
    /\ proxy' = [proxy EXCEPT ![k] = Nobody]
    /\ seen' = [seen EXCEPT ![k] = Nobody]
    /\ machine' = [machine EXCEPT ![k] = Nobody]
    /\ holders' = holders \ {k}

Init ==
    /\ enrolled = {}
    /\ bound = [p \in Proxies |-> Nobody]
    /\ pc = [k \in Conns |-> "idle"]
    /\ proxy = [k \in Conns |-> Nobody]
    /\ seen = [k \in Conns |-> Nobody]
    /\ machine = [k \in Conns |-> Nobody]
    /\ holders = {}
    /\ lost = Conns
    /\ lock = Nobody
    /\ sessions = [p \in Proxies |-> Nobody]
    /\ closes = [k \in Conns |-> 0]

\* CreateProxy: a new id, so nothing refers to it yet.
CreateProxy(p) ==
    /\ p \notin enrolled /\ \A k \in Conns : proxy[k] # p
    /\ enrolled' = enrolled \cup {p}
    /\ UNCHANGED <<bound, pc, hello, holders, lost, registry, closes>>

\* DeleteProxy removes the row; a session of the proxy stays.
DeleteProxy(p) ==
    /\ p \in enrolled
    /\ enrolled' = enrolled \ {p}
    /\ bound' = [bound EXCEPT ![p] = Nobody]
    /\ holders' = {k \in holders : proxy[k] # p}
    /\ UNCHANGED <<pc, hello, lost, registry, closes>>

\* RotateProxyToken clears the fingerprint; a session of the old token stays.
RotateProxyToken(p) ==
    /\ p \in enrolled
    /\ bound' = [bound EXCEPT ![p] = Nobody]
    /\ holders' = {k \in holders : proxy[k] # p}
    /\ UNCHANGED <<enrolled, pc, hello, lost, registry, closes>>

\* A connection arrives with the current token of p: LookupToken.
Connect(k, p) ==
    /\ pc[k] = "idle" /\ p \in enrolled
    /\ Go(k, "hello")
    /\ proxy' = [proxy EXCEPT ![k] = p]
    /\ seen' = [seen EXCEPT ![k] = bound[p]]
    /\ lost' = lost \ {k}
    /\ closes' = [closes EXCEPT ![k] = 0]
    /\ UNCHANGED <<store, machine, holders, registry>>

\* The challenge is answered with the fingerprint of machine m.
Handshake(k, m) ==
    /\ pc[k] = "hello" /\ k \notin lost
    /\ proxy[k] \in Universal \/ seen[k] \in {Nobody, m}
    /\ Go(k, "select")
    /\ machine' = [machine EXCEPT ![k] = m]
    /\ seen' = [seen EXCEPT ![k] = Nobody]
    /\ UNCHANGED <<store, proxy, holders, lost, registry, closes>>

\* No answer within 20 seconds, a bad one, another machine's fingerprint, or
\* an error of the store.
Refuse(k) ==
    /\ pc[k] \in {"hello", "select", "update"}
    /\ Finish(k)
    /\ UNCHANGED <<store, registry, closes>>

\* BindFingerprint, its SELECT: another proxy has the fingerprint.
BoundElsewhere(k) == \E p \in enrolled \ {proxy[k]} : bound[p] = machine[k]

BindTaken(k) ==
    /\ pc[k] = "select" /\ BoundElsewhere(k)
    /\ Finish(k)
    /\ UNCHANGED <<store, registry, closes>>

BindSelect(k) ==
    /\ pc[k] = "select" /\ ~BoundElsewhere(k)
    /\ Go(k, "update")
    /\ UNCHANGED <<store, hello, holders, lost, registry, closes>>

\* Fault: the UPDATE trusts the fingerprint LookupToken had returned.
Updatable_Stale(k) == proxy[k] \in enrolled

\* The row that the WHERE of the UPDATE of BindFingerprint selects.
Updatable(k) == proxy[k] \in enrolled /\ bound[proxy[k]] \in {Nobody, machine[k]}

\* The UPDATE changed a row; the handler answers and makes the session.
BindUpdate(k) ==
    /\ pc[k] = "update" /\ Updatable(k)
    /\ bound' = [bound EXCEPT ![proxy[k]] = machine[k]]
    /\ holders' = holders \cup {k}
    /\ Go(k, "put")
    /\ UNCHANGED <<enrolled, hello, lost, registry, closes>>

\* The UPDATE changed no row.
BindMismatch(k) ==
    /\ pc[k] = "update" /\ ~Updatable(k)
    /\ Finish(k)
    /\ UNCHANGED <<store, registry, closes>>

----------------------------------------------------------------------------
(* Registry.Put *)

PutLock(k) ==
    /\ pc[k] = "put" /\ lock = Nobody
    /\ lock' = k
    /\ Go(k, "check")
    /\ UNCHANGED <<store, hello, holders, lost, sessions, closes>>

\* old.Close("replaced") finds the channel open, or there is nothing to close.
PutCheck(k) ==
    /\ pc[k] = "check"
    /\ LET old == sessions[proxy[k]]
       IN  Go(k, IF old \notin {Nobody, k} /\ closes[old] = 0 THEN "evict" ELSE "store")
    /\ UNCHANGED <<store, hello, holders, lost, registry, closes>>

\* Fault: only the connection is closed, calls on the old session keep waiting.
PutEvict_LeavesOpen(k) ==
    /\ pc[k] = "evict"
    /\ lost' = lost \cup {sessions[proxy[k]]}
    /\ Go(k, "store")
    /\ UNCHANGED <<store, hello, holders, registry, closes>>

\* It closes the channel and the connection of the old session.
PutEvict(k) ==
    /\ pc[k] = "evict"
    /\ LET old == sessions[proxy[k]]
       IN  /\ closes' = [closes EXCEPT ![old] = closes[old] + 1]
           /\ lost' = lost \cup {old}
    /\ Go(k, "store")
    /\ UNCHANGED <<store, hello, holders, registry>>

PutStore(k) ==
    /\ pc[k] = "store"
    /\ sessions' = [sessions EXCEPT ![proxy[k]] = k]
    /\ lock' = Nobody
    /\ Go(k, "serving")
    /\ UNCHANGED <<store, hello, holders, lost, closes>>

----------------------------------------------------------------------------
(* The end of a session *)

\* The agent or the network ends the connection, or sends what is no message.
LinkDown(k) ==
    /\ pc[k] # "idle" /\ k \notin lost
    /\ lost' = lost \cup {k}
    /\ UNCHANGED <<store, pc, hello, holders, registry, closes>>

\* Fault: the loop goes on reading after an error.
ReadError_Continue(k) == pc[k] = "serving" /\ k \in lost /\ UNCHANGED vars

\* wsjson.Read fails: the read loop returns and the deferred function runs.
ReadError(k) ==
    /\ pc[k] = "serving" /\ k \in lost
    /\ Go(k, "remove")
    /\ UNCHANGED <<store, hello, holders, lost, registry, closes>>

\* Fault: Remove deletes whatever session the proxy has now.
Remove_Any(k) ==
    /\ pc[k] = "remove" /\ lock = Nobody
    /\ sessions' = [sessions EXCEPT ![proxy[k]] = Nobody]
    /\ Go(k, "bye")
    /\ UNCHANGED <<store, hello, holders, lost, lock, closes>>

\* Registry.Remove deletes the session unless another one has replaced it.
Remove(k) ==
    /\ pc[k] = "remove" /\ lock = Nobody
    /\ sessions' = [sessions EXCEPT ![proxy[k]] = IF @ = k THEN Nobody ELSE @]
    /\ Go(k, "bye")
    /\ UNCHANGED <<store, hello, holders, lost, lock, closes>>

\* sess.Close("bye") finds the channel open.
ByeOpen(k) ==
    /\ pc[k] = "bye" /\ closes[k] = 0
    /\ Go(k, "close")
    /\ UNCHANGED <<store, hello, holders, lost, registry, closes>>

\* Fault: the handler closes the channel without looking.
ByeClosed_Blind(k) ==
    /\ pc[k] = "bye" /\ closes[k] # 0
    /\ Go(k, "close")
    /\ UNCHANGED <<store, hello, holders, lost, registry, closes>>

\* sess.Close("bye") finds it closed: the session had been replaced.
ByeClosed(k) ==
    /\ pc[k] = "bye" /\ closes[k] # 0
    /\ Finish(k)
    /\ UNCHANGED <<store, registry, closes>>

ByeClose(k) ==
    /\ pc[k] = "close"
    /\ closes' = [closes EXCEPT ![k] = closes[k] + 1]
    /\ Finish(k)
    /\ UNCHANGED <<store, registry>>

----------------------------------------------------------------------------
handleProxies == \E p \in Proxies : CreateProxy(p)

handleProxyID == \E p \in Proxies : DeleteProxy(p) \/ RotateProxyToken(p)

Agent(k) ==
    \/ \E p \in Proxies : Connect(k, p)
    \/ \E m \in Machines : Handshake(k, m)
    \/ Refuse(k) \/ LinkDown(k)

\* The steps of a handler that wait for nobody.
Handler(k) ==
    \/ BindTaken(k) \/ BindSelect(k) \/ BindUpdate(k) \/ BindMismatch(k)
    \/ PutCheck(k) \/ PutEvict(k) \/ PutStore(k)
    \/ ReadError(k) \/ ByeOpen(k) \/ ByeClosed(k) \/ ByeClose(k)

Next ==
    \/ handleProxies \/ handleProxyID
    \/ \E k \in Conns : Agent(k) \/ Handler(k) \/ PutLock(k) \/ Remove(k)

\* Goroutines run; sync.RWMutex starves no writer.
Fairness == \A k \in Conns : WF_vars(Handler(k)) /\ SF_vars(PutLock(k)) /\ SF_vars(Remove(k))

Spec == Init /\ [][Next]_vars /\ Fairness

----------------------------------------------------------------------------
(* Properties *)

TypeOK ==
    /\ enrolled \in SUBSET Proxies
    /\ bound \in [Proxies -> Machines \cup {Nobody}]
    /\ pc \in [Conns -> Stages]
    /\ proxy \in [Conns -> Proxies \cup {Nobody}]
    /\ seen \in [Conns -> Machines \cup {Nobody}]
    /\ machine \in [Conns -> Machines \cup {Nobody}]
    /\ holders \in SUBSET Conns
    /\ lost \in SUBSET Conns
    /\ lock \in Conns \cup {Nobody}
    /\ sessions \in [Proxies -> Conns \cup {Nobody}]
    /\ closes \in [Conns -> Nat]

\* Session.Close is called by the handler and by the Put that replaces the
\* session; whatever their order, the channel is closed once (no panic).
CloseOnce == \A k \in Conns : closes[k] <= 1

\* A session that is being served over a connection that is up is the one
\* Registry.Get finds: no other handler's Put or Remove hides it.
LiveIsReachable ==
    \A k \in Conns : pc[k] = "serving" /\ k \notin lost => sessions[proxy[k]] = k

\* A session that Registry.Get returns has not been closed, although Put
\* closes sessions that are registered.
FoundIsOpen ==
    lock = Nobody => \A p \in Proxies : sessions[p] # Nobody => closes[sessions[p]] = 0

\* Get, Call and FanOut of the registry reach the sessions that are up, and no
\* other: nobody waits on a session that is over.
RegistrySound == LiveIsReachable /\ FoundIsOpen

\* All connections that were bound with a proxy since its last rotation come
\* from one machine, the one in the store, also if two machines present the
\* token at the same time.
OneMachine == \A k \in holders : machine[k] = bound[proxy[k]]

\* The registry does what SessionRegistry promises.
Promise == INSTANCE SessionRegistry
             WITH Sessions <- Conns, owner <- sessions, over <- {k \in Conns : closes[k] # 0}
ImplementsRegistry == Promise!Spec

\* A session whose connection is down disappears from the registry.
LostLeaves ==
    \A k \in Conns : pc[k] = "serving" /\ k \in lost ~> \A p \in Proxies : sessions[p] # k
============================================================================
