----------------------------- MODULE HubProofs -----------------------------
(***************************************************************************)
(* Proofs about the hub: AgentHub, for any number of connections, proxies  *)
(* and machines, then ThreatShare, for any proxies, keys, lifetimes and    *)
(* limits.                                                                 *)
(***************************************************************************)
EXTENDS AgentHub, ThreatShare, FiniteSetTheorems, TLAPS

\* The stages before the session exists.
Early == {"hello", "select", "update"}

----------------------------------------------------------------------------
(* The inductive invariant *)

\* A handler knows its proxy; a bound connection knows its machine.
Named ==
    /\ \A k \in Conns : pc[k] # "idle" => proxy[k] \in Proxies
    /\ \A k \in Conns : pc[k] \notin {"idle", "hello"} => machine[k] \in Machines
    /\ \A k \in holders : pc[k] \notin Early \cup {"idle"}

\* The mutex is held by the one handler that is inside Put.
Mutex == \A k \in Conns : pc[k] \in Locked <=> lock = k

\* What is registered is a session of that proxy that has not yet left.
Registered ==
    \A p \in Proxies : sessions[p] # Nobody =>
        pc[sessions[p]] \in {"serving", "remove"} /\ proxy[sessions[p]] = p

\* A session is registered until its handler removes it or it has been closed.
Held ==
    \A k \in Conns : pc[k] \in {"serving", "remove"} => sessions[proxy[k]] = k \/ closes[k] # 0

\* Closed sessions have lost their connection, and so have handlers on their way out.
Down ==
    \A k \in Conns : closes[k] # 0 \/ pc[k] \in {"remove", "bye", "close"} => k \in lost

\* A session is closed at most once, and not before it is registered.
Closed ==
    \A k \in Conns : /\ closes[k] \in {0, 1}
                     /\ pc[k] \in Early \cup Locked \cup {"put", "close"} => closes[k] = 0

\* The handler inside Put closes an open session, and stores its own only
\* over a closed one.
Replacing ==
    \A k \in Conns :
        /\ pc[k] = "evict" => /\ sessions[proxy[k]] # Nobody
                              /\ closes[sessions[proxy[k]]] = 0
        /\ pc[k] = "store" => \/ sessions[proxy[k]] = Nobody
                              \/ closes[sessions[proxy[k]]] # 0

\* A closed session is registered only while its successor is about to be stored.
OpenOrReplaced ==
    \A p \in Proxies : sessions[p] # Nobody /\ closes[sessions[p]] # 0 =>
        \E k \in Conns : lock = k /\ pc[k] = "store" /\ proxy[k] = p

Inv == /\ TypeOK /\ Named /\ Mutex /\ Registered /\ Held /\ Down /\ Closed
       /\ Replacing /\ OpenOrReplaced /\ OneMachine

\* An empty hub satisfies it.
LEMMA InitInv == Init => Inv
BY HubConstants DEF Init, Inv, TypeOK, Named, Mutex, Registered, Held, Down, Closed, Replacing,
   OpenOrReplaced, OneMachine, Stages, Early, Locked

----------------------------------------------------------------------------
(* One lemma per action *)

\* A new row changes nothing the handlers rely on.
LEMMA CreateProxyInv ==
    ASSUME Inv, NEW p \in Proxies, CreateProxy(p)
    PROVE  Inv'
<1> USE DEF CreateProxy, store, hello, registry
<1>1. TypeOK'  BY DEF Inv, TypeOK
<1>2. Named' /\ OneMachine'  BY DEF Inv, Named, OneMachine
<1>3. Mutex'  BY DEF Inv, Mutex
<1>4. Registered' /\ Held'  BY DEF Inv, Registered, Held
<1>5. Down' /\ Closed'  BY DEF Inv, Down, Closed
<1>6. Replacing' /\ OpenOrReplaced'  BY DEF Inv, Replacing, OpenOrReplaced
<1> QED  BY <1>1, <1>2, <1>3, <1>4, <1>5, <1>6 DEF Inv

\* The connections bound to a deleted proxy no longer count as holders.
LEMMA DeleteProxyInv ==
    ASSUME Inv, NEW p \in Proxies, DeleteProxy(p)
    PROVE  Inv'
<1> USE DEF DeleteProxy, store, hello, registry
<1>1. TypeOK'  BY DEF Inv, TypeOK
<1>2. Named' /\ OneMachine'  BY DEF Inv, Named, OneMachine
<1>3. Mutex'  BY DEF Inv, Mutex
<1>4. Registered' /\ Held'  BY DEF Inv, Registered, Held
<1>5. Down' /\ Closed'  BY DEF Inv, Down, Closed
<1>6. Replacing' /\ OpenOrReplaced'  BY DEF Inv, Replacing, OpenOrReplaced
<1> QED  BY <1>1, <1>2, <1>3, <1>4, <1>5, <1>6 DEF Inv

\* Rotation clears the fingerprint and the holders together.
LEMMA RotateProxyTokenInv ==
    ASSUME Inv, NEW p \in Proxies, RotateProxyToken(p)
    PROVE  Inv'
<1> USE DEF RotateProxyToken, store, hello, registry
<1>1. TypeOK'  BY DEF Inv, TypeOK
<1>2. Named' /\ OneMachine'  BY DEF Inv, Named, OneMachine
<1>3. Mutex'  BY DEF Inv, Mutex
<1>4. Registered' /\ Held'  BY DEF Inv, Registered, Held
<1>5. Down' /\ Closed'  BY DEF Inv, Down, Closed
<1>6. Replacing' /\ OpenOrReplaced'  BY DEF Inv, Replacing, OpenOrReplaced
<1> QED  BY <1>1, <1>2, <1>3, <1>4, <1>5, <1>6 DEF Inv

\* A new connection takes a name that no registry entry refers to.
LEMMA ConnectInv ==
    ASSUME Inv, NEW k \in Conns, NEW p \in Proxies, Connect(k, p)
    PROVE  Inv'
<1> USE DEF Connect, store, hello, registry, Go
<1>1. TypeOK'  BY DEF Inv, TypeOK, Stages
<1>2. Named' /\ OneMachine'  BY DEF Inv, TypeOK, Named, OneMachine
<1>3. Mutex'  BY DEF Inv, Mutex, Locked
<1>4. Registered' /\ Held'  BY DEF Inv, Registered, Held
<1>5. Down' /\ Closed'  BY DEF Inv, TypeOK, Down, Closed
<1>6. Replacing' /\ OpenOrReplaced'
  BY DEF Inv, Named, Registered, Replacing, OpenOrReplaced
<1> QED  BY <1>1, <1>2, <1>3, <1>4, <1>5, <1>6 DEF Inv

\* The handshake fixes the machine.
LEMMA HandshakeInv ==
    ASSUME Inv, NEW k \in Conns, NEW m \in Machines, Handshake(k, m)
    PROVE  Inv'
<1> USE DEF Handshake, store, hello, registry, Go
<1>1. TypeOK'  BY DEF Inv, TypeOK, Stages
<1>2. Named' /\ OneMachine'  BY DEF Inv, TypeOK, Named, OneMachine, Early
<1>3. Mutex'  BY DEF Inv, Mutex, Locked
<1>4. Registered' /\ Held'  BY DEF Inv, Registered, Held
<1>5. Down' /\ Closed'  BY DEF Inv, Down, Closed
<1>6. Replacing' /\ OpenOrReplaced'  BY DEF Inv, Replacing, OpenOrReplaced
<1> QED  BY <1>1, <1>2, <1>3, <1>4, <1>5, <1>6 DEF Inv

\* A refused connection was not registered.
LEMMA RefuseInv ==
    ASSUME Inv, NEW k \in Conns, Refuse(k)
    PROVE  Inv'
<1> USE DEF Refuse, store, hello, registry, Go, Finish
<1>1. TypeOK'  BY DEF Inv, TypeOK, Stages
<1>2. Named' /\ OneMachine'  BY DEF Inv, TypeOK, Named, OneMachine
<1>3. Mutex'  BY DEF Inv, Mutex, Locked
<1>4. Registered' /\ Held'  BY DEF Inv, Registered, Held
<1>5. Down' /\ Closed'  BY DEF Inv, Down, Closed, Early
<1>6. Replacing' /\ OpenOrReplaced'  BY DEF Inv, Replacing, OpenOrReplaced
<1> QED  BY <1>1, <1>2, <1>3, <1>4, <1>5, <1>6 DEF Inv

\* The same, when the SELECT finds the fingerprint elsewhere.
LEMMA BindTakenInv ==
    ASSUME Inv, NEW k \in Conns, BindTaken(k)
    PROVE  Inv'
<1> USE DEF BindTaken, store, hello, registry, Go, Finish
<1>1. TypeOK'  BY DEF Inv, TypeOK, Stages
<1>2. Named' /\ OneMachine'  BY DEF Inv, TypeOK, Named, OneMachine
<1>3. Mutex'  BY DEF Inv, Mutex, Locked
<1>4. Registered' /\ Held'  BY DEF Inv, Registered, Held
<1>5. Down' /\ Closed'  BY DEF Inv, Down, Closed, Early
<1>6. Replacing' /\ OpenOrReplaced'  BY DEF Inv, Replacing, OpenOrReplaced
<1> QED  BY <1>1, <1>2, <1>3, <1>4, <1>5, <1>6 DEF Inv

\* The SELECT only lets the handler go on.
LEMMA BindSelectInv ==
    ASSUME Inv, NEW k \in Conns, BindSelect(k)
    PROVE  Inv'
<1> USE DEF BindSelect, store, hello, registry, Go
<1>1. TypeOK'  BY DEF Inv, TypeOK, Stages
<1>2. Named' /\ OneMachine'  BY DEF Inv, Named, OneMachine, Early
<1>3. Mutex'  BY DEF Inv, Mutex, Locked
<1>4. Registered' /\ Held'  BY DEF Inv, Registered, Held
<1>5. Down' /\ Closed'  BY DEF Inv, Down, Closed, Early
<1>6. Replacing' /\ OpenOrReplaced'  BY DEF Inv, Replacing, OpenOrReplaced
<1> QED  BY <1>1, <1>2, <1>3, <1>4, <1>5, <1>6 DEF Inv

\* The WHERE of the UPDATE keeps all holders on one machine.
LEMMA BindUpdateInv ==
    ASSUME Inv, NEW k \in Conns, BindUpdate(k)
    PROVE  Inv'
<1> USE DEF BindUpdate, store, hello, registry, Go, Updatable
<1>1. TypeOK'  BY DEF Inv, TypeOK, Stages
<1>2. Named' /\ OneMachine'  BY HubConstants DEF Inv, TypeOK, Named, OneMachine, Early
<1>3. Mutex'  BY DEF Inv, Mutex, Locked
<1>4. Registered' /\ Held'  BY DEF Inv, Registered, Held
<1>5. Down' /\ Closed'  BY DEF Inv, Down, Closed, Early
<1>6. Replacing' /\ OpenOrReplaced'  BY DEF Inv, Replacing, OpenOrReplaced
<1> QED  BY <1>1, <1>2, <1>3, <1>4, <1>5, <1>6 DEF Inv

\* An UPDATE that changes no row ends the handler.
LEMMA BindMismatchInv ==
    ASSUME Inv, NEW k \in Conns, BindMismatch(k)
    PROVE  Inv'
<1> USE DEF BindMismatch, store, hello, registry, Go, Finish
<1>1. TypeOK'  BY DEF Inv, TypeOK, Stages
<1>2. Named' /\ OneMachine'  BY DEF Inv, TypeOK, Named, OneMachine
<1>3. Mutex'  BY DEF Inv, Mutex, Locked
<1>4. Registered' /\ Held'  BY DEF Inv, Registered, Held
<1>5. Down' /\ Closed'  BY DEF Inv, Down, Closed, Early
<1>6. Replacing' /\ OpenOrReplaced'  BY DEF Inv, Replacing, OpenOrReplaced
<1> QED  BY <1>1, <1>2, <1>3, <1>4, <1>5, <1>6 DEF Inv

\* The mutex is taken when no handler is inside Put.
LEMMA PutLockInv ==
    ASSUME Inv, NEW k \in Conns, PutLock(k)
    PROVE  Inv'
<1> USE DEF PutLock, store, hello, registry, Go
<1>1. TypeOK'  BY DEF Inv, TypeOK, Stages
<1>2. Named' /\ OneMachine'  BY DEF Inv, Named, OneMachine, Early
<1>3. Mutex'  BY HubConstants DEF Inv, TypeOK, Mutex, Locked
<1>4. Registered' /\ Held'  BY DEF Inv, Registered, Held
<1>5. Down' /\ Closed'  BY DEF Inv, Down, Closed
<1>6. Replacing' /\ OpenOrReplaced'  BY HubConstants DEF Inv, Replacing, OpenOrReplaced
<1> QED  BY <1>1, <1>2, <1>3, <1>4, <1>5, <1>6 DEF Inv

\* Put looks at the session it is about to replace.
LEMMA PutCheckInv ==
    ASSUME Inv, NEW k \in Conns, PutCheck(k)
    PROVE  Inv'
<1> USE DEF PutCheck, store, hello, registry, Go
<1>1. TypeOK'  BY DEF Inv, TypeOK, Stages
<1>2. Named' /\ OneMachine'  BY DEF Inv, Named, OneMachine, Early
<1>3. Mutex'  BY DEF Inv, Mutex, Locked
<1>4. Registered' /\ Held'  BY DEF Inv, Registered, Held
<1>5. Down' /\ Closed'  BY DEF Inv, Down, Closed, Locked
<1>6. Replacing' /\ OpenOrReplaced'
  BY DEF Inv, Named, Registered, Replacing, OpenOrReplaced
<1> QED  BY <1>1, <1>2, <1>3, <1>4, <1>5, <1>6 DEF Inv

\* Put closes an open session, which stays registered until the next step.
LEMMA PutEvictInv ==
    ASSUME Inv, NEW k \in Conns, PutEvict(k)
    PROVE  Inv'
<1> USE DEF PutEvict, store, hello, registry, Go
<1>1. TypeOK'  BY DEF Inv, TypeOK, Stages, Named, Replacing
<1>2. Named' /\ OneMachine'  BY DEF Inv, Named, OneMachine, Early
<1>3. Mutex'  BY DEF Inv, Mutex, Locked
<1>4. Registered' /\ Held'  BY DEF Inv, TypeOK, Registered, Held
<1>5. Down' /\ Closed'
  BY DEF Inv, Named, Registered, Replacing, Down, Closed, Early, Locked
<1>6. Replacing' /\ OpenOrReplaced'
  BY DEF Inv, TypeOK, Named, Mutex, Registered, Replacing, OpenOrReplaced, Locked
<1> QED  BY <1>1, <1>2, <1>3, <1>4, <1>5, <1>6 DEF Inv

\* Put stores its session over nothing or over a closed one.
LEMMA PutStoreInv ==
    ASSUME Inv, NEW k \in Conns, PutStore(k)
    PROVE  Inv'
<1> USE DEF PutStore, store, hello, registry, Go
<1>1. TypeOK'  BY DEF Inv, TypeOK, Stages
<1>2. Named' /\ OneMachine'  BY DEF Inv, Named, OneMachine, Early
<1>3. Mutex'  BY HubConstants DEF Inv, TypeOK, Mutex, Locked
<1>4. Registered' /\ Held'
  BY HubConstants DEF Inv, TypeOK, Named, Registered, Held, Replacing
<1>5. Down' /\ Closed'  BY DEF Inv, Down, Closed, Locked
<1>6. Replacing' /\ OpenOrReplaced'
  BY DEF Inv, TypeOK, Mutex, Replacing, OpenOrReplaced, Closed, Locked
<1> QED  BY <1>1, <1>2, <1>3, <1>4, <1>5, <1>6 DEF Inv

\* A connection may drop at any time.
LEMMA LinkDownInv ==
    ASSUME Inv, NEW k \in Conns, LinkDown(k)
    PROVE  Inv'
<1> USE DEF LinkDown, store, hello, registry
<1>1. TypeOK'  BY DEF Inv, TypeOK
<1>2. Named' /\ OneMachine'  BY DEF Inv, Named, OneMachine
<1>3. Mutex'  BY DEF Inv, Mutex
<1>4. Registered' /\ Held'  BY DEF Inv, Registered, Held
<1>5. Down' /\ Closed'  BY DEF Inv, Down, Closed
<1>6. Replacing' /\ OpenOrReplaced'  BY DEF Inv, Replacing, OpenOrReplaced
<1> QED  BY <1>1, <1>2, <1>3, <1>4, <1>5, <1>6 DEF Inv

\* A handler leaves its loop after its connection is down.
LEMMA ReadErrorInv ==
    ASSUME Inv, NEW k \in Conns, ReadError(k)
    PROVE  Inv'
<1> USE DEF ReadError, store, hello, registry, Go
<1>1. TypeOK'  BY DEF Inv, TypeOK, Stages
<1>2. Named' /\ OneMachine'  BY DEF Inv, Named, OneMachine, Early
<1>3. Mutex'  BY DEF Inv, Mutex, Locked
<1>4. Registered' /\ Held'  BY DEF Inv, Registered, Held
<1>5. Down' /\ Closed'  BY DEF Inv, Down, Closed, Early, Locked
<1>6. Replacing' /\ OpenOrReplaced'  BY DEF Inv, Replacing, OpenOrReplaced
<1> QED  BY <1>1, <1>2, <1>3, <1>4, <1>5, <1>6 DEF Inv

\* Remove deletes the handler's own session and no other.
LEMMA RemoveInv ==
    ASSUME Inv, NEW k \in Conns, Remove(k)
    PROVE  Inv'
<1> USE DEF Remove, store, hello, registry, Go
<1>1. TypeOK'  BY DEF Inv, TypeOK, Stages
<1>2. Named' /\ OneMachine'  BY DEF Inv, Named, OneMachine, Early
<1>3. Mutex'  BY DEF Inv, Mutex, Locked
<1>4. Registered' /\ Held'  BY DEF Inv, TypeOK, Registered, Held
<1>5. Down' /\ Closed'  BY DEF Inv, Down, Closed, Early, Locked
<1>6. Replacing' /\ OpenOrReplaced'
  BY HubConstants DEF Inv, Mutex, Replacing, OpenOrReplaced, Locked
<1> QED  BY <1>1, <1>2, <1>3, <1>4, <1>5, <1>6 DEF Inv

\* The handler is about to close its session, which no Put can find any more.
LEMMA ByeOpenInv ==
    ASSUME Inv, NEW k \in Conns, ByeOpen(k)
    PROVE  Inv'
<1> USE DEF ByeOpen, store, hello, registry, Go
<1>1. TypeOK'  BY DEF Inv, TypeOK, Stages
<1>2. Named' /\ OneMachine'  BY DEF Inv, Named, OneMachine, Early
<1>3. Mutex'  BY DEF Inv, Mutex, Locked
<1>4. Registered' /\ Held'  BY DEF Inv, Registered, Held
<1>5. Down' /\ Closed'  BY DEF Inv, Down, Closed
<1>6. Replacing' /\ OpenOrReplaced'  BY DEF Inv, Replacing, OpenOrReplaced
<1> QED  BY <1>1, <1>2, <1>3, <1>4, <1>5, <1>6 DEF Inv

\* A session that was replaced is not closed again.
LEMMA ByeClosedInv ==
    ASSUME Inv, NEW k \in Conns, ByeClosed(k)
    PROVE  Inv'
<1> USE DEF ByeClosed, store, hello, registry, Go, Finish
<1>1. TypeOK'  BY DEF Inv, TypeOK, Stages
<1>2. Named' /\ OneMachine'  BY DEF Inv, TypeOK, Named, OneMachine
<1>3. Mutex'  BY DEF Inv, Mutex, Locked
<1>4. Registered' /\ Held'  BY DEF Inv, Registered, Held
<1>5. Down' /\ Closed'  BY DEF Inv, Down, Closed, Early, Locked
<1>6. Replacing' /\ OpenOrReplaced'  BY DEF Inv, Replacing, OpenOrReplaced
<1> QED  BY <1>1, <1>2, <1>3, <1>4, <1>5, <1>6 DEF Inv

\* The handler closes its session.
LEMMA ByeCloseInv ==
    ASSUME Inv, NEW k \in Conns, ByeClose(k)
    PROVE  Inv'
<1> USE DEF ByeClose, store, hello, registry, Go, Finish
<1>1. TypeOK'  BY DEF Inv, TypeOK, Stages
<1>2. Named' /\ OneMachine'  BY DEF Inv, TypeOK, Named, OneMachine
<1>3. Mutex'  BY DEF Inv, Mutex, Locked
<1>4. Registered' /\ Held'  BY DEF Inv, Registered, Held
<1>5. Down' /\ Closed'  BY DEF Inv, TypeOK, Down, Closed, Early, Locked
<1>6. Replacing' /\ OpenOrReplaced'
  BY DEF Inv, Named, Registered, Replacing, OpenOrReplaced
<1> QED  BY <1>1, <1>2, <1>3, <1>4, <1>5, <1>6 DEF Inv

----------------------------------------------------------------------------
(* Theorems *)

\* Every step of the hub preserves the invariant.
LEMMA NextInv == ASSUME Inv, [Next]_vars PROVE Inv'
<1>1. CASE UNCHANGED vars
  BY <1>1 DEF vars, store, hello, registry, Inv, TypeOK, Named, Mutex, Registered, Held, Down,
     Closed, Replacing, OpenOrReplaced, OneMachine
<1>2. CASE handleProxies \/ handleProxyID
  BY <1>2, CreateProxyInv, DeleteProxyInv, RotateProxyTokenInv DEF handleProxies, handleProxyID
<1>3. ASSUME NEW k \in Conns, Agent(k) PROVE Inv'
  BY <1>3, ConnectInv, HandshakeInv, RefuseInv, LinkDownInv DEF Agent
<1>4. ASSUME NEW k \in Conns, Handler(k) PROVE Inv'
  BY <1>4, BindTakenInv, BindSelectInv, BindUpdateInv, BindMismatchInv, PutCheckInv, PutEvictInv,
     PutStoreInv, ReadErrorInv, ByeOpenInv, ByeClosedInv, ByeCloseInv DEF Handler
<1>5. ASSUME NEW k \in Conns, PutLock(k) \/ Remove(k) PROVE Inv'
  BY <1>5, PutLockInv, RemoveInv
<1> QED  BY <1>1, <1>2, <1>3, <1>4, <1>5 DEF Next

\* The invariant holds in every state the hub reaches.
THEOREM Invariant == Spec => []Inv
<1>1. Inv /\ [Next]_vars => Inv'
  BY NextInv
<1> QED  BY InitInv, <1>1, PTL DEF Spec

\* Every variable of the hub has its type.
THEOREM TypeCorrect == Spec => []TypeOK
<1>1. Inv => TypeOK
  BY DEF Inv
<1> QED  BY Invariant, <1>1, PTL

\* Session.Close closes the channel of a session once: no panic.
THEOREM SessionsCloseOnce == Spec => []CloseOnce
<1>1. Inv => CloseOnce
  BY DEF Inv, Closed, CloseOnce
<1> QED  BY Invariant, <1>1, PTL

\* Registry.Get finds the session of a proxy whose connection is up.
THEOREM LiveSessionsAreReachable == Spec => []LiveIsReachable
<1>1. Inv => LiveIsReachable
  BY DEF Inv, Held, Down, LiveIsReachable
<1> QED  BY Invariant, <1>1, PTL

\* Registry.Get returns no session that Put or a handler has closed.
THEOREM FoundSessionsAreOpen == Spec => []FoundIsOpen
<1>1. Inv => FoundIsOpen
  BY HubConstants DEF Inv, OpenOrReplaced, FoundIsOpen
<1> QED  BY Invariant, <1>1, PTL

\* What the registry returns is exactly what is up.
THEOREM RegistryIsSound == Spec => []RegistrySound
<1>1. LiveIsReachable /\ FoundIsOpen => RegistrySound
  BY DEF RegistrySound
<1> QED  BY LiveSessionsAreReachable, FoundSessionsAreOpen, <1>1, PTL

\* BindFingerprint admits one machine per token.
THEOREM OneMachinePerToken == Spec => []OneMachine
<1>1. Inv => OneMachine
  BY DEF Inv
<1> QED  BY Invariant, <1>1, PTL

----------------------------------------------------------------------------
(* The refinement *)

\* The sessions that are closed, as SessionRegistry sees them.
Over == {k \in Conns : closes[k] # 0}

\* A connection that ends before its session, or after it, is only lost.
LEMMA FinishIsLose ==
    ASSUME NEW k \in Conns, Finish(k), UNCHANGED <<sessions, closes>>
    PROVE  Promise!Next
<1>1. Promise!Lose(k)
  BY DEF Promise!Lose, Finish
<1> QED  BY <1>1 DEF Promise!Next

\* Connect starts a session under a name that is not registered.
LEMMA ConnectIsRenew ==
    ASSUME Inv, NEW k \in Conns, NEW p \in Proxies, Connect(k, p)
    PROVE  Promise!Next
<1>1. \A q \in Proxies : sessions[q] # k
  BY HubConstants DEF Inv, TypeOK, Registered, Connect
<1>2. Over' = Over \ {k}
  BY DEF Inv, TypeOK, Over, Connect
<1>3. Promise!Renew(k)
  BY <1>1, <1>2 DEF Promise!Renew, Promise!Registered, Over, Connect, registry
<1> QED  BY <1>3 DEF Promise!Next

\* Put closes the session it replaces.
LEMMA EvictIsClose ==
    ASSUME Inv, NEW k \in Conns, PutEvict(k)
    PROVE  Promise!Next
<1>1. PICK old \in Conns : old = sessions[proxy[k]] /\ closes[old] = 0
  BY DEF Inv, TypeOK, Named, Replacing, PutEvict
<1>2. Over' = Over \cup {old}
  BY <1>1 DEF Inv, TypeOK, Over, PutEvict
<1>3. Promise!Close(old)
  BY <1>1, <1>2 DEF Promise!Close, Over, PutEvict, registry
<1> QED  BY <1>3 DEF Promise!Next

\* Put stores its session where there is none, or a closed one.
LEMMA StoreIsJoin ==
    ASSUME Inv, NEW k \in Conns, PutStore(k)
    PROVE  Promise!Next
<1>1. proxy[k] \in Proxies
  BY DEF Inv, Named, PutStore
<1>2. sessions[proxy[k]] \in Over \cup {Nobody}
  BY <1>1 DEF Inv, TypeOK, Replacing, Over, PutStore
<1>3. closes[k] = 0 /\ \A q \in Proxies : sessions[q] # k
  BY HubConstants DEF Inv, TypeOK, Registered, Closed, Locked, PutStore
<1>4. Promise!Join(proxy[k], k)
  BY <1>2, <1>3 DEF Promise!Join, Promise!Registered, Over, PutStore
<1> QED  BY <1>1, <1>4 DEF Promise!Next

\* Remove takes out a session whose connection is down, or does nothing.
LEMMA RemoveIsLeave ==
    ASSUME Inv, NEW k \in Conns, Remove(k)
    PROVE  [Promise!Next]_(Promise!vars)
<1>1. proxy[k] \in Proxies /\ k \in lost
  BY DEF Inv, Named, Down, Remove
<1>2. CASE sessions[proxy[k]] = k
  <2>1. Promise!Leave(proxy[k])
    BY <1>1, <1>2 DEF Promise!Leave, Remove
  <2> QED  BY <1>1, <2>1 DEF Promise!Next
<1>3. CASE sessions[proxy[k]] # k
  <2>1. sessions' = sessions
    BY <1>1, <1>3 DEF Inv, TypeOK, Remove
  <2> QED  BY <2>1 DEF Promise!vars, Remove
<1> QED  BY <1>2, <1>3

\* A handler that was not replaced closes its own session.
LEMMA ByeIsClose ==
    ASSUME Inv, NEW k \in Conns, ByeClose(k)
    PROVE  Promise!Next
<1>1. closes[k] = 0
  BY DEF Inv, Closed, ByeClose
<1>2. Over' = Over \cup {k}
  BY <1>1 DEF Inv, TypeOK, Over, ByeClose
<1>3. Promise!Close(k)
  BY <1>1, <1>2 DEF Promise!Close, Over, ByeClose, Finish, registry
<1> QED  BY <1>3 DEF Promise!Next

\* Every step of the hub is a step of the abstract registry or none at all.
LEMMA StepRefines == ASSUME Inv, [Next]_vars PROVE [Promise!Next]_(Promise!vars)
<1>1. CASE UNCHANGED <<sessions, closes, lost>>
  BY <1>1 DEF Promise!vars
<1>2. CASE handleProxies \/ handleProxyID
  BY <1>1, <1>2 DEF handleProxies, handleProxyID, CreateProxy, DeleteProxy, RotateProxyToken, registry
<1>3. ASSUME NEW k \in Conns, Agent(k) PROVE [Promise!Next]_(Promise!vars)
  <2>1. CASE \E p \in Proxies : Connect(k, p)
    BY <2>1, ConnectIsRenew
  <2>2. CASE \E m \in Machines : Handshake(k, m)
    BY <1>1, <2>2 DEF Handshake, registry
  <2>3. CASE Refuse(k)
    BY <2>3, FinishIsLose DEF Refuse, registry
  <2>4. CASE LinkDown(k)
    <3>1. Promise!Lose(k)
      BY <2>4 DEF Promise!Lose, LinkDown, registry
    <3> QED  BY <3>1 DEF Promise!Next
  <2> QED  BY <1>3, <2>1, <2>2, <2>3, <2>4 DEF Agent
<1>4. ASSUME NEW k \in Conns, Handler(k) PROVE [Promise!Next]_(Promise!vars)
  <2>1. CASE BindTaken(k) \/ BindMismatch(k) \/ ByeClosed(k)
    BY <2>1, FinishIsLose DEF BindTaken, BindMismatch, ByeClosed, registry
  <2>2. CASE BindSelect(k) \/ BindUpdate(k) \/ PutCheck(k) \/ ReadError(k) \/ ByeOpen(k)
    BY <1>1, <2>2 DEF BindSelect, BindUpdate, PutCheck, ReadError, ByeOpen, registry
  <2>3. CASE PutEvict(k) \/ PutStore(k) \/ ByeClose(k)
    BY <2>3, EvictIsClose, StoreIsJoin, ByeIsClose
  <2> QED  BY <1>4, <2>1, <2>2, <2>3 DEF Handler
<1>5. ASSUME NEW k \in Conns, PutLock(k) PROVE [Promise!Next]_(Promise!vars)
  BY <1>1, <1>5 DEF PutLock
<1>6. ASSUME NEW k \in Conns, Remove(k) PROVE [Promise!Next]_(Promise!vars)
  BY <1>6, RemoveIsLeave
<1>7. CASE UNCHANGED vars
  BY <1>1, <1>7 DEF vars, registry
<1> QED  BY <1>2, <1>3, <1>4, <1>5, <1>6, <1>7 DEF Next

\* The hub, with its locks and goroutines, does what SessionRegistry promises:
\* one session per proxy, displaced only after it is closed, dropped only
\* after its connection is down.
THEOREM HubImplementsRegistry == Spec => ImplementsRegistry
<1>1. Init => Promise!Init
  BY DEF Init, Promise!Init
<1>2. Inv /\ [Next]_vars => [Promise!Next]_(Promise!vars)
  BY StepRefines
<1> QED  BY Invariant, <1>1, <1>2, PTL DEF Spec, ImplementsRegistry, Promise!Spec

----------------------------------------------------------------------------
(* ThreatShare: the inductive invariant *)
Entry == [rev : Nat, key : Keys, exp : Nat, src : Peers \cup {Hub}]
Item == [key : Keys, exp : Nat]

ShareTyped ==
    /\ now \in Nat /\ rev \in Nat
    /\ rows \in SUBSET Entry /\ IsFiniteSet(rows)
    /\ stored \in SUBSET [src : Peers \cup {Hub}, es : SUBSET Entry]
    /\ calls \in SUBSET [to : Peers, es : SUBSET Entry]
    /\ wire \in SUBSET [to : Peers, es : SUBSET Entry, put : SUBSET Entry]
    /\ reports \in SUBSET [src : Peers, es : Seq(Item)]
    /\ link \in [Peers -> {"down", "hello", "up"}] /\ registered \in SUBSET Peers
    /\ pull \in [Peers -> {"none", "sent", "done", "failed"}]
    /\ queue \in [Peers -> Seq(Item)] /\ applied \in [Peers -> SUBSET Nat]
    /\ until \in [Peers -> [Keys -> Nat]] /\ protect \in [Peers -> BOOLEAN] /\ skipped \in [Peers -> SUBSET Nat]
    /\ short \in [Peers -> SUBSET Keys] /\ lifted \in [Peers -> [Keys -> SUBSET Nat]]

(* An entry in the ledger or on its way.                                    *)
Around(e) ==
    \/ e \in rows
    \/ \E b \in stored : e \in b.es
    \/ \E c \in calls : e \in c.es
    \/ \E c \in wire : e \in c.es \cup c.put

(* A revision names one entry, and no revision is ahead of the ledger's.    *)
Numbered ==
    /\ \A e \in Entry : Around(e) => 1 <= e.rev /\ e.rev <= rev
    /\ \A e, f \in Entry : Around(e) /\ Around(f) /\ e.rev = f.rev => e = f
    /\ \A p \in Peers : \A n \in applied[p] : n <= rev

(* A batch is not sent to where it came from, and a connection that is up is
   one FanOut finds.                                                        *)
Routed ==
    /\ \A b \in stored : \A e \in b.es : e.src = b.src
    /\ \A c \in wire : \A e, f \in c.put : e = f
    /\ \A p \in Peers : (link[p] = "up" => p \in registered) /\ (pull[p] = "done" => link[p] = "up")

(* The ban of e is in force at p, a later write cut it short, or e was
   skipped for one of the reasons of the code.                              *)
Lasts(p, e) == until[p][e.key] >= e.exp \/ e.key \in short[p] \/ e.rev \in skipped[p]

(* p is about to write the ban of e.                                        *)
Writing(p, e) == \E c \in wire : c.to = p /\ e \in c.put

(* An entry that p remembers is in force, about to be, or was refused after
   it was remembered.                                                       *)
Kept == \A p \in Peers, e \in rows : e.rev \in applied[p] /\ e.exp > now => Lasts(p, e) \/ Writing(p, e)

(* What was lifted is remembered and not about to be written again.         *)
Lifts ==
    \A p \in Peers, k \in Keys :
        /\ lifted[p][k] \subseteq applied[p]
        /\ \A e \in Entry : Writing(p, e) => e.rev \notin lifted[p][k]

ShareInv == ShareTyped /\ Numbered /\ Routed /\ Kept /\ Covered /\ Lifts

(* A connection whose pull was answered.                                    *)
Caught(p) == link[p] = "up" /\ pull[p] = "done"

\* The fields of an entry and of what carries entries.
LEMMA EntryFields ==
    ASSUME NEW e \in Entry
    PROVE  e.rev \in Nat /\ e.key \in Keys /\ e.exp \in Nat /\ e.src \in Peers \cup {Hub}
  BY DEF Entry

\* The constants that are numbers.
LEMMA Numbers ==
    /\ ReportTTL \in Nat /\ ListMax \in Nat /\ ListDefault \in Nat /\ FeedSlack \in Nat /\ FeedLen \in Nat
    /\ \A t \in TTLs : t \in Nat
    /\ \A t \in BanTTLs : t \in Nat
<1>1. {ReportTTL, QueueMax, SeenMax, LedgerMax, PullLimit, ListMax, ListDefault, FeedSlack,
       FeedLen, MaxRev, MaxNow, MaxEvents} \subseteq Nat
  BY ShareAssumption
<1>2. TTLs \subseteq Nat /\ BanTTLs \subseteq Nat
  BY ShareAssumption
<1> QED BY <1>1, <1>2

\* What the batches, calls and requests on their way carry are entries.
LEMMA Carriers ==
    ASSUME ShareTyped
    PROVE  /\ \A b \in stored : b.src \in Peers \cup {Hub} /\ b.es \in SUBSET Entry
           /\ \A c \in calls : c.to \in Peers /\ c.es \in SUBSET Entry
           /\ \A c \in wire : c.to \in Peers /\ c.es \in SUBSET Entry /\ c.put \in SUBSET Entry
           /\ \A r \in reports : r.src \in Peers /\ r.es \in Seq(Item)
  BY DEF ShareTyped

(* A step that stores nothing new, remembers nothing new and catches nobody
   up: what it drops from the way is in force.                              *)
LEMMA Frame ==
    ASSUME ShareInv, ShareTyped', Routed', Lifts', rows' \subseteq rows, rev' = rev, now' >= now,
           \A e \in Entry : Around(e)' => Around(e),
           \A p \in Peers : applied'[p] \subseteq applied[p],
           \A p \in Peers, e \in rows' :
               /\ Lasts(p, e) /\ e.exp > now' => Lasts(p, e)' \/ (applied'[p] = {} /\ link'[p] # "up")
               /\ Writing(p, e) /\ e.exp > now' =>
                    Lasts(p, e)' \/ Writing(p, e)' \/ (applied'[p] = {} /\ link'[p] # "up")
               /\ Coming(p, e) /\ link'[p] = "up" /\ e.src # p => Coming(p, e)' \/ Lasts(p, e)',
           \A p \in Peers : Caught(p)' => Caught(p)
    PROVE  ShareInv'
<1>0. \A e \in rows : e \in Entry /\ e.rev \in Nat /\ e.exp \in Nat
  BY EntryFields DEF ShareInv, ShareTyped
<1>n. now \in Nat /\ now' \in Nat
  BY DEF ShareInv, ShareTyped
<1>1. Numbered'
  <2>1. \A e \in Entry : Around(e)' => 1 <= e.rev /\ e.rev <= rev'
    BY DEF ShareInv, Numbered
  <2>2. \A e, f \in Entry : Around(e)' /\ Around(f)' /\ e.rev = f.rev => e = f
    BY DEF ShareInv, Numbered
  <2>3. \A p \in Peers : \A n \in applied'[p] : n <= rev'
    BY DEF ShareInv, Numbered
  <2> QED BY <2>1, <2>2, <2>3 DEF Numbered
<1>2. Kept'
  <2> SUFFICES ASSUME NEW p \in Peers, NEW e \in rows', e.rev \in applied'[p], e.exp > now'
               PROVE  Lasts(p, e)' \/ Writing(p, e)'
    BY DEF Kept, Lasts, Writing
  <2>1. e \in rows /\ e.rev \in applied[p] /\ e.exp > now
    BY <1>0, <1>n
  <2>2. Lasts(p, e) \/ Writing(p, e)
    BY <2>1 DEF ShareInv, Kept
  <2> QED BY <2>2
<1>3. Covered'
  <2> SUFFICES ASSUME NEW p \in Peers, NEW e \in rows', Caught(p)', e.exp > now', e.src # p, ~Coming(p, e)'
               PROVE  Lasts(p, e)'
    BY DEF Covered, Caught, Lasts, Coming
  <2>1. e \in rows /\ e.exp > now /\ Caught(p) /\ link'[p] = "up"
    BY <1>0, <1>n DEF Caught
  <2>2. CASE Coming(p, e)
    BY <2>1, <2>2
  <2>3. CASE ~Coming(p, e)
    <3>1. Lasts(p, e)
      BY <2>1, <2>3 DEF ShareInv, Covered, Caught, Lasts
    <3> QED BY <2>1, <3>1
  <2> QED BY <2>2, <2>3
<1> QED BY <1>1, <1>2, <1>3 DEF ShareInv

(* A step that leaves a proxy's bans and memory alone.                      *)
LEMMA Steady ==
    ASSUME ShareInv, ShareTyped', Routed', rows' \subseteq rows, rev' = rev, now' >= now,
           until' = until, short' = short, skipped' = skipped, applied' = applied, lifted' = lifted,
           \A e \in Entry : Around(e)' => Around(e),
           \A p \in Peers, e \in Entry : Writing(p, e)' <=> Writing(p, e),
           \A p \in Peers, e \in rows' : Coming(p, e) /\ link'[p] = "up" /\ e.src # p => Coming(p, e)',
           \A p \in Peers : Caught(p)' => Caught(p)
    PROVE  ShareInv'
<1>1. \A p \in Peers, e \in Entry : Lasts(p, e)' <=> Lasts(p, e)
  BY DEF Lasts
<1>2. Lifts'
  BY DEF ShareInv, Lifts
<1>3. \A e \in rows' : e \in Entry
  BY DEF ShareInv, ShareTyped
<1> HIDE DEF ShareInv, ShareTyped, Routed, Lifts
<1> QED BY <1>1, <1>2, <1>3, Frame

(* Messages that go nowhere.                                                *)
LEMMA ConnectStep ==
    ASSUME ShareInv, NEW p \in Peers, PeerConnect(p)
    PROVE  ShareInv'
<1> USE DEF PeerConnect, clock, ledger, transit, node
<1>1. ShareTyped'
  BY DEF ShareInv, ShareTyped
<1>2. Routed'
  BY DEF ShareInv, Routed, ShareTyped
<1>3. \A e \in Entry : Around(e)' => Around(e)
  BY DEF Around
<1>4. \A q \in Peers, e \in Entry : Writing(q, e)' <=> Writing(q, e)
  BY DEF Writing
<1>5. \A q \in Peers, e \in rows' : Coming(q, e) => Coming(q, e)'
  BY DEF Coming
<1>6. \A q \in Peers : Caught(q)' => Caught(q)
  BY DEF Caught, ShareInv, ShareTyped
<1>7. now \in Nat
  BY DEF ShareInv, ShareTyped
<1> QED BY <1>1, <1>2, <1>3, <1>4, <1>5, <1>6, <1>7, Steady

\* Putting a session into the registry keeps the invariant.
LEMMA RegisterStep ==
    ASSUME ShareInv, NEW p \in Peers, Register(p)
    PROVE  ShareInv'
<1> USE DEF Register, clock, ledger, transit, node
<1>1. ShareTyped'
  BY DEF ShareInv, ShareTyped
<1>2. Routed'
  BY DEF ShareInv, Routed, ShareTyped
<1>3. \A e \in Entry : Around(e)' => Around(e)
  BY DEF Around
<1>4. \A q \in Peers, e \in Entry : Writing(q, e)' <=> Writing(q, e)
  BY DEF Writing
<1>5. \A q \in Peers, e \in rows' : Coming(q, e) => Coming(q, e)'
  BY DEF Coming
<1>6. \A q \in Peers : Caught(q)' => Caught(q)
  BY DEF Caught, ShareInv, Routed
<1>7. now \in Nat
  BY DEF ShareInv, ShareTyped
<1> QED BY <1>1, <1>2, <1>3, <1>4, <1>5, <1>6, <1>7, Steady
\* Taking a session out of the registry keeps the invariant.
LEMMA RemoveStep ==
    ASSUME ShareInv, NEW p \in Peers, PeerRemove(p)
    PROVE  ShareInv'
<1> USE DEF PeerRemove, clock, ledger, transit, node
<1>1. ShareTyped'
  BY DEF ShareInv, ShareTyped
<1>2. Routed'
  BY DEF ShareInv, Routed, ShareTyped
<1>3. \A e \in Entry : Around(e)' => Around(e)
  BY DEF Around
<1>4. \A q \in Peers, e \in Entry : Writing(q, e)' <=> Writing(q, e)
  BY DEF Writing
<1>5. \A q \in Peers, e \in rows' : Coming(q, e) /\ link'[q] = "up" /\ e.src # q => Coming(q, e)'
  BY DEF Coming
<1>6. \A q \in Peers : Caught(q)' => Caught(q)
  BY DEF Caught, ShareInv, ShareTyped
<1>7. now \in Nat /\ now' \in Nat /\ now' >= now /\ rows' \subseteq rows /\ rev' = rev
  BY DEF ShareInv, ShareTyped
<1> QED BY <1>1, <1>2, <1>3, <1>4, <1>5, <1>6, <1>7, Steady

\* A pull without an answer keeps the invariant.
LEMMA PullFailedStep ==
    ASSUME ShareInv, NEW p \in Peers, PullFailed(p)
    PROVE  ShareInv'
<1> USE DEF PullFailed, clock, ledger, transit, node
<1>1. ShareTyped'
  BY DEF ShareInv, ShareTyped
<1>2. Routed'
  BY DEF ShareInv, Routed, ShareTyped
<1>3. \A e \in Entry : Around(e)' => Around(e)
  BY DEF Around
<1>4. \A q \in Peers, e \in Entry : Writing(q, e)' <=> Writing(q, e)
  BY DEF Writing
<1>5. \A q \in Peers, e \in rows' : Coming(q, e) /\ link'[q] = "up" /\ e.src # q => Coming(q, e)'
  BY DEF Coming
<1>6. \A q \in Peers : Caught(q)' => Caught(q)
  BY DEF Caught, ShareInv, ShareTyped
<1>7. now \in Nat /\ now' \in Nat /\ now' >= now /\ rows' \subseteq rows /\ rev' = rev
  BY DEF ShareInv, ShareTyped
<1> QED BY <1>1, <1>2, <1>3, <1>4, <1>5, <1>6, <1>7, Steady

\* A proxy that sends its queue as a report keeps the invariant.
LEMMA FlushStep ==
    ASSUME ShareInv, NEW p \in Peers, Flush(p)
    PROVE  ShareInv'
<1> USE DEF Flush, clock, ledger, session
<1>1. ShareTyped'
  BY DEF ShareInv, ShareTyped
<1>2. Routed'
  BY DEF ShareInv, Routed, ShareTyped
<1>3. \A e \in Entry : Around(e)' => Around(e)
  BY DEF Around
<1>4. \A q \in Peers, e \in Entry : Writing(q, e)' <=> Writing(q, e)
  BY DEF Writing
<1>5. \A q \in Peers, e \in rows' : Coming(q, e) /\ link'[q] = "up" /\ e.src # q => Coming(q, e)'
  BY DEF Coming
<1>6. \A q \in Peers : Caught(q)' => Caught(q)
  BY DEF Caught, ShareInv, ShareTyped
<1>7. now \in Nat /\ now' \in Nat /\ now' >= now /\ rows' \subseteq rows /\ rev' = rev
  BY DEF ShareInv, ShareTyped
<1> QED BY <1>1, <1>2, <1>3, <1>4, <1>5, <1>6, <1>7, Steady

\* A report that gets lost keeps the invariant.
LEMMA ReportFailedStep ==
    ASSUME ShareInv, NEW r \in reports, ReportFailed(r)
    PROVE  ShareInv'
<1> USE DEF ReportFailed, clock, ledger, session, node
<1>1. ShareTyped'
  BY DEF ShareInv, ShareTyped
<1>2. Routed'
  BY DEF ShareInv, Routed, ShareTyped
<1>3. \A e \in Entry : Around(e)' => Around(e)
  BY DEF Around
<1>4. \A q \in Peers, e \in Entry : Writing(q, e)' <=> Writing(q, e)
  BY DEF Writing
<1>5. \A q \in Peers, e \in rows' : Coming(q, e) /\ link'[q] = "up" /\ e.src # q => Coming(q, e)'
  BY DEF Coming
<1>6. \A q \in Peers : Caught(q)' => Caught(q)
  BY DEF Caught, ShareInv, ShareTyped
<1>7. now \in Nat /\ now' \in Nat /\ now' >= now /\ rows' \subseteq rows /\ rev' = rev
  BY DEF ShareInv, ShareTyped
<1> QED BY <1>1, <1>2, <1>3, <1>4, <1>5, <1>6, <1>7, Steady

\* Time that passes keeps the invariant: less has to be covered.
LEMMA TickStep ==
    ASSUME ShareInv, Tick
    PROVE  ShareInv'
<1> USE DEF Tick, ledger, transit, session, node
<1>1. ShareTyped'
  BY DEF ShareInv, ShareTyped
<1>2. Routed'
  BY DEF ShareInv, Routed, ShareTyped
<1>3. \A e \in Entry : Around(e)' => Around(e)
  BY DEF Around
<1>4. \A q \in Peers, e \in Entry : Writing(q, e)' <=> Writing(q, e)
  BY DEF Writing
<1>5. \A q \in Peers, e \in rows' : Coming(q, e) /\ link'[q] = "up" /\ e.src # q => Coming(q, e)'
  BY DEF Coming
<1>6. \A q \in Peers : Caught(q)' => Caught(q)
  BY DEF Caught, ShareInv, ShareTyped
<1>7. now \in Nat /\ now' \in Nat /\ now' >= now /\ rows' \subseteq rows /\ rev' = rev
  BY DEF ShareInv, ShareTyped
<1> QED BY <1>1, <1>2, <1>3, <1>4, <1>5, <1>6, <1>7, Steady

\* Deleting expired rows of the ledger keeps the invariant.
LEMMA SweepLedgerStep ==
    ASSUME ShareInv, SweepThreatEntries
    PROVE  ShareInv'
<1> USE DEF SweepThreatEntries, clock, transit, session, node
<1>1. ShareTyped'
  BY FS_Subset DEF ShareInv, ShareTyped
<1>2. Routed'
  BY DEF ShareInv, Routed, ShareTyped
<1>3. \A e \in Entry : Around(e)' => Around(e)
  BY DEF Around
<1>4. \A q \in Peers, e \in Entry : Writing(q, e)' <=> Writing(q, e)
  BY DEF Writing
<1>5. \A q \in Peers, e \in rows' : Coming(q, e) /\ link'[q] = "up" /\ e.src # q => Coming(q, e)'
  BY DEF Coming
<1>6. \A q \in Peers : Caught(q)' => Caught(q)
  BY DEF Caught, ShareInv, ShareTyped
<1>7. now \in Nat /\ now' \in Nat /\ now' >= now /\ rows' \subseteq rows /\ rev' = rev
  BY DEF ShareInv, ShareTyped
<1> QED BY <1>1, <1>2, <1>3, <1>4, <1>5, <1>6, <1>7, Steady

(* FanOut keeps the invariant: every registered proxy but the source gets a
   call.                                                                    *)
LEMMA FanOutStep ==
    ASSUME ShareInv, NEW b \in stored, FanOutThreat(b)
    PROVE  ShareInv'
<1> USE DEF FanOutThreat, clock, ledger, session, node, ListOnline
<1>1. ShareTyped'
  BY DEF ShareInv, ShareTyped
<1>2. Routed'
  BY DEF ShareInv, Routed, ShareTyped
<1>3. \A e \in Entry : Around(e)' => Around(e)
  BY DEF Around
<1>4. \A q \in Peers, e \in Entry : Writing(q, e)' <=> Writing(q, e)
  BY DEF Writing
<1>5. \A q \in Peers, e \in rows' : Coming(q, e) /\ link'[q] = "up" /\ e.src # q => Coming(q, e)'
  <2> SUFFICES ASSUME NEW q \in Peers, NEW e \in rows', Coming(q, e), link'[q] = "up", e.src # q
               PROVE  Coming(q, e)'
    OBVIOUS
  <2>1. q \in registered
    BY DEF ShareInv, Routed
  <2>2. CASE e \in b.es
    <3>1. b.src # q
      BY <2>2 DEF ShareInv, Routed
    <3>2. [to |-> q, es |-> b.es] \in calls'
      BY <2>1, <3>1
    <3> QED BY <2>2, <3>2 DEF Coming
  <2>3. CASE \E a \in stored \ {b} : e \in a.es
    BY <2>3 DEF Coming
  <2>4. CASE \E c \in calls : c.to = q /\ e \in c.es
    BY <2>4 DEF Coming
  <2>5. CASE \E c \in wire : c.to = q /\ e \in c.es \cup c.put
    BY <2>5 DEF Coming
  <2> QED BY <2>2, <2>3, <2>4, <2>5 DEF Coming
<1>6. \A q \in Peers : Caught(q)' => Caught(q)
  BY DEF Caught, ShareInv, ShareTyped
<1>7. now \in Nat /\ now' \in Nat /\ now' >= now /\ rows' \subseteq rows /\ rev' = rev
  BY DEF ShareInv, ShareTyped
<1> QED BY <1>1, <1>2, <1>3, <1>4, <1>5, <1>6, <1>7, Steady

(* A call that looks its session up keeps the invariant: a proxy whose
   connection is up is found.                                               *)
LEMMA CallStep ==
    ASSUME ShareInv, NEW d \in calls, Call(d)
    PROVE  ShareInv'
<1> USE DEF Call, clock, ledger, session, node
<1>1. ShareTyped'
  BY DEF ShareInv, ShareTyped
<1>2. Routed'
  BY DEF ShareInv, Routed, ShareTyped
<1>3. \A e \in Entry : Around(e)' => Around(e)
  BY DEF Around
<1>4. \A q \in Peers, e \in Entry : Writing(q, e)' <=> Writing(q, e)
  BY DEF Writing
<1>5. \A q \in Peers, e \in rows' : Coming(q, e) /\ link'[q] = "up" /\ e.src # q => Coming(q, e)'
  <2> SUFFICES ASSUME NEW q \in Peers, NEW e \in rows', Coming(q, e), link'[q] = "up", e.src # q
               PROVE  Coming(q, e)'
    OBVIOUS
  <2>1. q \in registered
    BY DEF ShareInv, Routed
  <2>2. CASE d.to = q /\ e \in d.es
    <3>1. [to |-> q, es |-> d.es, put |-> {}] \in wire'
      BY <2>1, <2>2
    <3> QED BY <2>2, <3>1 DEF Coming
  <2>3. CASE \E b \in stored : e \in b.es
    BY <2>3 DEF Coming
  <2>4. CASE \E c \in calls \ {d} : c.to = q /\ e \in c.es
    BY <2>4 DEF Coming
  <2>5. CASE \E c \in wire : c.to = q /\ e \in c.es \cup c.put
    BY <2>5 DEF Coming
  <2> QED BY <2>2, <2>3, <2>4, <2>5 DEF Coming
<1>6. \A q \in Peers : Caught(q)' => Caught(q)
  BY DEF Caught, ShareInv, ShareTyped
<1>7. now \in Nat /\ now' \in Nat /\ now' >= now /\ rows' \subseteq rows /\ rev' = rev
  BY DEF ShareInv, ShareTyped
<1> QED BY <1>1, <1>2, <1>3, <1>4, <1>5, <1>6, <1>7, Steady

\* A lost connection keeps the invariant: the proxy will pull again.
LEMMA LinkDownStep ==
    ASSUME ShareInv, NEW p \in Peers, PeerLinkDown(p)
    PROVE  ShareInv'
<1> USE DEF PeerLinkDown, Lost, Event, ledger, node
<1>1. ShareTyped'
  BY DEF ShareInv, ShareTyped
<1>2. Routed'
  BY DEF ShareInv, Routed, ShareTyped
<1>3. \A e \in Entry : Around(e)' => Around(e)
  BY DEF Around
<1>4. \A q \in Peers, e \in Entry : Writing(q, e)' <=> Writing(q, e)
  BY DEF Writing
<1>5. \A q \in Peers, e \in rows' : Coming(q, e) /\ link'[q] = "up" /\ e.src # q => Coming(q, e)'
  <2> SUFFICES ASSUME NEW q \in Peers, NEW e \in rows', Coming(q, e), link'[q] = "up", e.src # q
               PROVE  Coming(q, e)'
    OBVIOUS
  <2>1. q # p
    BY DEF ShareInv, ShareTyped
  <2>2. \A c \in wire : c.to = q => c \in wire'
    BY <2>1
  <2> QED BY <2>2 DEF Coming
<1>6. \A q \in Peers : Caught(q)' => Caught(q)
  BY DEF Caught, ShareInv, ShareTyped
<1>7. now \in Nat /\ now' \in Nat /\ now' >= now /\ rows' \subseteq rows /\ rev' = rev
  BY DEF ShareInv, ShareTyped
<1> QED BY <1>1, <1>2, <1>3, <1>4, <1>5, <1>6, <1>7, Steady

(* A restart of the hub keeps the invariant: the ledger stays, all
   connections go.                                                          *)
LEMMA RestartHubStep ==
    ASSUME ShareInv, RestartHub
    PROVE  ShareInv'
<1> USE DEF RestartHub, Event, ledger, node
<1>1. ShareTyped'
  BY DEF ShareInv, ShareTyped
<1>2. Routed'
  BY DEF ShareInv, Routed, ShareTyped
<1>3. \A e \in Entry : Around(e)' => Around(e)
  BY DEF Around
<1>4. \A q \in Peers, e \in Entry : Writing(q, e)' <=> Writing(q, e)
  BY DEF Writing
<1>5. \A q \in Peers, e \in rows' : Coming(q, e) /\ link'[q] = "up" /\ e.src # q => Coming(q, e)'
  BY DEF Coming
<1>6. \A q \in Peers : Caught(q)' => Caught(q)
  BY DEF Caught, ShareInv, ShareTyped
<1>7. now \in Nat /\ now' \in Nat /\ now' >= now /\ rows' \subseteq rows /\ rev' = rev
  BY DEF ShareInv, ShareTyped
<1> QED BY <1>1, <1>2, <1>3, <1>4, <1>5, <1>6, <1>7, Steady
-----------------------------------------------------------------------------
(* Writes of bans                                                           *)

\* A write is in force or marks the ban that it cuts short.
LEMMA PutIs ==
    ASSUME ShareTyped, NEW p \in Peers, NEW k \in Keys, NEW t \in Nat, Put(p, k, t), skipped' = skipped
    PROVE  /\ until' \in [Peers -> [Keys -> Nat]] /\ short' \in [Peers -> SUBSET Keys]
           /\ \A q \in Peers, e \in Entry : Lasts(q, e) => Lasts(q, e)'
           /\ \A e \in Entry : e.key = k /\ e.exp <= t => Lasts(p, e)'
<1>1. until \in [Peers -> [Keys -> Nat]] /\ short \in [Peers -> SUBSET Keys]
  BY DEF ShareTyped
<1>2. until' \in [Peers -> [Keys -> Nat]] /\ short' \in [Peers -> SUBSET Keys]
  BY <1>1 DEF Put
<1>3. until'[p][k] = t /\ (t < until[p][k] => k \in short'[p])
  BY <1>1 DEF Put
<1>4. \A q \in Peers, l \in Keys : q # p \/ l # k => until'[q][l] = until[q][l]
  BY <1>1 DEF Put
<1>5. \A q \in Peers : short[q] \subseteq short'[q]
  BY <1>1 DEF Put
<1>6. ASSUME NEW q \in Peers, NEW e \in Entry, Lasts(q, e)
      PROVE  Lasts(q, e)'
  <2>1. e.key \in Keys /\ e.exp \in Nat /\ until[q][e.key] \in Nat
    BY <1>1, EntryFields
  <2>2. CASE e.key \in short[q] \/ e.rev \in skipped[q]
    BY <1>5, <2>2 DEF Lasts
  <2>3. CASE until[q][e.key] >= e.exp
    <3>1. CASE q = p /\ e.key = k
      BY <1>3, <2>1, <2>3, <3>1 DEF Lasts
    <3>2. CASE q # p \/ e.key # k
      BY <1>4, <2>1, <2>3, <3>2 DEF Lasts
    <3> QED BY <3>1, <3>2
  <2> QED BY <1>6, <2>2, <2>3 DEF Lasts
<1>7. \A e \in Entry : e.key = k /\ e.exp <= t => Lasts(p, e)'
  BY <1>3, EntryFields DEF Lasts
<1> QED BY <1>2, <1>6, <1>7

(* A write that touches nothing on the way.                                 *)
LEMMA Local ==
    ASSUME ShareInv, ShareTyped', Lifts', UNCHANGED <<now, ledger, transit, session, applied, skipped>>,
           \A q \in Peers, e \in Entry : Lasts(q, e) => Lasts(q, e)'
    PROVE  ShareInv'
<1> USE DEF ledger, transit, session
<1>1. Routed'
  BY DEF ShareInv, Routed
<1>2. \A e \in Entry : Around(e)' => Around(e)
  BY DEF Around
<1>3. \A q \in Peers, e \in rows' : (Writing(q, e) => Writing(q, e)') /\ (Coming(q, e) => Coming(q, e)')
  BY DEF Writing, Coming
<1>4. \A q \in Peers : Caught(q)' => Caught(q)
  BY DEF Caught
<1>5. now \in Nat /\ \A e \in rows' : e \in Entry
  BY DEF ShareInv, ShareTyped
<1> QED BY <1>1, <1>2, <1>3, <1>4, <1>5, Frame

\* A report in the queue is an item.
LEMMA EnqueueIs ==
    ASSUME ShareTyped, NEW p \in Peers, NEW k \in Keys, Enqueue(p, k)
    PROVE  queue' \in [Peers -> Seq(Item)]
<1>1. [key |-> k, exp |-> now + ReportTTL] \in Item
  BY Numbers DEF Item, ShareTyped
<1> DEFINE n == IF Len(queue[p]) >= QueueMax THEN queue[p]
                ELSE Append(queue[p], [key |-> k, exp |-> now + ReportTTL])
<1>2. n \in Seq(Item) /\ queue' = [queue EXCEPT ![p] = n]
  BY <1>1 DEF ShareTyped, Enqueue
<1> HIDE DEF n
<1> QED BY <1>2 DEF ShareTyped

\* A proxy's own ban keeps the invariant, also where the guard was switched
\* off before it was written.
LEMMA ReportBindStep ==
    ASSUME ShareInv, NEW p \in Peers, NEW k \in Keys, NEW ttl \in BanTTLs, ReportBind(p, k, ttl)
    PROVE  ShareInv'
<1>1. now \in Nat /\ now + ttl \in Nat /\ ShareTyped
  BY Numbers DEF ShareInv, ShareTyped
<1>2. UNCHANGED <<now, ledger, transit, session, applied, skipped, lifted>>
  BY DEF ReportBind
<1>3. PICK on \in BOOLEAN : /\ protect' = [protect EXCEPT ![p] = on]
                            /\ IF on THEN Put(p, k, now + ttl) ELSE UNCHANGED <<until, short>>
  BY DEF ReportBind
<1>4. /\ until' \in [Peers -> [Keys -> Nat]] /\ short' \in [Peers -> SUBSET Keys]
      /\ \A q \in Peers, e \in Entry : Lasts(q, e) => Lasts(q, e)'
  <2>1. CASE Put(p, k, now + ttl)
    BY <1>1, <1>2, <2>1, PutIs
  <2>2. CASE UNCHANGED <<until, short>>
    BY <1>1, <1>2, <2>2 DEF ShareTyped, Lasts
  <2> QED BY <1>3, <2>1, <2>2
<1>5. queue' \in [Peers -> Seq(Item)]
  BY <1>1, EnqueueIs DEF ReportBind
<1>6. protect' \in [Peers -> BOOLEAN]
  BY <1>1, <1>3 DEF ShareTyped
<1>7. ShareTyped'
  BY <1>1, <1>2, <1>4, <1>5, <1>6 DEF ShareTyped, ledger, transit, session
<1>8. Lifts'
  BY <1>2 DEF ShareInv, Lifts, Writing, transit
<1> QED BY <1>2, <1>4, <1>7, <1>8, Local

\* A user agent that is only reported keeps the invariant.
LEMMA ReportUAStep ==
    ASSUME ShareInv, NEW p \in Peers, NEW k \in Keys, ReportUA(p, k)
    PROVE  ShareInv'
<1>1. UNCHANGED <<now, ledger, transit, session, applied, until, protect, skipped, short, lifted>>
  BY DEF ReportUA
<1>2. queue' \in [Peers -> Seq(Item)]
  BY EnqueueIs DEF ReportUA, ShareInv
<1>3. ShareTyped'
  BY <1>1, <1>2 DEF ShareInv, ShareTyped, ledger, transit, session
<1>4. Lifts' /\ \A q \in Peers, e \in Entry : Lasts(q, e) => Lasts(q, e)'
  BY <1>1 DEF ShareInv, Lifts, Lasts, Writing, transit
<1> QED BY <1>1, <1>3, <1>4, Local

\* Switching the guard of a proxy keeps the invariant: it keeps its bans.
LEMMA SetProtectStep ==
    ASSUME ShareInv, NEW p \in Peers, SetProtect(p)
    PROVE  ShareInv'
<1>1. UNCHANGED <<now, ledger, transit, session, queue, applied, until, skipped, short, lifted>>
  BY DEF SetProtect
<1>2. protect' \in [Peers -> BOOLEAN]
  BY DEF SetProtect, ShareInv, ShareTyped
<1>3. ShareTyped'
  BY <1>1, <1>2 DEF ShareInv, ShareTyped, ledger, transit, session
<1>4. Lifts' /\ \A q \in Peers, e \in Entry : Lasts(q, e) => Lasts(q, e)'
  BY <1>1 DEF ShareInv, Lifts, Lasts, Writing, transit
<1> QED BY <1>1, <1>3, <1>4, Local

\* A ban of an administrator at one proxy keeps the invariant.
LEMMA RemoteBanStep ==
    ASSUME ShareInv, NEW p \in Peers, NEW k \in Keys, NEW ttl \in BanTTLs, RemoteBan(p, k, ttl)
    PROVE  ShareInv'
<1>1. now \in Nat /\ now + ttl \in Nat
  BY Numbers DEF ShareInv, ShareTyped
<1>2. Put(p, k, now + ttl)
  BY DEF RemoteBan
<1>4. UNCHANGED <<now, ledger, transit, session, queue, applied, protect, skipped, lifted>>
  BY DEF RemoteBan
<1>3. /\ until' \in [Peers -> [Keys -> Nat]] /\ short' \in [Peers -> SUBSET Keys]
      /\ \A q \in Peers, e \in Entry : Lasts(q, e) => Lasts(q, e)'
  BY <1>1, <1>2, <1>4, PutIs DEF ShareInv
<1>6. ShareTyped'
  BY <1>3, <1>4 DEF ShareInv, ShareTyped, ledger, transit, session
<1>7. Lifts'
  BY <1>4 DEF ShareInv, Lifts, Writing, transit
<1> QED BY <1>3, <1>4, <1>6, <1>7, Local

(* Lifting a ban keeps the invariant: the key is marked and its applied
   entries are noted.                                                       *)
LEMMA UnbanStep ==
    ASSUME ShareInv, NEW p \in Peers, NEW k \in Keys, Unban(p, k)
    PROVE  ShareInv'
<1> DEFINE v == applied[p] \ UNION {Revs(c.put) : c \in {c \in wire : c.to = p}}
<1>1. /\ until' = [until EXCEPT ![p][k] = 0] /\ short' = [short EXCEPT ![p] = @ \cup {k}]
      /\ lifted' = [lifted EXCEPT ![p][k] = v]
      /\ UNCHANGED <<clock, ledger, transit, session, queue, applied, protect, skipped>>
  BY DEF Unban
<1>2. v \subseteq applied[p] /\ \A e \in Entry : Writing(p, e) => e.rev \notin v
  BY DEF Writing, Revs
<1> HIDE DEF v
<1>3. /\ until \in [Peers -> [Keys -> Nat]] /\ short \in [Peers -> SUBSET Keys]
      /\ lifted \in [Peers -> [Keys -> SUBSET Nat]] /\ applied \in [Peers -> SUBSET Nat]
  BY DEF ShareInv, ShareTyped
<1>4. /\ until' \in [Peers -> [Keys -> Nat]] /\ short' \in [Peers -> SUBSET Keys]
      /\ lifted' \in [Peers -> [Keys -> SUBSET Nat]]
  BY <1>1, <1>2, <1>3
<1>5. ShareTyped'
  BY <1>1, <1>4 DEF ShareInv, ShareTyped, clock, ledger, transit, session
<1>6. \A q \in Peers, e \in Entry : Lasts(q, e) => Lasts(q, e)'
  BY <1>1, <1>3, EntryFields DEF Lasts
<1>7. Lifts'
  <2>1. \A q \in Peers, e \in Entry : Writing(q, e)' <=> Writing(q, e)
    BY <1>1 DEF Writing, transit
  <2>2. ASSUME NEW q \in Peers, NEW l \in Keys
        PROVE  lifted'[q][l] \subseteq applied'[q] /\ \A e \in Entry : Writing(q, e)' => e.rev \notin lifted'[q][l]
    <3>1. CASE q = p /\ l = k
      BY <1>1, <1>2, <1>3, <2>1, <3>1
    <3>2. CASE q # p \/ l # k
      BY <1>1, <1>3, <2>1, <3>2 DEF ShareInv, Lifts
    <3> QED BY <3>1, <3>2
  <2> QED BY <2>2 DEF Lifts
<1> QED BY <1>1, <1>5, <1>6, <1>7, Local DEF clock

\* The guard's sweep keeps the invariant: only bans that are over go.
LEMMA SweepStep ==
    ASSUME ShareInv, NEW p \in Peers, Sweep(p)
    PROVE  ShareInv'
<1> DEFINE wipe == Cardinality(applied[p]) > SeenMax \div 2
           u == [k \in Keys |-> IF until[p][k] < now THEN 0 ELSE until[p][k]]
<1>1. /\ until' = [until EXCEPT ![p] = u]
      /\ applied' = [applied EXCEPT ![p] = IF wipe THEN {} ELSE @]
      /\ lifted' = [lifted EXCEPT ![p] = IF wipe THEN [k \in Keys |-> {}] ELSE @]
      /\ UNCHANGED <<clock, ledger, transit, session, queue, protect, skipped, short>>
  BY DEF Sweep
<1> HIDE DEF wipe
<1>2. /\ until \in [Peers -> [Keys -> Nat]] /\ short \in [Peers -> SUBSET Keys] /\ now \in Nat
      /\ lifted \in [Peers -> [Keys -> SUBSET Nat]] /\ applied \in [Peers -> SUBSET Nat]
  BY DEF ShareInv, ShareTyped
<1>3. u \in [Keys -> Nat] /\ \A k \in Keys : until[p][k] >= now => u[k] = until[p][k]
  BY <1>2
<1> HIDE DEF u
<1>4. until' \in [Peers -> [Keys -> Nat]] /\ applied' \in [Peers -> SUBSET Nat]
  BY <1>1, <1>2, <1>3
<1>4a. lifted' \in [Peers -> [Keys -> SUBSET Nat]]
  BY <1>1, <1>2
<1>5. ShareTyped'
  BY <1>1, <1>4, <1>4a DEF ShareInv, ShareTyped, clock, ledger, transit, session
<1>6. \A q \in Peers, e \in rows' : Lasts(q, e) /\ e.exp > now' => Lasts(q, e)'
  <2> SUFFICES ASSUME NEW q \in Peers, NEW e \in rows', Lasts(q, e), e.exp > now'
               PROVE  Lasts(q, e)'
    OBVIOUS
  <2>1. now' = now /\ short' = short /\ skipped' = skipped /\ e.key \in Keys /\ e.exp \in Nat
    BY <1>1, EntryFields DEF ShareInv, ShareTyped, clock, ledger
  <2>2. CASE e.key \in short[q] \/ e.rev \in skipped[q]
    BY <2>1, <2>2 DEF Lasts
  <2>3. CASE until[q][e.key] >= e.exp
    <3>1. until'[q][e.key] = until[q][e.key]
      BY <1>1, <1>2, <1>3, <2>1, <2>3
    <3> QED BY <2>3, <3>1 DEF Lasts
  <2> QED BY <2>2, <2>3 DEF Lasts
<1>7. \A q \in Peers, e \in Entry : (Writing(q, e)' <=> Writing(q, e)) /\ (Coming(q, e)' <=> Coming(q, e))
  BY <1>1 DEF Writing, Coming, transit
<1>8. Lifts'
  <2>2. ASSUME NEW q \in Peers, NEW l \in Keys
        PROVE  lifted'[q][l] \subseteq applied'[q] /\ \A e \in Entry : Writing(q, e)' => e.rev \notin lifted'[q][l]
    <3>1. CASE q = p /\ wipe
      BY <1>1, <1>2, <3>1
    <3>2. CASE ~(q = p /\ wipe)
      <4>1. lifted'[q] = lifted[q] /\ applied'[q] = applied[q]
        BY <1>1, <1>2, <3>2
      <4> QED BY <1>7, <4>1 DEF ShareInv, Lifts
    <3> QED BY <3>1, <3>2
  <2> QED BY <2>2 DEF Lifts
<1>9. Routed' /\ \A e \in Entry : Around(e)' => Around(e)
  BY <1>1 DEF ShareInv, Routed, Around, ledger, transit, session
<1>10. \A q \in Peers : (Caught(q)' => Caught(q)) /\ applied'[q] \subseteq applied[q]
  BY <1>1, <1>2 DEF Caught, session
<1>11. rows' = rows /\ rev' = rev /\ now' = now /\ \A e \in rows' : e \in Entry
  BY <1>1 DEF ledger, clock, ShareInv, ShareTyped
<1> QED BY <1>2, <1>5, <1>6, <1>7, <1>8, <1>9, <1>10, <1>11, Frame
(* A proxy that restarts keeps the invariant: it forgets its memory together
   with its bans.                                                           *)
LEMMA RestartProxyStep ==
    ASSUME ShareInv, NEW p \in Peers, RestartProxy(p)
    PROVE  ShareInv'
<1>1. /\ link' = [link EXCEPT ![p] = "down"] /\ pull' = [pull EXCEPT ![p] = "none"]
      /\ wire' = {c \in wire : c.to # p} /\ queue' = [queue EXCEPT ![p] = <<>>]
      /\ applied' = [applied EXCEPT ![p] = {}] /\ until' = [until EXCEPT ![p] = [k \in Keys |-> 0]]
      /\ protect' \in [Peers -> BOOLEAN] /\ skipped' = [skipped EXCEPT ![p] = {}] /\ short' = [short EXCEPT ![p] = {}]
      /\ lifted' = [lifted EXCEPT ![p] = [k \in Keys |-> {}]]
      /\ UNCHANGED <<now, ledger, stored, calls, reports, registered>>
  BY DEF RestartProxy, Lost, ShareInv, ShareTyped
<1>2. ShareTyped
  BY DEF ShareInv
<1>3. ShareTyped'
  BY <1>1, <1>2 DEF ShareTyped, ledger
<1>4. Routed'
  BY <1>1, <1>2 DEF ShareInv, Routed, ShareTyped
<1>5. \A q \in Peers : q # p => /\ applied'[q] = applied[q] /\ until'[q] = until[q] /\ skipped'[q] = skipped[q]
                                /\ short'[q] = short[q] /\ lifted'[q] = lifted[q]
                                /\ link'[q] = link[q] /\ pull'[q] = pull[q]
  BY <1>1, <1>2 DEF ShareTyped
<1>6. applied'[p] = {} /\ link'[p] = "down" /\ \A k \in Keys : lifted'[p][k] = {}
  BY <1>1, <1>2 DEF ShareTyped
<1>7. \A q \in Peers, e \in Entry : q # p =>
        (Lasts(q, e)' <=> Lasts(q, e)) /\ (Writing(q, e)' <=> Writing(q, e)) /\ (Coming(q, e)' <=> Coming(q, e))
  BY <1>1, <1>5 DEF Lasts, Writing, Coming
<1>8. Lifts'
  <2>1. ASSUME NEW q \in Peers, NEW l \in Keys
        PROVE  lifted'[q][l] \subseteq applied'[q] /\ \A e \in Entry : Writing(q, e)' => e.rev \notin lifted'[q][l]
    <3>1. CASE q = p
      BY <1>6, <3>1
    <3>2. CASE q # p
      BY <1>5, <1>7, <3>2 DEF ShareInv, Lifts
    <3> QED BY <3>1, <3>2
  <2> QED BY <2>1 DEF Lifts
<1>9. \A e \in Entry : Around(e)' => Around(e)
  BY <1>1 DEF Around, ledger
<1>10. \A q \in Peers : (Caught(q)' => Caught(q)) /\ applied'[q] \subseteq applied[q]
  BY <1>5, <1>6 DEF Caught
<1>11. rows' = rows /\ rev' = rev /\ now' = now /\ now \in Nat /\ \A e \in rows' : e \in Entry
  BY <1>1, <1>2 DEF ledger, ShareTyped
<1>12. \A q \in Peers, e \in rows' :
         /\ Lasts(q, e) /\ e.exp > now' => Lasts(q, e)' \/ (applied'[q] = {} /\ link'[q] # "up")
         /\ Writing(q, e) /\ e.exp > now' =>
              Lasts(q, e)' \/ Writing(q, e)' \/ (applied'[q] = {} /\ link'[q] # "up")
         /\ Coming(q, e) /\ link'[q] = "up" /\ e.src # q => Coming(q, e)' \/ Lasts(q, e)'
  BY <1>6, <1>7, <1>11
<1> QED BY <1>3, <1>4, <1>8, <1>9, <1>10, <1>11, <1>12, Frame

\* Writing the ban of an entry keeps the invariant.
LEMMA ApplyOneStep ==
    ASSUME ShareInv, NEW c \in wire, ApplyOne(c)
    PROVE  ShareInv'
<1>1. ShareTyped /\ c.to \in Peers /\ c.es \in SUBSET Entry /\ c.put \in SUBSET Entry
  BY Carriers DEF ShareInv
<1>2. PICK e \in c.put :
        /\ Step(c, [c EXCEPT !.put = {}])
        /\ \/ Put(c.to, e.key, e.exp) /\ skipped' = skipped
           \/ skipped' = [skipped EXCEPT ![c.to] = @ \cup {e.rev}] /\ UNCHANGED <<until, short>>
  BY DEF ApplyOne
<1>3. e \in Entry /\ e.rev \in Nat /\ e.key \in Keys /\ e.exp \in Nat
  BY <1>1, EntryFields
<1>4. UNCHANGED <<clock, ledger, stored, calls, reports, session, queue, applied, protect, lifted>>
  BY DEF ApplyOne
<1>5. /\ until' \in [Peers -> [Keys -> Nat]] /\ short' \in [Peers -> SUBSET Keys] /\ skipped' \in [Peers -> SUBSET Nat]
      /\ \A q \in Peers, f \in Entry : Lasts(q, f) => Lasts(q, f)'
      /\ Lasts(c.to, e)'
  <2>0. /\ until \in [Peers -> [Keys -> Nat]] /\ short \in [Peers -> SUBSET Keys]
        /\ skipped \in [Peers -> SUBSET Nat]
    BY <1>1 DEF ShareTyped
  <2>1. CASE Put(c.to, e.key, e.exp) /\ skipped' = skipped
    BY <1>1, <1>3, <2>0, <2>1, PutIs
  <2>2. CASE skipped' = [skipped EXCEPT ![c.to] = @ \cup {e.rev}] /\ UNCHANGED <<until, short>>
    <3>1. skipped' \in [Peers -> SUBSET Nat] /\ e.rev \in skipped'[c.to] /\ \A q \in Peers : skipped[q] \subseteq skipped'[q]
      BY <1>1, <1>3, <2>0, <2>2
    <3> QED BY <2>0, <2>2, <3>1 DEF Lasts
  <2> QED BY <1>2, <2>1, <2>2
<1> DEFINE d == [c EXCEPT !.put = {}]
<1>6. d \in [to : Peers, es : SUBSET Entry, put : SUBSET Entry] /\ d.to = c.to /\ d.es = c.es /\ d.put = {}
  BY <1>1 DEF ShareTyped
<1>7. wire' = (wire \ {c}) \cup (IF d.es = {} /\ d.put = {} THEN {} ELSE {d})
  BY <1>2 DEF Step
<1> HIDE DEF d
<1>8. ShareTyped'
  BY <1>1, <1>4, <1>5, <1>6, <1>7 DEF ShareTyped, clock, ledger, session
<1>9. Routed'
  BY <1>4, <1>6, <1>7 DEF ShareInv, Routed, session
<1>10. \A f \in c.put : f = e
  BY DEF ShareInv, Routed
<1>11. ASSUME NEW q \in Peers, NEW f \in Entry
       PROVE  /\ Writing(q, f)' => Writing(q, f)
              /\ Writing(q, f) => Writing(q, f)' \/ (q = c.to /\ f = e)
              /\ Coming(q, f) => Coming(q, f)' \/ (q = c.to /\ f = e)
  <2>1. \A a \in wire : a # c => a \in wire'
    BY <1>7
  <2>2. c.es = {} \/ d \in wire'
    BY <1>6, <1>7
  <2>3. Writing(q, f)' => Writing(q, f)
    BY <1>6, <1>7 DEF Writing
  <2>4. Writing(q, f) => Writing(q, f)' \/ (q = c.to /\ f = e)
    BY <1>10, <2>1 DEF Writing
  <2>5. Coming(q, f) => Coming(q, f)' \/ (q = c.to /\ f = e)
    BY <1>4, <1>6, <1>10, <2>1, <2>2 DEF Coming
  <2> QED BY <2>3, <2>4, <2>5
<1>12. Lifts'
  BY <1>4, <1>11 DEF ShareInv, Lifts
<1>13. \A f \in Entry : Around(f)' => Around(f)
  BY <1>4, <1>6, <1>7 DEF Around, ledger
<1>14. \A q \in Peers : (Caught(q)' => Caught(q)) /\ applied'[q] \subseteq applied[q]
  BY <1>4 DEF Caught, session
<1>15. rows' = rows /\ rev' = rev /\ now' = now /\ now \in Nat /\ \A f \in rows' : f \in Entry
  BY <1>1, <1>4 DEF ledger, clock, ShareTyped
<1>16. \A q \in Peers, f \in rows' :
         /\ Lasts(q, f) => Lasts(q, f)'
         /\ Writing(q, f) => Lasts(q, f)' \/ Writing(q, f)'
         /\ Coming(q, f) => Coming(q, f)' \/ Lasts(q, f)'
  BY <1>5, <1>11, <1>15
<1> QED BY <1>8, <1>9, <1>12, <1>13, <1>14, <1>15, <1>16, Frame
(* Looking an entry up and remembering it keeps the invariant: the write it
   owes is on its way, also where the overlay's memory is emptied first.    *)
LEMMA MarkSeenStep ==
    ASSUME ShareInv, NEW c \in wire, MarkSeen(c)
    PROVE  ShareInv'
<1>1. ShareTyped /\ c.to \in Peers /\ c.es \in SUBSET Entry /\ c.put = {}
  BY Carriers DEF ShareInv, MarkSeen
<1> DEFINE new(e) == e.exp > now /\ e.rev \notin applied[c.to]
           ok(e) == new(e) /\ Cardinality(applied[c.to]) < SeenMax
           d(e) == [c EXCEPT !.es = @ \ {e}, !.put = IF ok(e) THEN {e} ELSE {}]
<1>2. PICK e \in Heads(c) :
        /\ Step(c, d(e))
        /\ applied' = [applied EXCEPT ![c.to] = IF ok(e) THEN @ \cup {e.rev} ELSE @]
        /\ skipped' = [skipped EXCEPT ![c.to] = IF ok(e) THEN @ \ {e.rev} ELSE IF new(e) THEN @ \cup {e.rev} ELSE @]
  BY DEF MarkSeen
<1>3. e \in c.es /\ e \in Entry /\ e.rev \in Nat /\ e.exp \in Nat
  BY <1>1, EntryFields DEF Heads
<1>4. UNCHANGED <<clock, ledger, stored, calls, reports, session, queue, until, protect, short, lifted>>
  BY DEF MarkSeen
<1> DEFINE g == d(e)
           k == ok(e)
<1>5. /\ g \in [to : Peers, es : SUBSET Entry, put : SUBSET Entry] /\ g.to = c.to /\ g.es = c.es \ {e}
      /\ g.put = IF k THEN {e} ELSE {}
  BY <1>1, <1>3 DEF ShareTyped
<1>6. wire' = (wire \ {c}) \cup (IF g.es = {} /\ g.put = {} THEN {} ELSE {g})
  BY <1>2 DEF Step
<1>7. /\ k => e.rev \notin applied[c.to]
      /\ ~k => e.exp <= now \/ e.rev \in applied[c.to] \/ e.rev \in skipped'[c.to]
      /\ applied' = [applied EXCEPT ![c.to] = IF k THEN @ \cup {e.rev} ELSE @]
      /\ \A q \in Peers : \A n \in skipped[q] : n \in skipped'[q] \/ (q = c.to /\ n = e.rev /\ k)
      /\ skipped' \in [Peers -> SUBSET Nat]
  <2>1. skipped \in [Peers -> SUBSET Nat] /\ now \in Nat
    BY <1>1 DEF ShareTyped
  <2>2. ~new(e) => e.exp <= now \/ e.rev \in applied[c.to]
    BY <1>3, <2>1
  <2>3. ok(e) => e.rev \notin applied[c.to]
    OBVIOUS
  <2> HIDE DEF new, ok
  <2>4. skipped'[c.to] = IF ok(e) THEN skipped[c.to] \ {e.rev} ELSE IF new(e) THEN skipped[c.to] \cup {e.rev} ELSE skipped[c.to]
    BY <1>1, <1>2, <2>1
  <2>5. \A q \in Peers : q # c.to => skipped'[q] = skipped[q]
    BY <1>1, <1>2, <2>1
  <2>6. skipped' \in [Peers -> SUBSET Nat]
    BY <1>1, <1>2, <1>3, <2>1
  <2> QED BY <1>2, <2>2, <2>3, <2>4, <2>5, <2>6
<1> HIDE DEF new, ok, d, g, k
<1>8. /\ applied' \in [Peers -> SUBSET Nat]
      /\ \A q \in Peers : applied[q] \subseteq applied'[q]
      /\ \A q \in Peers : \A n \in applied'[q] : n \in applied[q] \/ (q = c.to /\ n = e.rev /\ k)
  BY <1>1, <1>3, <1>7 DEF ShareTyped
<1>9. ShareTyped'
  BY <1>1, <1>4, <1>5, <1>6, <1>7, <1>8 DEF ShareTyped, clock, ledger, session
<1>10. Routed'
  BY <1>4, <1>5, <1>6 DEF ShareInv, Routed, session
<1>11. now' = now /\ rows' = rows /\ rev' = rev /\ now \in Nat /\ rev \in Nat
       /\ \A f \in rows : f \in Entry /\ f.rev \in Nat /\ f.exp \in Nat
  BY <1>1, <1>4, EntryFields DEF clock, ledger, ShareTyped
<1>12. Around(e) /\ \A f \in Entry : Around(f)' => Around(f)
  BY <1>3, <1>4, <1>5, <1>6 DEF Around, ledger
<1>13. Numbered'
  <2>1. e.rev <= rev
    BY <1>3, <1>12 DEF ShareInv, Numbered
  <2>2. \A q \in Peers : \A n \in applied'[q] : n <= rev'
    BY <1>8, <1>11, <2>1 DEF ShareInv, Numbered
  <2>3. \A f \in Entry : Around(f)' => 1 <= f.rev /\ f.rev <= rev'
    BY <1>11, <1>12 DEF ShareInv, Numbered
  <2>4. \A f, h \in Entry : Around(f)' /\ Around(h)' /\ f.rev = h.rev => f = h
    BY <1>12 DEF ShareInv, Numbered
  <2> QED BY <2>2, <2>3, <2>4 DEF Numbered
<1>14. ASSUME NEW q \in Peers, NEW f \in Entry
       PROVE  /\ Writing(q, f) => Writing(q, f)'
              /\ Writing(q, f)' => Writing(q, f) \/ (q = c.to /\ f = e /\ k)
              /\ k => Writing(c.to, e)'
              /\ Coming(q, f) => Coming(q, f)' \/ (q = c.to /\ f = e /\ ~k)
              /\ Writing(q, f)' => Coming(q, f)'
              /\ Lasts(q, f) => Lasts(q, f)' \/ (q = c.to /\ f.rev = e.rev /\ k)
  <2>1. \A a \in wire : a # c => a \in wire'
    BY <1>6
  <2>2. (c.es \ {e} = {} /\ ~k) \/ g \in wire'
    BY <1>5, <1>6
  <2>3. Writing(q, f) => Writing(q, f)'
    BY <1>1, <2>1 DEF Writing
  <2>4. Writing(q, f)' => Writing(q, f) \/ (q = c.to /\ f = e /\ k)
    BY <1>5, <1>6 DEF Writing
  <2>5. k => Writing(c.to, e)'
    BY <1>5, <2>2 DEF Writing
  <2>6. Coming(q, f) => Coming(q, f)' \/ (q = c.to /\ f = e /\ ~k)
    BY <1>1, <1>4, <1>5, <2>1, <2>2 DEF Coming
  <2>7. Writing(q, f)' => Coming(q, f)'
    BY DEF Writing, Coming
  <2>8. Lasts(q, f) => Lasts(q, f)' \/ (q = c.to /\ f.rev = e.rev /\ k)
    BY <1>4, <1>7 DEF Lasts
  <2> QED BY <2>3, <2>4, <2>5, <2>6, <2>7, <2>8
<1>18. ASSUME NEW q \in Peers, NEW f \in rows, Lasts(q, f)
       PROVE  Lasts(q, f)' \/ Writing(q, f)'
  <2>1. CASE q = c.to /\ f.rev = e.rev /\ k
    <3>1. f = e
      BY <1>3, <1>11, <1>12, <2>1 DEF ShareInv, Numbered, Around
    <3> QED BY <1>3, <1>14, <2>1, <3>1
  <2>2. CASE ~(q = c.to /\ f.rev = e.rev /\ k)
    BY <1>11, <1>14, <1>18, <2>2
  <2> QED BY <2>1, <2>2
<1>15. Kept'
  <2> SUFFICES ASSUME NEW q \in Peers, NEW f \in rows', f.rev \in applied'[q], f.exp > now'
               PROVE  Lasts(q, f)' \/ Writing(q, f)'
    BY DEF Kept, Lasts, Writing
  <2>1. CASE f.rev \in applied[q]
    <3>1. Lasts(q, f) \/ Writing(q, f)
      BY <1>11, <2>1 DEF ShareInv, Kept
    <3> QED BY <1>11, <1>14, <1>18, <3>1
  <2>2. CASE q = c.to /\ f.rev = e.rev /\ k
    <3>1. f = e
      BY <1>3, <1>11, <1>12, <2>2 DEF ShareInv, Numbered, Around
    <3> QED BY <1>3, <1>14, <2>2, <3>1
  <2> QED BY <1>8, <2>1, <2>2
<1>16. Covered'
  <2> SUFFICES ASSUME NEW q \in Peers, NEW f \in rows', Caught(q)', f.exp > now', f.src # q, ~Coming(q, f)'
               PROVE  Lasts(q, f)'
    BY DEF Covered, Caught, Lasts, Coming
  <2>1. Caught(q) /\ ~Writing(q, f)' /\ f \in rows
    BY <1>4, <1>11, <1>14 DEF Caught, session
  <2>2. CASE ~Coming(q, f)
    <3>1. Lasts(q, f)
      BY <1>11, <2>1, <2>2 DEF ShareInv, Covered, Caught, Lasts
    <3> QED BY <1>18, <2>1, <3>1
  <2>3. CASE Coming(q, f)
    <3>1. q = c.to /\ f = e /\ ~k
      BY <1>11, <1>14, <2>3
    <3>2. CASE e.rev \in skipped'[q]
      BY <3>1, <3>2 DEF Lasts
    <3>3. CASE e.rev \in applied[q]
      <4>1. Lasts(q, f) \/ Writing(q, f)
        BY <1>11, <3>1, <3>3 DEF ShareInv, Kept
      <4> QED BY <1>11, <1>14, <1>18, <2>1, <4>1
    <3> QED BY <1>3, <1>7, <1>11, <3>1, <3>2, <3>3
  <2> QED BY <2>2, <2>3
<1>17. Lifts'
  <2>1. ASSUME NEW q \in Peers, NEW l \in Keys
        PROVE  lifted'[q][l] \subseteq applied'[q] /\ \A f \in Entry : Writing(q, f)' => f.rev \notin lifted'[q][l]
    <3>1. lifted'[q][l] = lifted[q][l] /\ lifted[q][l] \subseteq applied[q]
      BY <1>4 DEF ShareInv, Lifts
    <3>2. \A f \in Entry : Writing(q, f) => f.rev \notin lifted[q][l]
      BY DEF ShareInv, Lifts
    <3> QED BY <1>7, <1>8, <1>14, <3>1, <3>2
  <2> QED BY <2>1 DEF Lifts
<1> QED BY <1>9, <1>10, <1>13, <1>15, <1>16, <1>17 DEF ShareInv

-----------------------------------------------------------------------------
(* The ledger                                                               *)

\* An answered pull keeps the invariant: what the answer leaves out is noted.
LEMMA ThreatPullStep ==
    ASSUME ShareInv, NEW p \in Peers, ThreatPull(p)
    PROVE  ShareInv'
<1> DEFINE fresh == {e \in rows : e.exp > now}
           es == ListThreatSince(0, PullLimit)
           r == [to |-> p, es |-> es, put |-> {}]
<1>1. ShareTyped
  BY DEF ShareInv
<1>2. es \subseteq fresh
  BY DEF ListThreatSince, Oldest
<1>3. fresh \in SUBSET Entry /\ IsFiniteSet(fresh) /\ \A e \in rows : e.exp > now => e \in fresh
  BY <1>1, FS_Subset DEF ShareTyped
<1>4. /\ link[p] = "up" /\ pullThreats(p, es)
      /\ skipped' = [skipped EXCEPT ![p] = (@ \cap applied[p]) \cup Revs(fresh \ es)]
      /\ pull' = [pull EXCEPT ![p] = "done"]
      /\ UNCHANGED <<clock, ledger, stored, calls, reports, link, registered, queue, applied, until, protect, short, lifted>>
  BY DEF ThreatPull
<1>5. es \in SUBSET Entry
  BY <1>2, <1>3
<1>6. r \in [to : Peers, es : SUBSET Entry, put : SUBSET Entry] /\ r.to = p /\ r.es = es /\ r.put = {}
  BY <1>5
<1> HIDE DEF fresh, es
<1>7. wire' = IF es = {} THEN wire ELSE wire \cup {r}
  BY <1>4 DEF pullThreats
<1> HIDE DEF r
<1>8. skipped \in [Peers -> SUBSET Nat] /\ skipped' \in [Peers -> SUBSET Nat]
      /\ pull' \in [Peers -> {"none", "sent", "done", "failed"}]
  <2>1. Revs(fresh \ es) \subseteq Nat
    BY <1>3, EntryFields DEF Revs
  <2> QED BY <1>1, <1>4, <2>1 DEF ShareTyped
<1>9. ShareTyped'
  BY <1>1, <1>4, <1>6, <1>7, <1>8 DEF ShareTyped, clock, ledger
<1>10. Routed'
  BY <1>1, <1>4, <1>6, <1>7 DEF ShareInv, Routed, ShareTyped
<1>11. /\ \A e \in fresh : e \in es \/ e.rev \in skipped'[p]
       /\ \A q \in Peers : \A n \in skipped[q] : n \in skipped'[q] \/ (q = p /\ n \notin applied[p])
  BY <1>4, <1>8 DEF Revs
<1>12. /\ now' = now /\ rows' = rows /\ rev' = rev /\ applied' = applied /\ lifted' = lifted
       /\ \A f \in rows : f \in Entry
  BY <1>1, <1>4 DEF clock, ledger, ShareTyped
<1>13. \A f \in Entry : Around(f)' => Around(f)
  <2>1. \A f \in es : f \in rows
    BY <1>2 DEF fresh
  <2> QED BY <1>4, <1>6, <1>7, <2>1 DEF Around, ledger
<1>14. Numbered'
  <2>1. \A f \in Entry : Around(f)' => 1 <= f.rev /\ f.rev <= rev'
    BY <1>12, <1>13 DEF ShareInv, Numbered
  <2>2. \A f, h \in Entry : Around(f)' /\ Around(h)' /\ f.rev = h.rev => f = h
    BY <1>13 DEF ShareInv, Numbered
  <2> QED BY <1>12, <2>1, <2>2 DEF ShareInv, Numbered
<1>15. \A q \in Peers, f \in Entry :
         (Writing(q, f)' <=> Writing(q, f)) /\ (Coming(q, f) => Coming(q, f)')
         /\ (Lasts(q, f) => Lasts(q, f)' \/ (q = p /\ f.rev \notin applied[p]))
  BY <1>4, <1>6, <1>7, <1>11 DEF Writing, Coming, Lasts
<1>16. Kept'
  <2> SUFFICES ASSUME NEW q \in Peers, NEW f \in rows', f.rev \in applied'[q], f.exp > now'
               PROVE  Lasts(q, f)' \/ Writing(q, f)'
    BY DEF Kept, Lasts, Writing
  <2>1. Lasts(q, f) \/ Writing(q, f)
    BY <1>12 DEF ShareInv, Kept
  <2> QED BY <1>12, <1>15, <2>1
<1>17. Lifts'
  BY <1>12, <1>15 DEF ShareInv, Lifts
<1>18. Covered'
  <2> SUFFICES ASSUME NEW q \in Peers, NEW f \in rows', Caught(q)', f.exp > now', f.src # q, ~Coming(q, f)'
               PROVE  Lasts(q, f)'
    BY DEF Covered, Caught, Lasts, Coming
  <2>1. CASE q = p
    <3>1. f \in es \/ f.rev \in skipped'[p]
      BY <1>3, <1>11, <1>12
    <3>2. f \in es => r \in wire'
      BY <1>7
    <3>3. f \in es => Coming(q, f)'
      BY <1>6, <2>1, <3>2 DEF Coming
    <3> QED BY <2>1, <3>1, <3>3 DEF Lasts
  <2>2. CASE q # p
    <3>1. Caught(q)
      BY <1>1, <1>4, <2>2 DEF Caught, ShareTyped
    <3>2. ~Coming(q, f)
      BY <1>12, <1>15
    <3>3. Lasts(q, f)
      BY <1>12, <3>1, <3>2 DEF ShareInv, Covered, Caught, Lasts
    <3> QED BY <1>12, <1>15, <2>2, <3>3
  <2> QED BY <2>1, <2>2
<1> QED BY <1>9, <1>10, <1>14, <1>16, <1>17, <1>18 DEF ShareInv
\* The places of a batch are counted from one without gaps or repetitions.
LEMMA PlaceIs ==
    ASSUME NEW es, IsFiniteSet(DOMAIN es), DOMAIN es \in SUBSET Nat
    PROVE  /\ \A i \in DOMAIN es : Place(es, i) \in 1..Cardinality(DOMAIN es)
           /\ \A i, j \in DOMAIN es : Place(es, i) = Place(es, j) => i = j
<1> DEFINE D == DOMAIN es
           B(i) == {j \in D : j <= i}
<1>1. ASSUME NEW i \in D
      PROVE  IsFiniteSet(B(i)) /\ Cardinality(B(i)) \in Nat /\ Cardinality(B(i)) <= Cardinality(D)
  <2>1. B(i) \in SUBSET D
    OBVIOUS
  <2> HIDE DEF B, D
  <2>2. IsFiniteSet(D)
    BY DEF D
  <2> QED BY <2>1, <2>2, FS_Subset, FS_CardinalityType
<1>2. ASSUME NEW i \in D
      PROVE  Cardinality(B(i)) # 0
  <2>1. i \in B(i)
    OBVIOUS
  <2> QED BY <1>1, <2>1, FS_EmptySet
<1>3. ASSUME NEW i \in D, NEW j \in D, i < j
      PROVE  Cardinality(B(i)) # Cardinality(B(j))
  <2>1. B(i) \in SUBSET B(j) /\ j \in B(j) /\ j \notin B(i)
    BY <1>3
  <2>2. IsFiniteSet(B(j))
    BY <1>1
  <2> HIDE DEF B
  <2> QED BY <2>1, <2>2, FS_Subset
<1>4. \A i \in D : Place(es, i) = Cardinality(B(i))
  BY DEF Place
<1>5. Cardinality(D) \in Nat /\ \A i \in D : i \in Nat
  BY FS_CardinalityType
<1> HIDE DEF B
<1>6. \A i \in D : Place(es, i) \in 1..Cardinality(D)
  BY <1>1, <1>2, <1>4, <1>5
<1>7. \A i, j \in D : Place(es, i) = Place(es, j) => i = j
  BY <1>3, <1>4, <1>5
<1> QED BY <1>6, <1>7

(* A batch: entries by their place.                                         *)
Batch(es) == IsFiniteSet(DOMAIN es) /\ DOMAIN es \in SUBSET Nat /\ \A i \in DOMAIN es : es[i] \in Item

(* What a transaction of the ledger does: the new entries have revisions of
   their own above all others, and only they join the rows.                 *)
LEMMA InsertIs ==
    ASSUME ShareInv, NEW src \in Peers \cup {Hub}, NEW es, Batch(es), InsertThreatEntries(src, es)
    PROVE  /\ New(src, es) \in SUBSET Entry /\ IsFiniteSet(New(src, es))
           /\ Cardinality(New(src, es)) <= Cardinality(DOMAIN es)
           /\ rev' \in Nat /\ rev' >= rev
           /\ \A e \in New(src, es) : e.rev > rev /\ e.rev <= rev' /\ e.src = src
           /\ \A e, f \in New(src, es) : e.rev = f.rev => e = f
           /\ rows' \subseteq rows \cup New(src, es) /\ rows' \in SUBSET Entry /\ IsFiniteSet(rows')
<1> DEFINE N == New(src, es)
           D == DOMAIN es
           F == [i \in D |-> [rev |-> rev + Place(es, i), key |-> es[i].key, exp |-> Deadline(es[i]), src |-> src]]
<1>1. now \in Nat /\ rev \in Nat /\ rows \in SUBSET Entry /\ IsFiniteSet(rows)
  BY DEF ShareInv, ShareTyped
<1>2. IsFiniteSet(D) /\ Cardinality(D) \in Nat /\ \A i \in D : es[i].key \in Keys /\ es[i].exp \in Nat
  BY FS_CardinalityType DEF Batch, Item
<1>3. \A i \in D : Deadline(es[i]) \in Nat
  BY <1>1, <1>2, Numbers DEF Deadline
<1>4. /\ \A i \in D : Place(es, i) \in 1..Cardinality(D)
      /\ \A i, j \in D : Place(es, i) = Place(es, j) => i = j
  BY PlaceIs DEF Batch
<1>5. rev' = rev + Cardinality(D) /\ rows' \subseteq rows \cup N
  BY DEF InsertThreatEntries
<1>6. N = {F[i] : i \in D}
  BY DEF New
<1>7. \A i \in D : F[i] \in Entry /\ F[i].rev = rev + Place(es, i) /\ F[i].src = src
  BY <1>1, <1>2, <1>3, <1>4 DEF Entry
<1>8. F \in Surjection(D, N)
  BY <1>6 DEF Surjection
<1> HIDE DEF N, D, F
<1>9. IsFiniteSet(N) /\ Cardinality(N) <= Cardinality(D)
  BY <1>2, <1>8, FS_Surjection
<1>10. N \in SUBSET Entry
  BY <1>6, <1>7
<1>11. \A e \in N : e.rev > rev /\ e.rev <= rev' /\ e.src = src
  BY <1>1, <1>2, <1>4, <1>5, <1>6, <1>7
<1>12. \A e, f \in N : e.rev = f.rev => e = f
  <2>1. \A i, j \in D : rev + Place(es, i) = rev + Place(es, j) => i = j
    BY <1>1, <1>2, <1>4
  <2> QED BY <1>6, <1>7, <2>1
<1>13. IsFiniteSet(rows')
  <2>1. IsFiniteSet(rows \cup N)
    BY <1>1, <1>9, FS_Union
  <2> QED BY <1>5, <2>1, FS_Subset
<1> QED BY <1>1, <1>2, <1>5, <1>9, <1>10, <1>11, <1>12, <1>13 DEF N, D

(* A batch that is stored and about to be fanned out; what is left out of it
   is noted, and an empty one goes nowhere.                                 *)
LEMMA StoreStep ==
    ASSUME ShareInv, NEW src \in Peers \cup {Hub}, NEW es, Batch(es), InsertThreatEntries(src, es),
           NEW b, b \in [src : Peers \cup {Hub}, es : SUBSET Entry], b.src = src,
           b.es \subseteq New(src, es),
           stored' = IF b.es = {} THEN stored ELSE stored \cup {b},
           skipped' \in [Peers -> SUBSET Nat], reports' \subseteq reports,
           UNCHANGED <<clock, calls, wire, session, queue, applied, until, protect, short, lifted>>,
           \A p \in Peers : /\ skipped[p] \subseteq skipped'[p]
                            /\ \A e \in rows' : e \in New(src, es) => e \in b.es \/ e.rev \in skipped'[p]
    PROVE  ShareInv'
<1> DEFINE N == New(src, es)
<1>1. ShareTyped /\ rev \in Nat
  BY DEF ShareInv, ShareTyped
<1>2. /\ N \in SUBSET Entry /\ rev' \in Nat /\ rev' >= rev
      /\ \A e \in N : e.rev > rev /\ e.rev <= rev' /\ e.src = src
      /\ \A e, f \in N : e.rev = f.rev => e = f
      /\ rows' \subseteq rows \cup N /\ rows' \in SUBSET Entry /\ IsFiniteSet(rows')
  BY InsertIs
<1>3. /\ b.es \subseteq N /\ (b.es # {} => b \in stored')
      /\ \A p \in Peers : \A e \in rows' : e \in N => e \in b.es \/ e.rev \in skipped'[p]
  OBVIOUS
<1> HIDE DEF N
<1>4. ShareTyped'
  BY <1>1, <1>2 DEF ShareTyped, clock, session
<1>5. Routed'
  BY <1>2, <1>3 DEF ShareInv, Routed, session
<1>6. \A e \in Entry : Around(e)' => Around(e) \/ e \in N
  BY <1>2, <1>3 DEF Around
<1>7. \A e \in Entry : e.rev \in Nat /\ (e \in N => ~Around(e))
  <2>1. \A e \in Entry : Around(e) => e.rev <= rev
    BY DEF ShareInv, Numbered
  <2>2. \A e \in Entry : e.rev \in Nat
    BY EntryFields
  <2> QED BY <1>1, <1>2, <2>1, <2>2
<1>8. Numbered'
  <2>1. \A e \in Entry : Around(e) => 1 <= e.rev /\ e.rev <= rev
    BY DEF ShareInv, Numbered
  <2>2. \A e \in Entry : Around(e)' => 1 <= e.rev /\ e.rev <= rev'
    BY <1>1, <1>2, <1>6, <1>7, <2>1
  <2>3. \A e, f \in Entry : Around(e)' /\ Around(f)' /\ e.rev = f.rev => e = f
    <3> SUFFICES ASSUME NEW e \in Entry, NEW f \in Entry, Around(e)', Around(f)', e.rev = f.rev
                 PROVE  e = f
      OBVIOUS
    <3>1. CASE e \in N /\ f \in N
      BY <1>2, <3>1
    <3>2. CASE Around(e) /\ Around(f)
      BY <3>2 DEF ShareInv, Numbered
    <3>3. CASE e \in N /\ Around(f)
      BY <1>1, <1>2, <1>7, <2>1, <3>3
    <3>4. CASE Around(e) /\ f \in N
      BY <1>1, <1>2, <1>7, <2>1, <3>4
    <3> QED BY <1>6, <3>1, <3>2, <3>3, <3>4
  <2>4. \A p \in Peers : \A n \in applied'[p] : n <= rev'
    <3>1. \A p \in Peers : \A n \in applied[p] : n <= rev /\ n \in Nat
      BY <1>1 DEF ShareInv, Numbered, ShareTyped
    <3> QED BY <1>1, <1>2, <3>1
  <2> QED BY <2>2, <2>3, <2>4 DEF Numbered
<1>9. \A q \in Peers, f \in Entry :
        (Writing(q, f)' <=> Writing(q, f)) /\ (Coming(q, f) => Coming(q, f)') /\ (Lasts(q, f) => Lasts(q, f)')
  BY DEF Writing, Coming, Lasts
<1>10. Lifts'
  BY <1>9 DEF ShareInv, Lifts
<1>11. now' = now
  BY DEF clock
<1>12. Kept'
  <2> SUFFICES ASSUME NEW q \in Peers, NEW f \in rows', f.rev \in applied'[q], f.exp > now'
               PROVE  Lasts(q, f)' \/ Writing(q, f)'
    BY DEF Kept, Lasts, Writing
  <2>1. f.rev <= rev /\ f \in Entry
    BY <1>2 DEF ShareInv, Numbered
  <2>2. f \in rows
    BY <1>1, <1>2, <1>7, <2>1
  <2>3. Lasts(q, f) \/ Writing(q, f)
    BY <1>11, <2>2 DEF ShareInv, Kept
  <2> QED BY <1>9, <2>1, <2>3
<1>13. Covered'
  <2> SUFFICES ASSUME NEW q \in Peers, NEW f \in rows', Caught(q)', f.exp > now', f.src # q, ~Coming(q, f)'
               PROVE  Lasts(q, f)'
    BY DEF Covered, Caught, Lasts, Coming
  <2>1. Caught(q) /\ (f \in N => f \in b.es \/ f.rev \in skipped'[q])
    BY <1>3 DEF Caught, session
  <2>2. f \notin b.es
    BY <1>3 DEF Coming
  <2>6. CASE f.rev \in skipped'[q]
    BY <2>6 DEF Lasts
  <2> SUFFICES ASSUME f.rev \notin skipped'[q] PROVE Lasts(q, f)'
    BY <2>6
  <2>3. f \in rows /\ f \in Entry
    BY <1>2, <2>1, <2>2
  <2>4. ~Coming(q, f)
    BY <1>9, <2>3
  <2>5. Lasts(q, f)
    BY <1>11, <2>1, <2>3, <2>4 DEF ShareInv, Covered, Caught, Lasts
  <2> QED BY <1>9, <2>3, <2>5
<1> QED BY <1>4, <1>5, <1>8, <1>10, <1>12, <1>13 DEF ShareInv

\* Storing a report keeps the invariant.
LEMMA IngestReportStep ==
    ASSUME ShareInv, NEW r \in reports, IngestReport(r)
    PROVE  ShareInv'
<1> DEFINE b == [src |-> r.src, es |-> New(r.src, r.es)]
<1>1. r.src \in Peers \cup {Hub} /\ r.es \in Seq(Item)
  BY Carriers DEF ShareInv
<1>2. Batch(r.es)
  <2>1. DOMAIN r.es = 1..Len(r.es) /\ Len(r.es) \in Nat /\ \A i \in 1..Len(r.es) : r.es[i] \in Item
    BY <1>1
  <2>2. IsFiniteSet(1..Len(r.es))
    BY <2>1, FS_Interval
  <2> QED BY <2>1, <2>2 DEF Batch
<1>3. InsertThreatEntries(r.src, r.es) /\ stored' = (IF b.es = {} THEN stored ELSE stored \cup {b}) /\ reports' = reports \ {r}
  BY DEF IngestReport, Stored
<1>4. UNCHANGED <<clock, calls, wire, session, queue, applied, until, protect, skipped, short, lifted>>
  BY DEF IngestReport, node
<1>5. New(r.src, r.es) \in SUBSET Entry
  BY <1>1, <1>2, <1>3, InsertIs
<1>6. /\ b \in [src : Peers \cup {Hub}, es : SUBSET Entry] /\ b.src = r.src /\ b.es \subseteq New(r.src, r.es)
      /\ \A e \in rows' : e \in New(r.src, r.es) => e \in b.es
  BY <1>1, <1>5
<1> HIDE DEF b
<1>7. skipped' = skipped /\ skipped' \in [Peers -> SUBSET Nat]
  BY <1>4 DEF ShareInv, ShareTyped
<1>8. UNCHANGED <<clock, calls, wire, session, queue, applied, until, protect, short, lifted>>
  BY <1>4
<1> QED BY <1>1, <1>2, <1>3, <1>6, <1>7, <1>8, StoreStep

\* Storing an entry of an administrator keeps the invariant.
LEMMA AdminEntryStep ==
    ASSUME ShareInv, NEW k \in Keys, NEW ttl \in Nat, AdminEntry(k, ttl)
    PROVE  ShareInv'
<1> DEFINE es == <<[key |-> k, exp |-> now + ttl]>>
           b == [src |-> Hub, es |-> New(Hub, es)]
<1>1. Hub \in Peers \cup {Hub}
  OBVIOUS
<1>2. Batch(es)
  <2>1. now + ttl \in Nat
    BY DEF ShareInv, ShareTyped
  <2>2. DOMAIN es = 1..1 /\ es[1] \in Item
    BY <2>1 DEF Item
  <2>3. IsFiniteSet(1..1)
    <3>1. 1 \in Int /\ 1..1 = {1}
      OBVIOUS
    <3> QED BY <3>1, FS_Singleton
  <2>4. \A i \in 1..1 : i = 1
    OBVIOUS
  <2> QED BY <2>2, <2>3, <2>4 DEF Batch
<1>3. InsertThreatEntries(Hub, es) /\ stored' = IF b.es = {} THEN stored ELSE stored \cup {b}
  BY DEF AdminEntry, Stored
<1> HIDE DEF es
<1>4. UNCHANGED <<clock, calls, wire, reports, session, queue, applied, until, protect, skipped, short, lifted>>
  BY DEF AdminEntry, node
<1>5. New(Hub, es) \in SUBSET Entry
  BY <1>1, <1>2, <1>3, InsertIs
<1>6. /\ b \in [src : Peers \cup {Hub}, es : SUBSET Entry] /\ b.src = Hub /\ b.es \subseteq New(Hub, es)
      /\ \A e \in rows' : e \in New(Hub, es) => e \in b.es
  BY <1>1, <1>5
<1> HIDE DEF b
<1>7. skipped' = skipped /\ skipped' \in [Peers -> SUBSET Nat] /\ reports' \subseteq reports
  BY <1>4 DEF ShareInv, ShareTyped
<1>8. UNCHANGED <<clock, calls, wire, session, queue, applied, until, protect, short, lifted>>
  BY <1>4
<1> QED BY <1>1, <1>2, <1>3, <1>6, <1>7, <1>8, StoreStep

(* Storing a feed keeps the invariant, also where the rows read back are not
   all the new ones, or none.                                               *)
LEMMA IngestIOCsStep ==
    ASSUME ShareInv, NEW iocs \in Feeds, IngestIOCs(iocs)
    PROVE  ShareInv'
<1> DEFINE es == [i \in {i \in DOMAIN iocs : ToThreatEntry(iocs[i])} |-> iocs[i]]
           len == Cardinality(DOMAIN es)
           n == IF len + FeedSlack > ListMax THEN ListDefault ELSE len + FeedSlack
           added == {e \in rows' : e.rev > rev}
           N == New(Hub, es)
<1>1. /\ InsertThreatEntries(Hub, es)
      /\ UNCHANGED <<clock, calls, wire, reports, session, queue, applied, until, protect, short, lifted>>
  BY DEF IngestIOCs
<1>0. PICK sent \in {{}, Oldest(added, n)} :
        /\ stored' = IF sent = {} THEN stored ELSE stored \cup {[src |-> Hub, es |-> sent]}
        /\ skipped' = [p \in Peers |-> skipped[p] \cup Revs(N \ sent)]
  BY DEF IngestIOCs, Stored
<1> DEFINE b == [src |-> Hub, es |-> sent]
<1>2. Batch(es)
  <2>1. DOMAIN es \subseteq 1..FeedLen /\ \A i \in DOMAIN es : es[i] \in Item
    <3>1. iocs \in [1..FeedLen -> [key : (Keys \ BadIPs) \cup {NoKey}, exp : {now + t : t \in TTLs}]]
      BY DEF Feeds
    <3>2. \A t \in TTLs : now + t \in Nat
      BY Numbers DEF ShareInv, ShareTyped
    <3>3. \A i \in 1..FeedLen : iocs[i].key \in (Keys \ BadIPs) \cup {NoKey} /\ iocs[i].exp \in Nat
                                /\ iocs[i] \in [key : (Keys \ BadIPs) \cup {NoKey}, exp : {now + t : t \in TTLs}]
      BY <3>1, <3>2
    <3>4. \A i \in DOMAIN es : i \in 1..FeedLen /\ es[i] = iocs[i] /\ iocs[i].key # NoKey
      BY <3>1 DEF ToThreatEntry
    <3> QED BY <3>3, <3>4 DEF Item
  <2>2. IsFiniteSet(1..FeedLen) /\ 1..FeedLen \subseteq Nat
    <3>1. FeedLen \in Nat /\ 1 \in Nat
      BY Numbers
    <3>2. 1..FeedLen \subseteq Nat
      BY <3>1
    <3>3. IsFiniteSet(1..FeedLen)
      BY <3>1, FS_Interval
    <3> QED BY <3>2, <3>3
  <2> HIDE DEF es
  <2>3. IsFiniteSet(DOMAIN es)
    BY <2>1, <2>2, FS_Subset
  <2> QED BY <2>1, <2>2, <2>3 DEF Batch
<1>4. Hub \in Peers \cup {Hub} /\ rev \in Nat /\ skipped \in [Peers -> SUBSET Nat]
  BY DEF ShareInv, ShareTyped
<1> HIDE DEF es, n
<1>5. /\ N \in SUBSET Entry
      /\ rows' \subseteq rows \cup N
  BY <1>1, <1>2, <1>4, InsertIs
<1>6. \A e \in rows : ~(e.rev > rev)
  <2>1. \A e \in rows : e \in Entry /\ Around(e) /\ e.rev \in Nat
    BY EntryFields DEF Around, ShareInv, ShareTyped
  <2>2. \A e \in rows : e.rev <= rev
    BY <2>1 DEF ShareInv, Numbered
  <2> QED BY <1>4, <2>1, <2>2
<1>7. sent \subseteq N
  <2>1. Oldest(added, n) \subseteq added
    BY DEF Oldest
  <2> QED BY <1>5, <1>6, <2>1
<1> HIDE DEF N
<1>8. b \in [src : Peers \cup {Hub}, es : SUBSET Entry] /\ b.src = Hub /\ b.es = sent
  BY <1>4, <1>5, <1>7
<1> HIDE DEF b
<1>9. stored' = IF b.es = {} THEN stored ELSE stored \cup {b}
  BY <1>0, <1>8 DEF b
<1>10. Revs(N \ sent) \subseteq Nat /\ \A e \in N : e \in sent \/ e.rev \in Revs(N \ sent)
  BY <1>5, EntryFields DEF Revs
<1>11. skipped' \in [Peers -> SUBSET Nat]
  BY <1>0, <1>4, <1>10
<1>12. \A p \in Peers : /\ skipped[p] \subseteq skipped'[p]
                        /\ \A e \in rows' : e \in New(Hub, es) => e \in b.es \/ e.rev \in skipped'[p]
  BY <1>0, <1>8, <1>10 DEF N
<1>13. reports' \subseteq reports /\ b.es \subseteq New(Hub, es)
  BY <1>1, <1>7, <1>8 DEF N
<1>14. UNCHANGED <<clock, calls, wire, session, queue, applied, until, protect, short, lifted>>
  BY <1>1
<1> QED BY <1>1, <1>2, <1>4, <1>8, <1>9, <1>11, <1>12, <1>13, <1>14, StoreStep
-----------------------------------------------------------------------------
(* The theorems                                                             *)

\* The invariant holds with an empty ledger and no connection.
LEMMA ShareInitInv ==
    ASSUME ShareInit
    PROVE  ShareInv
<1>1. IsFiniteSet({})
  BY FS_EmptySet
<1>2. ShareTyped
  <2>1. <<>> \in Seq(Item)
    OBVIOUS
  <2> QED BY <1>1, <2>1 DEF ShareInit, ShareTyped
<1>3. \A e : ~Around(e)
  BY DEF ShareInit, Around
<1>4. Numbered /\ Routed /\ Kept /\ Covered
  BY <1>3 DEF ShareInit, Numbered, Routed, Kept, Covered
<1>5. Lifts
  BY DEF ShareInit, Lifts, Writing
<1> QED BY <1>2, <1>4, <1>5 DEF ShareInv

\* Every step keeps the invariant.
LEMMA ShareNextInv ==
    ASSUME ShareInv, [ShareNext]_shareVars
    PROVE  ShareInv'
<1>0. Binds \subseteq Keys /\ UAs \subseteq Keys
  BY ShareAssumption
<1>1. ASSUME NEW p \in Peers, NEW k \in Binds, NEW ttl \in BanTTLs, ReportBind(p, k, ttl)
      PROVE  ShareInv'
  BY <1>0, <1>1, ReportBindStep
<1>2. ASSUME NEW p \in Peers, NEW k \in Binds, Unban(p, k)
      PROVE  ShareInv'
  BY <1>0, <1>2, UnbanStep
<1>3. ASSUME NEW p \in Peers, NEW k \in Binds, NEW ttl \in BanTTLs, RemoteBan(p, k, ttl)
      PROVE  ShareInv'
  BY <1>0, <1>3, RemoteBanStep
<1>25. ASSUME NEW p \in Peers, NEW k \in UAs, ReportUA(p, k)
      PROVE  ShareInv'
  BY <1>0, <1>25, ReportUAStep
<1>26. ASSUME NEW p \in Peers, SetProtect(p)
      PROVE  ShareInv'
  BY <1>26, SetProtectStep
<1>4. ASSUME NEW p \in Peers, Sweep(p)
      PROVE  ShareInv'
  BY <1>4, SweepStep
<1>5. ASSUME NEW p \in Peers, PeerConnect(p)
      PROVE  ShareInv'
  BY <1>5, ConnectStep
<1>6. ASSUME NEW p \in Peers, Register(p)
      PROVE  ShareInv'
  BY <1>6, RegisterStep
<1>7. ASSUME NEW p \in Peers, PeerRemove(p)
      PROVE  ShareInv'
  BY <1>7, RemoveStep
<1>8. ASSUME NEW p \in Peers, ThreatPull(p)
      PROVE  ShareInv'
  BY <1>8, ThreatPullStep
<1>9. ASSUME NEW p \in Peers, PullFailed(p)
      PROVE  ShareInv'
  BY <1>9, PullFailedStep
<1>10. ASSUME NEW p \in Peers, Flush(p)
      PROVE  ShareInv'
  BY <1>10, FlushStep
<1>11. ASSUME NEW p \in Peers, PeerLinkDown(p)
      PROVE  ShareInv'
  BY <1>11, LinkDownStep
<1>12. ASSUME NEW p \in Peers, RestartProxy(p)
      PROVE  ShareInv'
  BY <1>12, RestartProxyStep
<1>13. ASSUME NEW c \in wire, MarkSeen(c)
      PROVE  ShareInv'
  BY <1>13, MarkSeenStep
<1>14. ASSUME NEW c \in wire, ApplyOne(c)
      PROVE  ShareInv'
  BY <1>14, ApplyOneStep
<1>15. ASSUME NEW r \in reports, IngestReport(r)
      PROVE  ShareInv'
  BY <1>15, IngestReportStep
<1>16. ASSUME NEW r \in reports, ReportFailed(r)
      PROVE  ShareInv'
  BY <1>16, ReportFailedStep
<1>17. ASSUME NEW b \in stored, FanOutThreat(b)
      PROVE  ShareInv'
  BY <1>17, FanOutStep
<1>18. ASSUME NEW c \in calls, Call(c)
      PROVE  ShareInv'
  BY <1>18, CallStep
<1>19. CASE handleThreat \/ handleBans
  BY <1>0, <1>19, AdminEntryStep, Numbers DEF handleThreat, handleBans
<1>20. CASE handleThreatIntelIngest \/ RunThreatIntelPoller
  BY <1>20, IngestIOCsStep DEF handleThreatIntelIngest, RunThreatIntelPoller
<1>21. CASE SweepThreatEntries
  BY <1>21, SweepLedgerStep
<1>22. CASE RestartHub
  BY <1>22, RestartHubStep
<1>23. CASE Tick
  BY <1>23, TickStep
<1>24. CASE UNCHANGED shareVars
  <2> USE <1>24 DEF shareVars, clock, ledger, transit, session, node
  <2>1. ShareTyped' /\ Numbered' /\ Routed'
    BY DEF ShareInv, ShareTyped, Numbered, Around, Routed
  <2>2. Kept' /\ Lifts'
    BY DEF ShareInv, Kept, Lasts, Writing, Lifts
  <2>3. Covered'
    BY DEF ShareInv, Covered, Coming
  <2> QED BY <2>1, <2>2, <2>3 DEF ShareInv
<1> QED BY <1>1, <1>2, <1>3, <1>4, <1>5, <1>6, <1>7, <1>8, <1>9, <1>10, <1>11, <1>12, <1>13, <1>14, <1>15,
      <1>16, <1>17, <1>18, <1>19, <1>20, <1>21, <1>22, <1>23, <1>24, <1>25, <1>26
    DEF ShareNext

(* The invariant of the shared ledger: revisions name entries, what is
   remembered is in force, owed, cut short by a later write or skipped for a
   reason of the code, and what was lifted is remembered
   (InsertThreatEntries, ApplyOne, Unban).                                  *)
THEOREM ShareInvariance ==
    ShareSpec => []ShareInv
<1>1. ShareInit => ShareInv
  BY ShareInitInv
<1>2. ShareInv /\ [ShareNext]_shareVars => ShareInv'
  BY ShareNextInv
<1> QED BY <1>1, <1>2, PTL DEF ShareSpec

(* Covered: a connected proxy whose pull was answered bans every row of the
   ledger that another source stored, or is about to, except the entries
   that were left out of the answer or of a feed's fan-out, that the proxy
   dropped, or that a later write cut short (FanOut, pullThreats, ApplyOne). *)
THEOREM LedgerCovers ==
    ShareSpec => []Covered
<1>1. ShareInv => Covered
  BY DEF ShareInv
<1> QED BY <1>1, ShareInvariance, PTL

(* Which steps write a ban and touch what is on the way.                    *)
LEMMA LiftedStep ==
    ASSUME ShareInv, [ShareNext]_shareVars, NEW p \in Peers, NEW k \in Keys, until[p][k] = 0, until'[p][k] # 0,
           wire' # wire
    PROVE  \E c \in wire \ wire' : c.to = p /\ \E e \in c.put : e.rev \notin lifted[p][k]
<1>1. PICK c \in wire : ApplyOne(c)
  <2>1. ~(UNCHANGED wire) /\ ~(UNCHANGED until)
    OBVIOUS
  <2>2. ASSUME NEW q \in Peers, RestartProxy(q)
        PROVE  FALSE
    <3>1. until' = [until EXCEPT ![q] = [l \in Keys |-> 0]]
      BY <2>2 DEF RestartProxy
    <3> QED BY <3>1 DEF ShareInv, ShareTyped
  <2>3. ~handleThreat /\ ~handleBans /\ ~handleThreatIntelIngest /\ ~RunThreatIntelPoller
    BY <2>1 DEF handleThreat, handleBans, AdminEntry, handleThreatIntelIngest,
       RunThreatIntelPoller, IngestIOCs
  <2>4. ~SweepThreatEntries /\ ~RestartHub /\ ~Tick /\ ~(UNCHANGED shareVars)
    BY <2>1 DEF SweepThreatEntries, RestartHub, Tick, transit, node, shareVars
  <2>5. \A q \in Peers : ~Sweep(q) /\ ~PeerConnect(q) /\ ~Register(q) /\ ~PeerRemove(q) /\ ~ThreatPull(q)
                         /\ ~PullFailed(q) /\ ~Flush(q) /\ ~PeerLinkDown(q)
    BY <2>1 DEF Sweep, PeerConnect, Register, PeerRemove, ThreatPull, PullFailed, Flush,
       PeerLinkDown, transit, node
  <2>6. \A q \in Peers : ~SetProtect(q) /\ \A l : ~Unban(q, l) /\ ~ReportUA(q, l)
                         /\ \A ttl \in BanTTLs : ~ReportBind(q, l, ttl) /\ ~RemoteBan(q, l, ttl)
    BY <2>1 DEF SetProtect, Unban, ReportBind, ReportUA, RemoteBan, transit
  <2>7. \A c \in wire : ~MarkSeen(c)
    BY <2>1 DEF MarkSeen
  <2>8. \A r \in reports : ~IngestReport(r) /\ ~ReportFailed(r)
    BY <2>1 DEF IngestReport, ReportFailed
  <2>9. (\A b \in stored : ~FanOutThreat(b)) /\ (\A c \in calls : ~Call(c))
    BY <2>1 DEF FanOutThreat, Call, node
  <2> QED BY <2>2, <2>3, <2>4, <2>5, <2>6, <2>7, <2>8, <2>9 DEF ShareNext
<1>2. c.to \in Peers /\ c.put \in SUBSET Entry
  BY Carriers DEF ShareInv
<1>3. PICK e \in c.put : Put(c.to, e.key, e.exp) /\ Step(c, [c EXCEPT !.put = {}])
  BY <1>1 DEF ApplyOne
<1>4. c.to = p
  BY <1>2, <1>3 DEF Put, ShareInv, ShareTyped
<1>5. c \notin wire'
  <2>1. [c EXCEPT !.put = {}].put = {}
    BY DEF ShareInv, ShareTyped
  <2>2. c # [c EXCEPT !.put = {}]
    BY <1>3, <2>1
  <2> QED BY <1>3, <2>2 DEF Step
<1>6. e.rev \notin lifted[p][k]
  <2>1. Writing(p, e) /\ e \in Entry
    BY <1>2, <1>3, <1>4 DEF Writing
  <2> QED BY <2>1 DEF ShareInv, Lifts
<1> QED BY <1>3, <1>4, <1>5, <1>6

(* LiftedStays: no entry that a proxy had applied before it lifted a ban
   bans the key again (markSeen, Unban).                                    *)
THEOREM LiftedBansStay ==
    ShareSpec => LiftedStays
<1>1. ShareInv /\ [ShareNext]_shareVars =>
        [\A p \in Peers, k \in Keys :
           until[p][k] = 0 /\ until'[p][k] # 0 /\ wire' # wire =>
             \E c \in wire \ wire' : c.to = p /\ \E e \in c.put : e.rev \notin lifted[p][k]]_shareVars
  BY LiftedStep
<1> QED BY <1>1, ShareInvariance, PTL DEF ShareSpec, LiftedStays
=============================================================================
