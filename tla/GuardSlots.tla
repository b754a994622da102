----------------------------- MODULE GuardSlots ----------------------------
(***************************************************************************)
(* The concurrency slots of protect.Guard: Acquire, Release and the part   *)
(* of Sweep that drops idle per-client counters.                           *)
(*                                                                         *)
(* Nothing here is under a mutex.  The global count is an atomic integer,  *)
(* the clients are a sync.Map from a key to a pointer to an atomic         *)
(* integer, and each atomic operation is one step of a request goroutine   *)
(* (or of the sweeper).  A counter is a cell of the heap: it can be        *)
(* unlinked from the map while a goroutine still holds its pointer.        *)
(***************************************************************************)
EXTENDS Integers, FiniteSets

CONSTANTS
    Requests,   \* request goroutines
    Keys,       \* client bind keys other than ""
    Cells,      \* heap cells for *clientConc, enough for every pointer held at once
    Globals,    \* configurable values of MaxConcurrentGlobal
    PerClient,  \* configurable values of MaxConcurrentClient
    Switch,     \* values of Enabled an operator stores
    MaxSweeps   \* bound: how many counters the sweeper finds idle

\* The bind key of a request that has none.
NoKey == ""

ASSUME SlotConstants ==
    /\ IsFiniteSet(Requests) /\ IsFiniteSet(Keys) /\ NoKey \notin Keys
    /\ Globals \subseteq Nat \ {0} /\ Globals # {}
    /\ PerClient \subseteq Nat \ {0} /\ PerClient # {}
    /\ TRUE \in Switch /\ Switch \subseteq BOOLEAN
    /\ MaxSweeps \in Nat

VARIABLES
    cfg,      \* Guard.cfg, the part the slots read
    global,   \* Guard.global
    clients,  \* Guard.clients: a function whose domain is the keys present
    n,        \* clientConc.n of every cell
    pc,       \* where each request goroutine is
    key,      \* the key it was called with
    lim,      \* the limits it loaded
    cell,     \* the counter it holds a pointer to
    swept,    \* the sweeper: the entry it has read as idle and not yet deleted
    sweeps    \* how many entries it has read as idle

vars == <<cfg, global, clients, n, pc, key, lim, cell, swept, sweeps>>

\* What no step of a goroutine's Acquire or Release touches.
others == <<cfg, swept, sweeps>>

Limits == [global : Globals, client : PerClient]

Stages == {"idle", "enter", "admit", "lookup", "add", "undoClient", "undoGlobal",
           "recheck", "republish", "serving", "leave", "unlookup", "sub"}

\* The stages in which a goroutine owns one unit of the global count.
HoldsGlobal == {"lookup", "add", "undoClient", "undoGlobal", "recheck", "republish",
                "serving", "leave"}

\* The stages in which it owns one unit of its client's counter.
HoldsClient == {"undoClient", "recheck", "republish", "serving", "leave", "unlookup", "sub"}

\* The stages in which it holds a pointer to a counter that it will still use.
HoldsPointer == {"add", "undoClient", "recheck", "republish", "sub"}

\* The stages in which Acquire has decided, or will decide, to return true.
Admitted == {"recheck", "republish", "serving"}

----------------------------------------------------------------------------
\* Pointers that goroutines or the map still hold: a cell outside this set is
\* what &clientConc{} allocates.
Reachable ==
    {clients[k] : k \in DOMAIN clients} \cup {s[2] : s \in swept}
      \cup {cell[r] : r \in {q \in Requests : pc[q] \in HoldsPointer}}

Link(k, x) == [y \in DOMAIN clients \cup {k} |-> IF y = k THEN x ELSE clients[y]]

Go(r, stage) == pc' = [pc EXCEPT ![r] = stage]

Init ==
    /\ cfg \in [enabled : {TRUE}, global : Globals, client : PerClient]
    /\ global = 0
    /\ clients = [k \in {} |-> 0]
    /\ n = [x \in Cells |-> 0]
    /\ pc = [r \in Requests |-> "idle"]
    /\ key = [r \in Requests |-> NoKey]
    /\ lim = [r \in Requests |-> [global |-> cfg.global, client |-> cfg.client]]
    /\ \E x \in Cells : cell = [r \in Requests |-> x]
    /\ swept = {} /\ sweeps = 0

\* pipeline.guard: the request reaches Acquire only if the guard is enabled.
Arrive(r, k) ==
    /\ pc[r] = "idle" /\ cfg.enabled
    /\ key' = [key EXCEPT ![r] = k]
    /\ Go(r, "enter")
    /\ UNCHANGED <<global, clients, n, lim, cell, others>>

\* Acquire loads the configuration; a guard disabled by now admits uncounted.
AcquireLoad(r) ==
    /\ pc[r] = "enter"
    /\ Go(r, IF cfg.enabled THEN "admit" ELSE "serving")
    /\ lim' = [lim EXCEPT ![r] = [global |-> cfg.global, client |-> cfg.client]]
    /\ UNCHANGED <<global, clients, n, key, cell, others>>

\* Fault: the count is read and written without the compare-and-swap's retry
\* seeing the limit, an off-by-one at the boundary.
AdmitGlobal_OffByOne(r) ==
    /\ pc[r] = "admit"
    /\ IF global > lim[r].global
         THEN Go(r, "idle") /\ UNCHANGED global
         ELSE /\ global' = global + 1
              /\ Go(r, IF key[r] = NoKey THEN "serving" ELSE "lookup")
    /\ UNCHANGED <<clients, n, key, lim, cell, others>>

\* The compare-and-swap loop on the global count.
AdmitGlobal(r) ==
    /\ pc[r] = "admit"
    /\ IF global >= lim[r].global
         THEN Go(r, "idle") /\ UNCHANGED global
         ELSE /\ global' = global + 1
              /\ Go(r, IF key[r] = NoKey THEN "serving" ELSE "lookup")
    /\ UNCHANGED <<clients, n, key, lim, cell, others>>

\* v, _ := g.clients.LoadOrStore(key, &clientConc{})
LoadOrStore(r) ==
    /\ pc[r] = "lookup"
    /\ \/ /\ key[r] \in DOMAIN clients
          /\ cell' = [cell EXCEPT ![r] = clients[key[r]]]
          /\ UNCHANGED <<clients, n>>
       \/ /\ key[r] \notin DOMAIN clients
          /\ \E x \in Cells \ Reachable :
               /\ clients' = Link(key[r], x)
               /\ n' = [n EXCEPT ![x] = 0]
               /\ cell' = [cell EXCEPT ![r] = x]
    /\ Go(r, "add")
    /\ UNCHANGED <<global, key, lim, others>>

\* n := c.n.Add(1) and the test of the limit.
AddClient(r) ==
    /\ pc[r] = "add"
    /\ n' = [n EXCEPT ![cell[r]] = n[cell[r]] + 1]
    /\ Go(r, IF n[cell[r]] + 1 > lim[r].client THEN "undoClient" ELSE "recheck")
    /\ UNCHANGED <<global, clients, key, lim, cell, others>>

\* Over the client's limit: give both counts back and refuse.
UndoClient(r) ==
    /\ pc[r] = "undoClient"
    /\ n' = [n EXCEPT ![cell[r]] = n[cell[r]] - 1]
    /\ Go(r, "undoGlobal")
    /\ UNCHANGED <<global, clients, key, lim, cell, others>>

\* Fault: a refused request gives only the client's unit back.
UndoGlobal_Forgets(r) ==
    /\ pc[r] = "undoGlobal"
    /\ Go(r, "idle")
    /\ UNCHANGED <<global, clients, n, key, lim, cell, others>>

UndoGlobal(r) ==
    /\ pc[r] = "undoGlobal"
    /\ global' = global - 1
    /\ Go(r, "idle")
    /\ UNCHANGED <<clients, n, key, lim, cell, others>>

\* if cur, ok := g.clients.Load(key); !ok || cur != c
Recheck(r) ==
    /\ pc[r] = "recheck"
    /\ Go(r, IF key[r] \in DOMAIN clients /\ clients[key[r]] = cell[r] THEN "serving" ELSE "republish")
    /\ UNCHANGED <<global, clients, n, key, lim, cell, others>>

Republish(r) ==
    /\ pc[r] = "republish"
    /\ clients' = Link(key[r], cell[r])
    /\ Go(r, "serving")
    /\ UNCHANGED <<global, n, key, lim, cell, others>>

\* The deferred Release: it does nothing when the guard is disabled by now.
Release(r) ==
    /\ pc[r] = "serving"
    /\ Go(r, IF cfg.enabled THEN "leave" ELSE "idle")
    /\ UNCHANGED <<global, clients, n, key, lim, cell, others>>

ReleaseGlobal(r) ==
    /\ pc[r] = "leave"
    /\ global' = global - 1
    /\ Go(r, IF key[r] = NoKey THEN "idle" ELSE "unlookup")
    /\ UNCHANGED <<clients, n, key, lim, cell, others>>

\* Release finds its counter through the map, not through Acquire's pointer.
ReleaseLookup(r) ==
    /\ pc[r] = "unlookup"
    /\ \/ /\ key[r] \in DOMAIN clients
          /\ cell' = [cell EXCEPT ![r] = clients[key[r]]]
          /\ Go(r, "sub")
       \/ /\ key[r] \notin DOMAIN clients
          /\ Go(r, "idle") /\ UNCHANGED cell
    /\ UNCHANGED <<global, clients, n, key, lim, others>>

ReleaseClient(r) ==
    /\ pc[r] = "sub"
    /\ n' = [n EXCEPT ![cell[r]] = n[cell[r]] - 1]
    /\ Go(r, "idle")
    /\ UNCHANGED <<global, clients, key, lim, cell, others>>

----------------------------------------------------------------------------
\* The sweeper's Range reads a counter as zero ...
SweepRead(k) ==
    /\ sweeps < MaxSweeps /\ swept = {}
    /\ k \in DOMAIN clients /\ n[clients[k]] = 0
    /\ swept' = {<<k, clients[k]>>} /\ sweeps' = sweeps + 1
    /\ UNCHANGED <<cfg, global, clients, n, pc, key, lim, cell>>

\* ... and CompareAndDelete removes it, if the key still maps to that counter.
SweepDelete ==
    \E s \in swept :
      /\ swept' = {}
      /\ clients' = IF s[1] \in DOMAIN clients /\ clients[s[1]] = s[2]
                      THEN [y \in DOMAIN clients \ {s[1]} |-> clients[y]]
                      ELSE clients
      /\ UNCHANGED <<cfg, global, n, pc, key, lim, cell, sweeps>>

UpdateConfig ==
    /\ cfg' \in [enabled : Switch, global : Globals, client : PerClient]
    /\ UNCHANGED <<global, clients, n, pc, key, lim, cell, swept, sweeps>>

Acquire(r) ==
    \/ AcquireLoad(r) \/ AdmitGlobal(r) \/ LoadOrStore(r) \/ AddClient(r)
    \/ UndoClient(r) \/ UndoGlobal(r) \/ Recheck(r) \/ Republish(r)

Leave(r) == Release(r) \/ ReleaseGlobal(r) \/ ReleaseLookup(r) \/ ReleaseClient(r)

Next ==
    \/ \E r \in Requests, k \in Keys \cup {NoKey} : Arrive(r, k)
    \/ \E r \in Requests : Acquire(r) \/ Leave(r)
    \/ \E k \in Keys : SweepRead(k)
    \/ SweepDelete
    \/ UpdateConfig

Spec == Init /\ [][Next]_vars

----------------------------------------------------------------------------
(* Type correctness. *)
TypeOK ==
    /\ cfg \in [enabled : BOOLEAN, global : Globals, client : PerClient]
    /\ global \in Int
    /\ DOMAIN clients \subseteq Keys /\ clients \in [DOMAIN clients -> Cells]
    /\ n \in [Cells -> Int]
    /\ pc \in [Requests -> Stages]
    /\ key \in [Requests -> Keys \cup {NoKey}]
    /\ lim \in [Requests -> Limits]
    /\ cell \in [Requests -> Cells]
    /\ swept \subseteq Keys \X Cells /\ sweeps \in Nat

At(stages) == {r \in Requests : pc[r] \in stages}
Of(k, stages) == {r \in Requests : key[r] = k /\ pc[r] \in stages}

\* The global count is exactly the number of goroutines that own a unit of it,
\* at every step of every interleaving of Acquire, Release, Sweep and limit
\* changes, while the guard stays enabled.
GlobalExact == Switch = {TRUE} => global = Cardinality(At(HoldsGlobal))

\* No more requests are served at once than some configured
\* MaxConcurrentGlobal, while the guard stays enabled.
GlobalBound ==
    Switch = {TRUE} => \E m \in Globals : Cardinality(At(Admitted)) <= m

\* Until the sweeper finds a counter idle for the first time, a client's counter
\* is exactly the number of its goroutines that own a unit of it, ...
ClientExact ==
    Switch = {TRUE} /\ sweeps = 0 =>
      \A k \in DOMAIN clients : n[clients[k]] = Cardinality(Of(k, HoldsClient))

\* ... and no client has more requests served at once than some configured
\* MaxConcurrentClient.
ClientBound ==
    Switch = {TRUE} /\ sweeps = 0 =>
      \A k \in Keys : \E m \in PerClient : Cardinality(Of(k, Admitted)) <= m

\* The map never holds one counter under two keys, so that one client's
\* requests never count against another's, even when counters are unlinked,
\* republished and reallocated.
CellsNotShared ==
    \A k1, k2 \in DOMAIN clients : clients[k1] = clients[k2] => k1 = k2

\* The counters are right and each client has its own: no slot is lost or
\* taken twice by a request that is refused, served or overtaken.
CountsExact == GlobalExact /\ ClientExact /\ CellsNotShared

\* Both limits hold, the clients' until the first sweep: after it two requests
\* of one client may count in two counters, although "Acquire re-Stores if a
\* race still lands" (protect.go:360-361).
LimitsHold == GlobalBound /\ ClientBound
============================================================================
