----------------------------- MODULE GuardProofs ----------------------------
(***************************************************************************)
(* Proofs about protect.Guard: GuardSlots, for any number of requests,     *)
(* clients and heap cells and for every set of limits, then BanLedger, for *)
(* every set of goroutines and configurations and for every bound.         *)
(***************************************************************************)
EXTENDS GuardSlots, BanLedger, FiniteSetTheorems, TLAPS

\* The guard stays enabled.
Steady == Switch = {TRUE}

----------------------------------------------------------------------------
(* Type correctness. *)

\* A goroutine only moves between stages.
LEMMA GoType ==
    ASSUME TypeOK, NEW r \in Requests, NEW stage \in Stages, Go(r, stage)
    PROVE  pc' \in [Requests -> Stages]
BY DEF TypeOK, Go

\* Linking a counter adds its key and changes no other link.
LEMMA LinkType ==
    ASSUME TypeOK, NEW k \in Keys, NEW x \in Cells
    PROVE  /\ DOMAIN Link(k, x) = DOMAIN clients \cup {k}
           /\ Link(k, x) \in [DOMAIN Link(k, x) -> Cells]
           /\ Link(k, x)[k] = x
           /\ \A y \in DOMAIN clients : y # k => Link(k, x)[y] = clients[y]
BY DEF TypeOK, Link

\* The map stays typed when a counter is linked.
LEMMA LinkTyped ==
    ASSUME TypeOK, NEW k \in Keys, NEW x \in Cells, clients' = Link(k, x)
    PROVE  DOMAIN clients' \subseteq Keys /\ clients' \in [DOMAIN clients' -> Cells]
<1>1. DOMAIN clients \subseteq Keys
  BY DEF TypeOK
<1>2. /\ DOMAIN Link(k, x) = DOMAIN clients \cup {k}
      /\ Link(k, x) \in [DOMAIN Link(k, x) -> Cells]
  BY LinkType
<1> QED  BY <1>1, <1>2

\* A goroutine that works on a client's counter was called with a key.
Keyed == {"lookup", "add", "undoClient", "recheck", "republish", "unlookup", "sub"}

KeyedHasKey == \A r \in Requests : pc[r] \in Keyed => key[r] \in Keys

TInv == TypeOK /\ KeyedHasKey

\* A new guard is typed.
LEMMA InitTInv == Init => TInv
<1> SUFFICES ASSUME Init PROVE TInv
  OBVIOUS
<1>1. lim \in [Requests -> Limits]
  BY DEF Init, Limits
<1>2. cfg \in [enabled : BOOLEAN, global : Globals, client : PerClient]
  BY DEF Init
<1>3. pc \in [Requests -> Stages] /\ KeyedHasKey
  BY DEF Init, Stages, KeyedHasKey, Keyed
<1>4. cell \in [Requests -> Cells] /\ key \in [Requests -> Keys \cup {NoKey}]
  BY DEF Init
<1>5. DOMAIN clients \subseteq Keys /\ clients \in [DOMAIN clients -> Cells]
  BY DEF Init
<1> QED  BY <1>1, <1>2, <1>3, <1>4, <1>5 DEF Init, TInv, TypeOK

\* What the steps of Acquire that take no configuration leave alone.
LEMMA KeyedStep ==
    ASSUME TInv, NEW r \in Requests, NEW stage \in Stages, Go(r, stage), key' = key,
           stage \in Keyed => key[r] \in Keys
    PROVE  KeyedHasKey'
BY DEF TInv, TypeOK, KeyedHasKey, Go

\* The steps of Acquire preserve the types.
LEMMA AcquireTInv ==
    ASSUME TInv, NEW r \in Requests, Acquire(r)
    PROVE  TInv'
<1> USE DEF TInv
<1>1. CASE AcquireLoad(r)
  <2>1. lim' \in [Requests -> Limits]
    BY <1>1 DEF AcquireLoad, TypeOK, Limits
  <2>2. TypeOK'
    <3>1. pc' \in [Requests -> Stages]
      BY <1>1, <2>1, GoType DEF AcquireLoad, Stages
    <3> QED  BY <1>1, <2>1, <3>1 DEF AcquireLoad, TypeOK, others
  <2>3. KeyedHasKey'
    BY <1>1, KeyedStep DEF AcquireLoad, Stages, Keyed
  <2> QED  BY <2>2, <2>3
<1>2. CASE AdmitGlobal(r)
  <2>1. TypeOK'
    <3>1. pc' \in [Requests -> Stages]
      BY <1>2, GoType DEF AdmitGlobal, Stages
    <3> QED  BY <1>2, <3>1 DEF AdmitGlobal, TypeOK, others
  <2>2. KeyedHasKey'
    <3>1. CASE global >= lim[r].global
      BY <1>2, <3>1, KeyedStep DEF AdmitGlobal, Stages, Keyed
    <3>2. CASE ~(global >= lim[r].global)
      BY <1>2, <3>2, KeyedStep DEF AdmitGlobal, Stages, Keyed, TypeOK
    <3> QED  BY <3>1, <3>2
  <2> QED  BY <2>1, <2>2
<1>3. CASE LoadOrStore(r)
  <2>1. key[r] \in Keys /\ pc' \in [Requests -> Stages] /\ KeyedHasKey'
    BY <1>3, GoType, KeyedStep DEF LoadOrStore, KeyedHasKey, Keyed, Stages
  <2>2. CASE key[r] \in DOMAIN clients
    BY <1>3, <2>1, <2>2 DEF LoadOrStore, TypeOK, others
  <2>3. CASE key[r] \notin DOMAIN clients
    <3>1. PICK x \in Cells : /\ clients' = Link(key[r], x)
                             /\ n' = [n EXCEPT ![x] = 0]
                             /\ cell' = [cell EXCEPT ![r] = x]
      BY <1>3, <2>3 DEF LoadOrStore
    <3>2. DOMAIN clients' \subseteq Keys /\ clients' \in [DOMAIN clients' -> Cells]
      BY <2>1, <3>1, LinkTyped
    <3> QED  BY <1>3, <2>1, <3>1, <3>2 DEF LoadOrStore, TypeOK, others
  <2> QED  BY <2>2, <2>3
<1>4. CASE AddClient(r)
  <2>1. TypeOK'
    <3>1. pc' \in [Requests -> Stages]
      BY <1>4, GoType DEF AddClient, Stages
    <3> QED  BY <1>4, <3>1 DEF AddClient, TypeOK, others
  <2> QED  BY <1>4, <2>1, KeyedStep DEF AddClient, KeyedHasKey, Keyed, Stages
<1>5. CASE UndoClient(r)
  <2>1. TypeOK'
    <3>1. pc' \in [Requests -> Stages]
      BY <1>5, GoType DEF UndoClient, Stages
    <3> QED  BY <1>5, <3>1 DEF UndoClient, TypeOK, others
  <2> QED  BY <1>5, <2>1, KeyedStep DEF UndoClient, Keyed, Stages
<1>6. CASE UndoGlobal(r)
  <2>1. TypeOK'
    <3>1. pc' \in [Requests -> Stages]
      BY <1>6, GoType DEF UndoGlobal, Stages
    <3> QED  BY <1>6, <3>1 DEF UndoGlobal, TypeOK, others
  <2> QED  BY <1>6, <2>1, KeyedStep DEF UndoGlobal, Keyed, Stages
<1>7. CASE Recheck(r)
  <2>1. TypeOK'
    <3>1. pc' \in [Requests -> Stages]
      BY <1>7, GoType DEF Recheck, Stages
    <3> QED  BY <1>7, <3>1 DEF Recheck, TypeOK, others
  <2> QED  BY <1>7, <2>1, KeyedStep DEF Recheck, KeyedHasKey, Keyed, Stages
<1>8. CASE Republish(r)
  <2>1. key[r] \in Keys /\ cell[r] \in Cells
    BY <1>8 DEF Republish, KeyedHasKey, Keyed, TypeOK
  <2>2. DOMAIN clients' \subseteq Keys /\ clients' \in [DOMAIN clients' -> Cells]
    BY <1>8, <2>1, LinkTyped DEF Republish
  <2>3. TypeOK'
    <3>1. pc' \in [Requests -> Stages]
      BY <1>8, <2>2, GoType DEF Republish, Stages
    <3> QED  BY <1>8, <2>2, <3>1 DEF Republish, TypeOK, others
  <2> QED  BY <1>8, <2>3, KeyedStep DEF Republish, Keyed, Stages
<1> QED  BY <1>1, <1>2, <1>3, <1>4, <1>5, <1>6, <1>7, <1>8 DEF Acquire

\* The steps of Release preserve the types.
LEMMA LeaveTInv ==
    ASSUME TInv, NEW r \in Requests, Leave(r)
    PROVE  TInv'
<1> USE DEF TInv
<1>1. CASE Release(r)
  <2>1. TypeOK'
    <3>1. pc' \in [Requests -> Stages]
      BY <1>1, GoType DEF Release, Stages
    <3> QED  BY <1>1, <3>1 DEF Release, TypeOK, others
  <2> QED  BY <1>1, <2>1, KeyedStep DEF Release, Keyed, Stages
<1>2. CASE ReleaseGlobal(r)
  <2>1. TypeOK'
    <3>1. pc' \in [Requests -> Stages]
      BY <1>2, GoType DEF ReleaseGlobal, Stages
    <3> QED  BY <1>2, <3>1 DEF ReleaseGlobal, TypeOK, others
  <2> QED  BY <1>2, <2>1, KeyedStep DEF ReleaseGlobal, TypeOK, Keyed, Stages
<1>3. CASE ReleaseLookup(r)
  <2>1. key[r] \in Keys
    BY <1>3 DEF ReleaseLookup, KeyedHasKey, Keyed
  <2>2. TypeOK'
    <3>1. pc' \in [Requests -> Stages]
      BY <1>3, <2>1, GoType DEF ReleaseLookup, Stages
    <3> QED  BY <1>3, <2>1, <3>1 DEF ReleaseLookup, TypeOK, others
  <2> QED  BY <1>3, <2>1, <2>2, KeyedStep DEF ReleaseLookup, Keyed, Stages
<1>4. CASE ReleaseClient(r)
  <2>1. TypeOK'
    <3>1. pc' \in [Requests -> Stages]
      BY <1>4, GoType DEF ReleaseClient, Stages
    <3> QED  BY <1>4, <3>1 DEF ReleaseClient, TypeOK, others
  <2> QED  BY <1>4, <2>1, KeyedStep DEF ReleaseClient, Keyed, Stages
<1> QED  BY <1>1, <1>2, <1>3, <1>4 DEF Leave

\* Every step preserves the types.
LEMMA NextTInv == TInv /\ [Next]_vars => TInv'
<1> SUFFICES ASSUME TInv, [Next]_vars PROVE TInv'
  OBVIOUS
<1>1. ASSUME NEW r \in Requests, NEW k \in Keys \cup {NoKey}, Arrive(r, k) PROVE TInv'
  <2>1. TypeOK'
    BY <1>1, GoType DEF TInv, Arrive, TypeOK, Stages, others
  <2>2. KeyedHasKey'
    BY <1>1 DEF TInv, Arrive, Go, TypeOK, KeyedHasKey, Keyed
  <2> QED  BY <2>1, <2>2 DEF TInv
<1>2. ASSUME NEW r \in Requests, Acquire(r) \/ Leave(r) PROVE TInv'
  BY <1>2, AcquireTInv, LeaveTInv
<1>3. ASSUME NEW k \in Keys, SweepRead(k) PROVE TInv'
  BY <1>3 DEF TInv, TypeOK, KeyedHasKey, SweepRead
<1>4. CASE SweepDelete
  BY <1>4 DEF TInv, TypeOK, KeyedHasKey, SweepDelete
<1>5. CASE UpdateConfig
  <2>1. cfg' \in [enabled : BOOLEAN, global : Globals, client : PerClient]
    BY <1>5, SlotConstants DEF UpdateConfig
  <2> QED  BY <1>5, <2>1 DEF TInv, TypeOK, KeyedHasKey, UpdateConfig
<1>6. CASE UNCHANGED vars
  BY <1>6 DEF TInv, TypeOK, KeyedHasKey, vars
<1> QED  BY <1>1, <1>2, <1>3, <1>4, <1>5, <1>6 DEF Next

\* Type correctness of the slots.
THEOREM TypeCorrect == Spec => []TypeOK
<1>1. TInv => TypeOK
  BY DEF TInv
<1> QED  BY <1>1, InitTInv, NextTInv, PTL DEF Spec

----------------------------------------------------------------------------
(* Counting the goroutines in a set of stages. *)

\* A set of requests is finite.
LEMMA Finite ==
    ASSUME NEW S \in SUBSET Requests
    PROVE  IsFiniteSet(S) /\ Cardinality(S) \in Nat
BY SlotConstants, FS_Subset, FS_CardinalityType

\* A set that one goroutine enters, leaves, or neither.
LEMMA CountChange ==
    ASSUME NEW S \in SUBSET Requests, NEW T \in SUBSET Requests, NEW r \in Requests,
           \A q \in Requests : q # r => (q \in S <=> q \in T)
    PROVE  /\ r \notin S /\ r \in T => Cardinality(T) = Cardinality(S) + 1
           /\ r \in S /\ r \notin T => Cardinality(T) = Cardinality(S) - 1
           /\ (r \in S <=> r \in T) => T = S
<1>1. IsFiniteSet(S)
  BY Finite
<1>2. CASE r \notin S /\ r \in T
  <2>1. T = S \cup {r}
    BY <1>2
  <2> QED  BY <1>1, <1>2, <2>1, FS_AddElement
<1>3. CASE r \in S /\ r \notin T
  <2>1. T = S \ {r}
    BY <1>3
  <2> QED  BY <1>1, <1>3, <2>1, FS_RemoveElement
<1>4. (r \in S <=> r \in T) => T = S
  OBVIOUS
<1> QED  BY <1>2, <1>3, <1>4

\* When one goroutine moves.
LEMMA AtMoves ==
    ASSUME TypeOK, NEW r \in Requests, NEW stage \in Stages, Go(r, stage), NEW S
    PROVE  /\ pc[r] \notin S /\ stage \in S => Cardinality(At(S)') = Cardinality(At(S)) + 1
           /\ pc[r] \in S /\ stage \notin S => Cardinality(At(S)') = Cardinality(At(S)) - 1
           /\ (pc[r] \in S <=> stage \in S) => At(S)' = At(S)
<1>1. At(S) \in SUBSET Requests /\ At(S)' \in SUBSET Requests
  BY DEF At
<1>2. /\ \A q \in Requests : q # r => (q \in At(S) <=> q \in At(S)')
      /\ r \in At(S) <=> pc[r] \in S
      /\ r \in At(S)' <=> stage \in S
  BY DEF At, Go, TypeOK
<1> QED  BY <1>1, <1>2, CountChange

\* When one goroutine of client k moves.
LEMMA OfMoves ==
    ASSUME TypeOK, NEW r \in Requests, NEW stage \in Stages, Go(r, stage), key' = key, NEW S, NEW k
    PROVE  /\ key[r] # k => Of(k, S)' = Of(k, S)
           /\ key[r] = k /\ pc[r] \notin S /\ stage \in S =>
                Cardinality(Of(k, S)') = Cardinality(Of(k, S)) + 1
           /\ key[r] = k /\ pc[r] \in S /\ stage \notin S =>
                Cardinality(Of(k, S)') = Cardinality(Of(k, S)) - 1
           /\ (pc[r] \in S <=> stage \in S) => Of(k, S)' = Of(k, S)
<1>1. Of(k, S) \in SUBSET Requests /\ Of(k, S)' \in SUBSET Requests
  BY DEF Of
<1>2. /\ \A q \in Requests : q # r => (q \in Of(k, S) <=> q \in Of(k, S)')
      /\ r \in Of(k, S) <=> key[r] = k /\ pc[r] \in S
      /\ r \in Of(k, S)' <=> key[r] = k /\ stage \in S
  BY DEF Of, Go, TypeOK
<1> QED  BY <1>1, <1>2, CountChange

----------------------------------------------------------------------------
(* The global count. *)

\* Some limit that was configured covers the count.
GlobalRoom == \E m \in Globals : global <= m

GInv == TInv /\ (Steady => cfg.enabled /\ GlobalExact /\ GlobalRoom)

\* A new guard counts nobody.
LEMMA InitGInv == Init => GInv
<1> SUFFICES ASSUME Init PROVE GInv
  OBVIOUS
<1>1. TInv
  BY InitTInv
<1>2. At(HoldsGlobal) = {}
  BY DEF Init, At, HoldsGlobal
<1>3. GlobalExact
  BY <1>2, FS_EmptySet DEF Init, GlobalExact
<1>4. GlobalRoom
  <2>1. PICK m \in Globals : m \in Nat
    BY SlotConstants
  <2> QED  BY <2>1 DEF Init, GlobalRoom
<1> QED  BY <1>1, <1>3, <1>4 DEF Init, GInv

\* A step within the stages that own a unit, or within the others, leaves the
\* count alone.
LEMMA SameGlobal ==
    ASSUME TypeOK, Steady, GlobalExact, GlobalRoom, NEW r \in Requests, NEW stage \in Stages,
           Go(r, stage), global' = global, pc[r] \in HoldsGlobal <=> stage \in HoldsGlobal
    PROVE  GlobalExact' /\ GlobalRoom'
<1>1. At(HoldsGlobal)' = At(HoldsGlobal)
  BY AtMoves
<1> QED  BY <1>1 DEF GlobalExact, GlobalRoom

\* A goroutine gives its unit of the global count back.
LEMMA DropGlobal ==
    ASSUME TypeOK, Steady, GlobalExact, GlobalRoom, NEW r \in Requests, NEW stage \in Stages,
           Go(r, stage), global' = global - 1, pc[r] \in HoldsGlobal, stage \notin HoldsGlobal
    PROVE  GlobalExact' /\ GlobalRoom'
<1>1. Cardinality(At(HoldsGlobal)') = Cardinality(At(HoldsGlobal)) - 1
  BY AtMoves
<1>2. global \in Int /\ Globals \subseteq Int
  BY SlotConstants DEF TypeOK
<1> QED  BY <1>1, <1>2 DEF GlobalExact, GlobalRoom, Steady

\* A goroutine takes a unit of the global count below its limit.
LEMMA TakeGlobal ==
    ASSUME TypeOK, Steady, GlobalExact, NEW r \in Requests, NEW stage \in Stages,
           Go(r, stage), global' = global + 1, pc[r] \notin HoldsGlobal, stage \in HoldsGlobal,
           global < lim[r].global
    PROVE  GlobalExact' /\ GlobalRoom'
<1>1. Cardinality(At(HoldsGlobal)') = Cardinality(At(HoldsGlobal)) + 1
  BY AtMoves
<1>2. global \in Int /\ lim[r].global \in Globals /\ lim[r].global \in Int
  BY SlotConstants DEF TypeOK, Limits
<1> QED  BY <1>1, <1>2 DEF GlobalExact, GlobalRoom, Steady

\* The steps of Acquire keep the global count exact.
LEMMA AcquireGlobal ==
    ASSUME TypeOK, Steady, cfg.enabled, GlobalExact, GlobalRoom, NEW r \in Requests, Acquire(r)
    PROVE  GlobalExact' /\ GlobalRoom'
<1> USE DEF HoldsGlobal, Stages
<1>1. CASE AcquireLoad(r)
  BY <1>1, SameGlobal DEF AcquireLoad
<1>2. CASE AdmitGlobal(r) /\ global >= lim[r].global
  BY <1>2, SameGlobal DEF AdmitGlobal
<1>3. CASE AdmitGlobal(r) /\ ~(global >= lim[r].global)
  <2>1. global < lim[r].global
    BY <1>3, SlotConstants DEF TypeOK, Limits
  <2>2. CASE key[r] = NoKey
    BY <1>3, <2>1, <2>2, TakeGlobal DEF AdmitGlobal
  <2>3. CASE key[r] # NoKey
    BY <1>3, <2>1, <2>3, TakeGlobal DEF AdmitGlobal
  <2> QED  BY <2>2, <2>3
<1>4. CASE LoadOrStore(r)
  BY <1>4, SameGlobal DEF LoadOrStore
<1>5. CASE AddClient(r)
  BY <1>5, SameGlobal DEF AddClient
<1>6. CASE UndoClient(r)
  BY <1>6, SameGlobal DEF UndoClient
<1>7. CASE UndoGlobal(r)
  BY <1>7, DropGlobal DEF UndoGlobal
<1>8. CASE Recheck(r)
  BY <1>8, SameGlobal DEF Recheck
<1>9. CASE Republish(r)
  BY <1>9, SameGlobal DEF Republish
<1> QED  BY <1>1, <1>2, <1>3, <1>4, <1>5, <1>6, <1>7, <1>8, <1>9 DEF Acquire

\* The steps of Release keep the global count exact.
LEMMA LeaveGlobal ==
    ASSUME TypeOK, Steady, cfg.enabled, GlobalExact, GlobalRoom, NEW r \in Requests, Leave(r)
    PROVE  GlobalExact' /\ GlobalRoom'
<1> USE DEF HoldsGlobal, Stages
<1>1. CASE Release(r)
  BY <1>1, SameGlobal DEF Release
<1>2. CASE ReleaseGlobal(r)
  <2>1. CASE key[r] = NoKey
    BY <1>2, <2>1, DropGlobal DEF ReleaseGlobal
  <2>2. CASE key[r] # NoKey
    BY <1>2, <2>2, DropGlobal DEF ReleaseGlobal
  <2> QED  BY <2>1, <2>2
<1>3. CASE ReleaseLookup(r)
  BY <1>3, SameGlobal DEF ReleaseLookup
<1>4. CASE ReleaseClient(r)
  BY <1>4, SameGlobal DEF ReleaseClient
<1> QED  BY <1>1, <1>2, <1>3, <1>4 DEF Leave

\* Every step keeps the global count exact.
LEMMA NextGInv == GInv /\ [Next]_vars => GInv'
<1> SUFFICES ASSUME GInv, [Next]_vars, Steady PROVE cfg'.enabled /\ GlobalExact' /\ GlobalRoom'
  BY NextTInv DEF GInv, Steady
<1>1. TypeOK /\ cfg.enabled /\ GlobalExact /\ GlobalRoom
  BY DEF GInv, TInv
<1>2. ASSUME NEW r \in Requests, NEW k \in Keys \cup {NoKey}, Arrive(r, k)
      PROVE  cfg'.enabled /\ GlobalExact' /\ GlobalRoom'
  BY <1>1, <1>2, SameGlobal DEF Arrive, others, HoldsGlobal, Stages
<1>3. ASSUME NEW r \in Requests, Acquire(r) \/ Leave(r)
      PROVE  cfg'.enabled /\ GlobalExact' /\ GlobalRoom'
  <2>1. cfg' = cfg
    BY <1>3 DEF Acquire, AcquireLoad, AdmitGlobal, LoadOrStore, AddClient, UndoClient, UndoGlobal,
                Recheck, Republish, Leave, Release, ReleaseGlobal, ReleaseLookup, ReleaseClient, others
  <2> QED  BY <1>1, <1>3, <2>1, AcquireGlobal, LeaveGlobal
<1>4. CASE (\E k \in Keys : SweepRead(k)) \/ SweepDelete \/ UNCHANGED vars
  <2>1. UNCHANGED <<cfg, global, pc>>
    BY <1>4 DEF SweepRead, SweepDelete, vars
  <2> QED  BY <1>1, <2>1 DEF GlobalExact, GlobalRoom, At
<1>5. CASE UpdateConfig
  <2>1. cfg'.enabled
    BY <1>5 DEF UpdateConfig, Steady
  <2>2. UNCHANGED <<global, pc>>
    BY <1>5 DEF UpdateConfig
  <2> QED  BY <1>1, <2>1, <2>2 DEF GlobalExact, GlobalRoom, At
<1> QED  BY <1>2, <1>3, <1>4, <1>5 DEF Next

\* The inductive invariant of the global count: while the guard stays enabled
\* it is exact and within some configured limit.
THEOREM GlobalInductive == Spec => []GInv
BY InitGInv, NextGInv, PTL DEF Spec

\* The global count is exactly the number of goroutines that own a unit of it.
THEOREM GlobalCountExact == Spec => []GlobalExact
<1>1. GInv => GlobalExact
  BY DEF GInv, GlobalExact, Steady
<1> QED  BY <1>1, GlobalInductive, PTL

\* No more requests are served at once than some configured MaxConcurrentGlobal,
\* whatever the interleaving of Acquire, Release, Sweep and UpdateConfig.
THEOREM GlobalLimitHolds == Spec => []GlobalBound
<1>1. GInv => GlobalBound
  <2> SUFFICES ASSUME GInv, Steady PROVE \E m \in Globals : Cardinality(At(Admitted)) <= m
    BY DEF GlobalBound, Steady
  <2>1. At(Admitted) \in SUBSET At(HoldsGlobal) /\ At(HoldsGlobal) \in SUBSET Requests
    BY DEF At, Admitted, HoldsGlobal
  <2>2. /\ Cardinality(At(Admitted)) <= Cardinality(At(HoldsGlobal))
        /\ Cardinality(At(Admitted)) \in Nat /\ Cardinality(At(HoldsGlobal)) \in Nat
    BY <2>1, Finite, FS_Subset
  <2>3. PICK m \in Globals : global <= m
    BY DEF GInv, GlobalRoom
  <2>4. global = Cardinality(At(HoldsGlobal)) /\ m \in Nat
    BY SlotConstants DEF GInv, GlobalExact, Steady
  <2> QED  BY <2>2, <2>3, <2>4
<1> QED  BY <1>1, GlobalInductive, PTL

----------------------------------------------------------------------------
(* One counter, one client. *)

\* Somebody - the map, the sweeper or a goroutine - refers to counter x as
\* client k's.
Refers(x, k) ==
    \/ k \in DOMAIN clients /\ clients[k] = x
    \/ <<k, x>> \in swept
    \/ \E r \in Requests : pc[r] \in HoldsPointer /\ key[r] = k /\ cell[r] = x

OneOwner == \A x \in Cells, k1, k2 \in Keys : Refers(x, k1) /\ Refers(x, k2) => k1 = k2

OInv == TInv /\ OneOwner

\* A new guard refers to no counter.
LEMMA InitOInv == Init => OInv
<1> SUFFICES ASSUME Init PROVE OInv
  OBVIOUS
<1>1. OneOwner
  BY DEF Init, OneOwner, Refers, HoldsPointer
<1> QED  BY <1>1, InitTInv DEF OInv

\* Steps that make no new reference.
LEMMA NoNewReference ==
    ASSUME OneOwner, \A x \in Cells, k \in Keys : Refers(x, k)' => Refers(x, k)
    PROVE  OneOwner'
<1> SUFFICES ASSUME NEW x \in Cells, NEW k1 \in Keys, NEW k2 \in Keys,
                    Refers(x, k1)', Refers(x, k2)'
             PROVE  k1 = k2
  BY DEF OneOwner
<1> QED  BY DEF OneOwner

\* A cell that is free to be allocated is nobody's counter.
LEMMA UnreferencedIsFresh ==
    ASSUME TypeOK, NEW x \in Cells, x \notin Reachable, NEW k \in Keys
    PROVE  ~Refers(x, k)
BY DEF Reachable, Refers, TypeOK

\* A goroutine that moves without touching the map and the sweeper.
LEMMA MoveOwner ==
    ASSUME OInv, NEW r \in Requests, NEW stage \in Stages, Go(r, stage),
           UNCHANGED <<clients, key, cell, swept>>,
           stage \in HoldsPointer => pc[r] \in HoldsPointer
    PROVE  OneOwner'
<1>1. \A q \in Requests : pc'[q] \in HoldsPointer => pc[q] \in HoldsPointer
  BY DEF OInv, TInv, TypeOK, Go
<1>2. \A x \in Cells, k \in Keys : Refers(x, k)' => Refers(x, k)
  BY <1>1 DEF Refers
<1> QED  BY <1>2, NoNewReference DEF OInv

\* LoadOrStore hands out the client's own counter or a fresh one.
LEMMA LoadOrStoreOwner ==
    ASSUME OInv, NEW r \in Requests, LoadOrStore(r)
    PROVE  OneOwner'
<1>1. TypeOK /\ key[r] \in Keys
  BY DEF OInv, TInv, KeyedHasKey, Keyed, LoadOrStore
<1>2. /\ pc' = [pc EXCEPT ![r] = "add"] /\ key' = key /\ swept' = swept
  BY DEF LoadOrStore, Go, others
<1>3. \A q \in Requests : q # r => pc'[q] = pc[q]
  BY <1>1, <1>2 DEF TypeOK
<1>4. CASE key[r] \in DOMAIN clients
  <2>1. clients' = clients /\ cell' = [cell EXCEPT ![r] = clients[key[r]]]
    BY <1>4 DEF LoadOrStore
  <2>2. cell'[r] = clients[key[r]] /\ \A q \in Requests : q # r => cell'[q] = cell[q]
    BY <1>1, <2>1 DEF TypeOK
  <2>3. \A x \in Cells, k \in Keys : Refers(x, k)' => Refers(x, k)
    BY <1>2, <1>3, <1>4, <2>1, <2>2 DEF Refers
  <2> QED  BY <2>3, NoNewReference DEF OInv
<1>5. CASE key[r] \notin DOMAIN clients
  <2>1. PICK x \in Cells : /\ x \notin Reachable /\ clients' = Link(key[r], x)
                           /\ cell' = [cell EXCEPT ![r] = x]
    BY <1>5 DEF LoadOrStore
  <2>2. cell'[r] = x /\ \A q \in Requests : q # r => cell'[q] = cell[q]
    BY <1>1, <2>1 DEF TypeOK
  <2>3. /\ DOMAIN clients' = DOMAIN clients \cup {key[r]} /\ clients'[key[r]] = x
        /\ \A y \in DOMAIN clients : y # key[r] => clients'[y] = clients[y]
    BY <1>1, <2>1, LinkType
  <2>4. \A y \in Cells, k \in Keys : Refers(y, k)' => Refers(y, k) \/ (y = x /\ k = key[r])
    BY <1>2, <1>3, <2>2, <2>3 DEF Refers
  <2>5. \A k \in Keys : ~Refers(x, k)
    BY <1>1, <2>1, UnreferencedIsFresh
  <2> SUFFICES ASSUME NEW y \in Cells, NEW k1 \in Keys, NEW k2 \in Keys,
                      Refers(y, k1)', Refers(y, k2)'
               PROVE  k1 = k2
    BY DEF OneOwner
  <2> QED  BY <2>4, <2>5 DEF OInv, OneOwner
<1> QED  BY <1>4, <1>5

\* Re-publishing links a counter under the key it was created for.
LEMMA RepublishOwner ==
    ASSUME OInv, NEW r \in Requests, Republish(r)
    PROVE  OneOwner'
<1>1. TypeOK /\ key[r] \in Keys /\ cell[r] \in Cells
  BY DEF OInv, TInv, TypeOK, KeyedHasKey, Keyed, Republish
<1>2. /\ UNCHANGED <<key, cell, swept>> /\ pc' = [pc EXCEPT ![r] = "serving"]
      /\ pc[r] = "republish" /\ clients' = Link(key[r], cell[r])
  BY DEF Republish, Go, others
<1>3. \A q \in Requests : pc'[q] \in HoldsPointer => pc[q] \in HoldsPointer
  BY <1>1, <1>2 DEF TypeOK, HoldsPointer
<1>4. /\ DOMAIN clients' = DOMAIN clients \cup {key[r]} /\ clients'[key[r]] = cell[r]
      /\ \A y \in DOMAIN clients : y # key[r] => clients'[y] = clients[y]
  BY <1>1, <1>2, LinkType
<1>5. Refers(cell[r], key[r])
  BY <1>2 DEF Refers, HoldsPointer
<1>6. \A x \in Cells, k \in Keys : Refers(x, k)' => Refers(x, k)
  BY <1>2, <1>3, <1>4, <1>5 DEF Refers
<1> QED  BY <1>6, NoNewReference DEF OInv

\* Release takes the counter that the map holds for its client.
LEMMA ReleaseLookupOwner ==
    ASSUME OInv, NEW r \in Requests, ReleaseLookup(r)
    PROVE  OneOwner'
<1>1. CASE key[r] \in DOMAIN clients
  <2>1. /\ cell' = [cell EXCEPT ![r] = clients[key[r]]] /\ pc' = [pc EXCEPT ![r] = "sub"]
        /\ UNCHANGED <<clients, key, swept>>
    BY <1>1 DEF ReleaseLookup, Go, others
  <2>2. /\ cell'[r] = clients[key[r]]
        /\ \A q \in Requests : q # r => cell'[q] = cell[q] /\ pc'[q] = pc[q]
    BY <2>1 DEF OInv, TInv, TypeOK
  <2>3. \A x \in Cells, k \in Keys : Refers(x, k)' => Refers(x, k)
    BY <1>1, <2>1, <2>2 DEF Refers
  <2> QED  BY <2>3, NoNewReference DEF OInv
<1>2. CASE key[r] \notin DOMAIN clients
  BY <1>2, MoveOwner DEF ReleaseLookup, others, Stages, HoldsPointer
<1> QED  BY <1>1, <1>2

\* The sweeper remembers a counter together with its key.
LEMMA SweepReadOwner ==
    ASSUME OInv, NEW k \in Keys, SweepRead(k)
    PROVE  OneOwner'
<1>1. /\ k \in DOMAIN clients /\ swept' = {<<k, clients[k]>>}
      /\ UNCHANGED <<clients, pc, key, cell>>
  BY DEF SweepRead
<1>2. \A x \in Cells, j \in Keys : Refers(x, j)' => Refers(x, j)
  BY <1>1 DEF Refers
<1> QED  BY <1>2, NoNewReference DEF OInv

\* The sweeper only removes references.
LEMMA SweepDeleteOwner ==
    ASSUME OInv, SweepDelete
    PROVE  OneOwner'
<1>1. PICK s \in swept :
        /\ swept' = {} /\ UNCHANGED <<pc, key, cell>>
        /\ clients' = IF s[1] \in DOMAIN clients /\ clients[s[1]] = s[2]
                        THEN [y \in DOMAIN clients \ {s[1]} |-> clients[y]]
                        ELSE clients
  BY DEF SweepDelete
<1>2. \A y \in DOMAIN clients' : y \in DOMAIN clients /\ clients'[y] = clients[y]
  BY <1>1
<1>3. \A x \in Cells, j \in Keys : Refers(x, j)' => Refers(x, j)
  BY <1>1, <1>2 DEF Refers
<1> QED  BY <1>3, NoNewReference DEF OInv

\* Every step keeps one owner per counter.
LEMMA NextOInv == OInv /\ [Next]_vars => OInv'
<1> SUFFICES ASSUME OInv, [Next]_vars PROVE OneOwner'
  BY NextTInv DEF OInv
<1> USE DEF others, Stages, HoldsPointer
<1>1. ASSUME NEW r \in Requests, NEW k \in Keys \cup {NoKey}, Arrive(r, k) PROVE OneOwner'
  <2>1. /\ pc[r] = "idle" /\ pc' = [pc EXCEPT ![r] = "enter"]
        /\ key' = [key EXCEPT ![r] = k] /\ UNCHANGED <<clients, cell, swept>>
    BY <1>1 DEF Arrive, Go
  <2>2. \A q \in Requests : pc'[q] \in HoldsPointer => pc[q] \in HoldsPointer /\ key'[q] = key[q]
    BY <2>1 DEF OInv, TInv, TypeOK
  <2>3. \A x \in Cells, j \in Keys : Refers(x, j)' => Refers(x, j)
    BY <2>1, <2>2 DEF Refers
  <2> QED  BY <2>3, NoNewReference DEF OInv
<1>2. ASSUME NEW r \in Requests, AcquireLoad(r) PROVE OneOwner'
  BY <1>2, MoveOwner DEF AcquireLoad
<1>3. ASSUME NEW r \in Requests, AdmitGlobal(r) PROVE OneOwner'
  BY <1>3, MoveOwner DEF AdmitGlobal
<1>4. ASSUME NEW r \in Requests, AddClient(r) PROVE OneOwner'
  BY <1>4, MoveOwner DEF AddClient
<1>5. ASSUME NEW r \in Requests, UndoClient(r) \/ UndoGlobal(r) \/ Recheck(r) PROVE OneOwner'
  BY <1>5, MoveOwner DEF UndoClient, UndoGlobal, Recheck
<1>6. ASSUME NEW r \in Requests, Release(r) \/ ReleaseGlobal(r) \/ ReleaseClient(r) PROVE OneOwner'
  BY <1>6, MoveOwner DEF Release, ReleaseGlobal, ReleaseClient
<1>7. ASSUME NEW r \in Requests, LoadOrStore(r) \/ Republish(r) \/ ReleaseLookup(r) PROVE OneOwner'
  BY <1>7, LoadOrStoreOwner, RepublishOwner, ReleaseLookupOwner
<1>8. CASE (\E k \in Keys : SweepRead(k)) \/ SweepDelete
  BY <1>8, SweepReadOwner, SweepDeleteOwner
<1>9. CASE UpdateConfig \/ UNCHANGED vars
  <2>1. \A x \in Cells, j \in Keys : Refers(x, j)' => Refers(x, j)
    BY <1>9 DEF UpdateConfig, vars, Refers
  <2> QED  BY <2>1, NoNewReference DEF OInv
<1> QED  BY <1>1, <1>2, <1>3, <1>4, <1>5, <1>6, <1>7, <1>8, <1>9 DEF Next, Acquire, Leave

\* The inductive invariant behind CellsNotShared: the map, the sweeper and the
\* goroutines together refer to each counter under one key only.
THEOREM OwnerInductive == Spec => []OInv
BY InitOInv, NextOInv, PTL DEF Spec

\* The map never holds one counter under two keys.
THEOREM CountersAreNotShared == Spec => []CellsNotShared
<1>1. OInv => CellsNotShared
  BY DEF OInv, TInv, TypeOK, OneOwner, Refers, CellsNotShared
<1> QED  BY <1>1, OwnerInductive, PTL

----------------------------------------------------------------------------
(* The clients' counters, until the sweeper ticks for the first time. *)

Quiet == Steady /\ sweeps = 0

\* The counter a goroutine works on is the one in the map.
Linked ==
    /\ \A r \in Requests : pc[r] \in HoldsPointer =>
         key[r] \in DOMAIN clients /\ cell[r] = clients[key[r]]
    /\ \A r \in Requests : pc[r] \in HoldsClient /\ key[r] # NoKey => key[r] \in DOMAIN clients

Exact == \A k \in DOMAIN clients : n[clients[k]] = Cardinality(Of(k, HoldsClient))

Bounded == \A k \in Keys : \E m \in PerClient : Cardinality(Of(k, Admitted)) <= m

QInv == cfg.enabled /\ swept = {} /\ Linked /\ Exact /\ Bounded

CInv == OInv /\ (Quiet => QInv)

\* A new guard has no counters.
LEMMA InitCInv == Init => CInv
<1> SUFFICES ASSUME Init PROVE QInv
  BY InitOInv DEF CInv
<1>1. Linked
  BY DEF Init, Linked, HoldsPointer, HoldsClient
<1>2. Exact
  BY DEF Init, Exact
<1>3. Bounded
  <2>1. PICK m \in PerClient : m \in Nat
    BY SlotConstants
  <2>2. \A k \in Keys : Of(k, Admitted) = {}
    BY DEF Init, Of, Admitted
  <2> QED  BY <2>1, <2>2, FS_EmptySet DEF Bounded
<1> QED  BY <1>1, <1>2, <1>3 DEF Init, QInv

\* Nobody new is admitted.
LEMMA StillBounded ==
    ASSUME Bounded, \A k \in Keys : Of(k, Admitted)' \in SUBSET Of(k, Admitted)
    PROVE  Bounded'
<1> SUFFICES ASSUME NEW k \in Keys PROVE \E m \in PerClient : Cardinality(Of(k, Admitted)') <= m
  BY DEF Bounded
<1>1. PICK m \in PerClient : Cardinality(Of(k, Admitted)) <= m
  BY DEF Bounded
<1>2. Of(k, Admitted) \in SUBSET Requests /\ Of(k, Admitted)' \in SUBSET Requests
  BY DEF Of
<1>3. IsFiniteSet(Of(k, Admitted)) /\ Cardinality(Of(k, Admitted)) \in Nat
      /\ Cardinality(Of(k, Admitted)') \in Nat
  BY <1>2, Finite
<1>4. Cardinality(Of(k, Admitted)') <= Cardinality(Of(k, Admitted))
  BY <1>3, FS_Subset
<1> QED  BY <1>1, <1>3, <1>4, SlotConstants

\* A goroutine that is not being admitted moves.
LEMMA MoveBounded ==
    ASSUME TypeOK, Bounded, NEW r \in Requests, NEW stage \in Stages, Go(r, stage), key' = key,
           stage \in Admitted => pc[r] \in Admitted \/ key[r] = NoKey
    PROVE  Bounded'
<1>1. \A q \in Requests : q # r => pc'[q] = pc[q]
  BY DEF TypeOK, Go
<1>2. pc'[r] = stage
  BY DEF TypeOK, Go
<1>3. \A k \in Keys : Of(k, Admitted)' \in SUBSET Of(k, Admitted)
  BY <1>1, <1>2, SlotConstants DEF Of
<1> QED  BY <1>3, StillBounded

\* A goroutine moves and neither takes nor gives back a unit of a counter.
LEMMA MoveClient ==
    ASSUME TypeOK, Linked, Exact, Bounded, NEW r \in Requests, NEW stage \in Stages, Go(r, stage),
           UNCHANGED <<clients, n, key, cell>>,
           stage \in HoldsPointer => pc[r] \in HoldsPointer,
           key[r] # NoKey => (pc[r] \in HoldsClient <=> stage \in HoldsClient),
           stage \in Admitted => pc[r] \in Admitted \/ key[r] = NoKey
    PROVE  Linked' /\ Exact' /\ Bounded'
<1>1. (\A q \in Requests : q # r => pc'[q] = pc[q]) /\ pc'[r] = stage
  BY DEF TypeOK, Go
<1>2. Linked'
  BY <1>1 DEF Linked
<1>3. Exact'
  <2> SUFFICES ASSUME NEW k \in DOMAIN clients
               PROVE  n[clients[k]] = Cardinality(Of(k, HoldsClient)')
    BY DEF Exact
  <2>1. k # NoKey
    BY SlotConstants DEF TypeOK
  <2>2. Of(k, HoldsClient)' = Of(k, HoldsClient)
    BY <2>1, OfMoves
  <2> QED  BY <2>2 DEF Exact
<1>4. Bounded'
  BY MoveBounded
<1> QED  BY <1>2, <1>3, <1>4

\* A goroutine finds its counter in the map.
LEMMA FindClient ==
    ASSUME TypeOK, Linked, Exact, Bounded, NEW r \in Requests, NEW stage \in {"add", "sub"},
           Go(r, stage), UNCHANGED <<clients, n, key>>, key[r] \in DOMAIN clients,
           cell' = [cell EXCEPT ![r] = clients[key[r]]],
           pc[r] \in HoldsClient <=> stage \in HoldsClient
    PROVE  Linked' /\ Exact' /\ Bounded'
<1>1. /\ \A q \in Requests : q # r => pc'[q] = pc[q] /\ cell'[q] = cell[q]
      /\ pc'[r] = stage /\ cell'[r] = clients[key[r]]
  BY DEF TypeOK, Go
<1>2. Linked'
  BY <1>1 DEF Linked
<1>3. Exact'
  <2>1. \A k \in DOMAIN clients : Of(k, HoldsClient)' = Of(k, HoldsClient)
    BY OfMoves DEF Stages
  <2> QED  BY <2>1 DEF Exact
<1>4. Bounded'
  BY MoveBounded DEF Stages, Admitted
<1> QED  BY <1>2, <1>3, <1>4

\* A goroutine allocates the counter of a client that has none.
LEMMA NewClient ==
    ASSUME TypeOK, Linked, Exact, Bounded, NEW r \in Requests, Go(r, "add"), key' = key,
           pc[r] = "lookup", key[r] \in Keys, key[r] \notin DOMAIN clients,
           NEW x \in Cells, x \notin Reachable, clients' = Link(key[r], x),
           n' = [n EXCEPT ![x] = 0], cell' = [cell EXCEPT ![r] = x]
    PROVE  Linked' /\ Exact' /\ Bounded'
<1>1. /\ \A q \in Requests : q # r => pc'[q] = pc[q] /\ cell'[q] = cell[q]
      /\ pc'[r] = "add" /\ cell'[r] = x
  BY DEF TypeOK, Go
<1>2. /\ DOMAIN clients' = DOMAIN clients \cup {key[r]} /\ clients'[key[r]] = x
      /\ \A y \in DOMAIN clients : clients'[y] = clients[y]
  BY LinkType
<1>3. Linked'
  BY <1>1, <1>2 DEF Linked
<1>4. Exact'
  <2> SUFFICES ASSUME NEW k \in DOMAIN clients'
               PROVE  n'[clients'[k]] = Cardinality(Of(k, HoldsClient)')
    BY DEF Exact
  <2>1. Of(k, HoldsClient)' = Of(k, HoldsClient)
    BY OfMoves DEF Stages, HoldsClient
  <2>2. CASE k = key[r]
    <3>1. Of(k, HoldsClient) = {}
      BY <2>2, SlotConstants DEF Of, Linked
    <3>2. n'[x] = 0
      BY DEF TypeOK
    <3> QED  BY <1>2, <2>1, <2>2, <3>1, <3>2, FS_EmptySet
  <2>3. CASE k # key[r]
    <3>1. k \in DOMAIN clients /\ clients'[k] = clients[k]
      BY <1>2, <2>3
    <3>2. clients[k] # x
      BY <3>1 DEF Reachable
    <3>3. n'[clients[k]] = n[clients[k]]
      BY <3>1, <3>2 DEF TypeOK
    <3> QED  BY <2>1, <3>1, <3>3 DEF Exact
  <2> QED  BY <2>2, <2>3
<1>5. Bounded'
  BY MoveBounded DEF Stages, Admitted
<1> QED  BY <1>3, <1>4, <1>5

\* A goroutine takes a unit of its counter, or gives one back.
Counted(r, stage) ==
    \/ /\ n' = [n EXCEPT ![cell[r]] = n[cell[r]] + 1]
       /\ pc[r] \notin HoldsClient /\ stage \in HoldsClient
    \/ /\ n' = [n EXCEPT ![cell[r]] = n[cell[r]] - 1]
       /\ pc[r] \in HoldsClient /\ stage \notin HoldsClient

\* A goroutine changes the counter it owns a unit of, or comes to own one.
LEMMA CountClient ==
    ASSUME OInv, Linked, Exact, NEW r \in Requests, NEW stage \in Stages, Go(r, stage),
           UNCHANGED <<clients, key, cell>>, Counted(r, stage), pc[r] \in HoldsPointer
    PROVE  Linked' /\ Exact'
<1>1. TypeOK
  BY DEF OInv, TInv
<1>2. (\A q \in Requests : q # r => pc'[q] = pc[q]) /\ pc'[r] = stage
  BY <1>1 DEF TypeOK, Go
<1>3. key[r] \in DOMAIN clients /\ cell[r] = clients[key[r]]
  BY DEF Linked
<1>4. Linked'
  BY <1>2, <1>3 DEF Linked
<1>5. Exact'
  <2> SUFFICES ASSUME NEW k \in DOMAIN clients
               PROVE  n'[clients[k]] = Cardinality(Of(k, HoldsClient)')
    BY DEF Exact
  <2>1. CASE k = key[r]
    <3>1. CASE pc[r] \notin HoldsClient /\ stage \in HoldsClient
      <4>1. Cardinality(Of(k, HoldsClient)') = Cardinality(Of(k, HoldsClient)) + 1
        BY <1>1, <2>1, <3>1, OfMoves
      <4>2. n'[clients[k]] = n[clients[k]] + 1
        BY <1>1, <1>3, <2>1, <3>1 DEF TypeOK, Counted
      <4> QED  BY <4>1, <4>2 DEF Exact
    <3>2. CASE pc[r] \in HoldsClient /\ stage \notin HoldsClient
      <4>1. Cardinality(Of(k, HoldsClient)') = Cardinality(Of(k, HoldsClient)) - 1
        BY <1>1, <2>1, <3>2, OfMoves
      <4>2. n'[clients[k]] = n[clients[k]] - 1
        BY <1>1, <1>3, <2>1, <3>2 DEF TypeOK, Counted
      <4> QED  BY <4>1, <4>2 DEF Exact
    <3> QED  BY <3>1, <3>2 DEF Counted
  <2>2. CASE k # key[r]
    <3>1. clients[k] # clients[key[r]]
      BY <1>1, <1>3, <2>2 DEF OInv, OneOwner, Refers, TypeOK
    <3>2. n'[clients[k]] = n[clients[k]]
      BY <1>1, <1>3, <3>1 DEF TypeOK, Counted
    <3>3. Of(k, HoldsClient)' = Of(k, HoldsClient)
      BY <1>1, <2>2, OfMoves
    <3> QED  BY <3>2, <3>3 DEF Exact
  <2> QED  BY <2>1, <2>2
<1> QED  BY <1>4, <1>5

\* Add and the test of the limit: the counter stays exact and only a
\* goroutine within its limit is admitted.
LEMMA AddClientQuiet ==
    ASSUME OInv, QInv, NEW r \in Requests, AddClient(r)
    PROVE  Linked' /\ Exact' /\ Bounded'
<1> DEFINE stage == IF n[cell[r]] + 1 > lim[r].client THEN "undoClient" ELSE "recheck"
<1>1. TypeOK /\ Linked /\ Exact /\ Bounded /\ key[r] \in Keys
  BY DEF OInv, TInv, QInv, KeyedHasKey, Keyed, AddClient
<1>2. /\ pc[r] = "add" /\ Go(r, stage) /\ UNCHANGED <<clients, key, cell>>
      /\ n' = [n EXCEPT ![cell[r]] = n[cell[r]] + 1]
  BY DEF AddClient
<1>3. Linked' /\ Exact'
  <2>1. Counted(r, stage) /\ stage \in Stages /\ pc[r] \in HoldsPointer
    BY <1>2 DEF Counted, Stages, HoldsPointer, HoldsClient
  <2> QED  BY <1>1, <1>2, <2>1, CountClient
<1>4. CASE n[cell[r]] + 1 > lim[r].client
  BY <1>1, <1>2, <1>3, <1>4, MoveBounded DEF Stages, Admitted
<1>5. CASE ~(n[cell[r]] + 1 > lim[r].client)
  <2> SUFFICES ASSUME NEW k \in Keys PROVE \E m \in PerClient : Cardinality(Of(k, Admitted)') <= m
    BY <1>3 DEF Bounded
  <2>1. CASE k = key[r]
    <3>1. Of(k, Admitted)' \in SUBSET Of(k, HoldsClient)' /\ Of(k, HoldsClient)' \in SUBSET Requests
      BY DEF Of, Admitted, HoldsClient
    <3>2. /\ Cardinality(Of(k, Admitted)') \in Nat /\ Cardinality(Of(k, HoldsClient)') \in Nat
          /\ Cardinality(Of(k, Admitted)') <= Cardinality(Of(k, HoldsClient)')
      BY <3>1, Finite, FS_Subset
    <3>3. key[r] \in DOMAIN clients /\ cell[r] = clients[key[r]]
      BY <1>1, <1>2 DEF Linked, HoldsPointer
    <3>4. Cardinality(Of(k, HoldsClient)') = n'[clients[k]]
      BY <1>2, <1>3, <2>1, <3>3 DEF Exact
    <3>5. n'[clients[k]] = n[cell[r]] + 1 /\ n[cell[r]] \in Int
      BY <1>1, <1>2, <2>1, <3>3 DEF TypeOK
    <3>6. lim[r].client \in PerClient /\ lim[r].client \in Nat
      BY <1>1, SlotConstants DEF TypeOK, Limits
    <3>7. Cardinality(Of(k, Admitted)') <= lim[r].client
      BY <1>5, <3>2, <3>4, <3>5, <3>6
    <3> QED  BY <3>6, <3>7
  <2>2. CASE k # key[r]
    <3>1. Of(k, Admitted)' = Of(k, Admitted)
      BY <1>1, <1>2, <2>2, OfMoves DEF Stages
    <3> QED  BY <1>1, <3>1 DEF Bounded
  <2> QED  BY <2>1, <2>2
<1> QED  BY <1>4, <1>5

\* The steps of Acquire keep the clients' counters exact.
LEMMA AcquireQuiet ==
    ASSUME OInv, QInv, NEW r \in Requests, Acquire(r)
    PROVE  Linked' /\ Exact' /\ Bounded'
<1>1. TypeOK /\ Linked /\ Exact /\ Bounded /\ cfg.enabled /\ OneOwner
  BY DEF OInv, TInv, QInv
<1> USE DEF Stages, HoldsPointer, HoldsClient, Admitted, others
<1>2. CASE AcquireLoad(r)
  BY <1>1, <1>2, MoveClient DEF AcquireLoad
<1>3. CASE AdmitGlobal(r)
  BY <1>1, <1>3, MoveClient DEF AdmitGlobal
<1>4. CASE LoadOrStore(r)
  <2>1. key[r] \in Keys
    BY <1>4 DEF OInv, TInv, KeyedHasKey, Keyed, LoadOrStore
  <2>2. CASE key[r] \in DOMAIN clients
    BY <1>1, <1>4, <2>2, FindClient DEF LoadOrStore
  <2>3. CASE key[r] \notin DOMAIN clients
    <3>1. PICK x \in Cells : /\ x \notin Reachable /\ clients' = Link(key[r], x)
                             /\ n' = [n EXCEPT ![x] = 0] /\ cell' = [cell EXCEPT ![r] = x]
      BY <1>4, <2>3 DEF LoadOrStore
    <3>2. Go(r, "add") /\ key' = key /\ pc[r] = "lookup"
      BY <1>4 DEF LoadOrStore
    <3> QED  BY <1>1, <2>1, <2>3, <3>1, <3>2, NewClient
  <2> QED  BY <2>2, <2>3
<1>5. CASE AddClient(r)
  BY <1>5, AddClientQuiet
<1>6. CASE UndoClient(r)
  <2>1. /\ pc[r] = "undoClient" /\ Go(r, "undoGlobal") /\ UNCHANGED <<clients, key, cell>>
        /\ n' = [n EXCEPT ![cell[r]] = n[cell[r]] - 1]
    BY <1>6 DEF UndoClient
  <2>2. Counted(r, "undoGlobal")
    BY <2>1 DEF Counted
  <2>3. Linked' /\ Exact'
    BY <1>1, <2>1, <2>2, CountClient
  <2> QED  BY <1>1, <2>1, <2>3, MoveBounded
<1>7. CASE UndoGlobal(r)
  BY <1>1, <1>7, MoveClient DEF UndoGlobal
<1>8. CASE Recheck(r)
  BY <1>1, <1>8, MoveClient DEF Recheck
<1>9. CASE Republish(r)
  <2>1. key[r] \in DOMAIN clients /\ cell[r] = clients[key[r]]
    BY <1>1, <1>9 DEF Republish, Linked
  <2>2. clients' = clients
    BY <1>1, <1>9, <2>1 DEF Republish, Link, TypeOK
  <2> QED  BY <1>1, <1>9, <2>2, MoveClient DEF Republish
<1> QED  BY <1>2, <1>3, <1>4, <1>5, <1>6, <1>7, <1>8, <1>9 DEF Acquire

\* The steps of Release keep the clients' counters exact.
LEMMA LeaveQuiet ==
    ASSUME OInv, QInv, NEW r \in Requests, Leave(r)
    PROVE  Linked' /\ Exact' /\ Bounded'
<1>1. TypeOK /\ Linked /\ Exact /\ Bounded /\ cfg.enabled
  BY DEF OInv, TInv, QInv
<1> USE DEF Stages, HoldsPointer, HoldsClient, Admitted, others
<1>2. CASE Release(r)
  BY <1>1, <1>2, MoveClient DEF Release
<1>3. CASE ReleaseGlobal(r)
  BY <1>1, <1>3, MoveClient DEF ReleaseGlobal
<1>4. CASE ReleaseLookup(r)
  <2>1. key[r] \in DOMAIN clients
    BY <1>1, <1>4, SlotConstants DEF ReleaseLookup, Linked, OInv, TInv, KeyedHasKey, Keyed
  <2> QED  BY <1>1, <1>4, <2>1, FindClient DEF ReleaseLookup
<1>5. CASE ReleaseClient(r)
  <2>1. /\ pc[r] = "sub" /\ Go(r, "idle") /\ UNCHANGED <<clients, key, cell>>
        /\ n' = [n EXCEPT ![cell[r]] = n[cell[r]] - 1]
    BY <1>5 DEF ReleaseClient
  <2>2. Counted(r, "idle")
    BY <2>1 DEF Counted
  <2>3. Linked' /\ Exact'
    BY <1>1, <2>1, <2>2, CountClient
  <2> QED  BY <1>1, <2>1, <2>3, MoveBounded
<1> QED  BY <1>2, <1>3, <1>4, <1>5 DEF Leave

\* The sweeper's count of idle counters never goes back.
LEMMA SweepsGrow ==
    ASSUME [Next]_vars
    PROVE  sweeps' = sweeps \/ sweeps' = sweeps + 1
BY DEF Next, vars, others, Arrive, Acquire, AcquireLoad, AdmitGlobal, LoadOrStore, AddClient,
       UndoClient, UndoGlobal, Recheck, Republish, Leave, Release, ReleaseGlobal, ReleaseLookup,
       ReleaseClient, SweepRead, SweepDelete, UpdateConfig

\* Every step keeps the clients' counters exact until the first sweep.
LEMMA NextCInv == CInv /\ [Next]_vars => CInv'
<1> SUFFICES ASSUME CInv, [Next]_vars, Quiet' PROVE QInv'
  BY NextOInv DEF CInv
<1>0. Quiet /\ ~(\E k \in Keys : SweepRead(k))
  <2>1. sweeps \in Nat
    BY DEF CInv, OInv, TInv, TypeOK
  <2>2. Steady /\ sweeps' = 0
    BY DEF Quiet, Steady
  <2>3. sweeps' = sweeps \/ sweeps' = sweeps + 1
    BY SweepsGrow
  <2> QED  BY <2>1, <2>2, <2>3 DEF Quiet, SweepRead
<1>1. OInv /\ QInv /\ TypeOK
  BY <1>0 DEF CInv, OInv, TInv
<1>2. Linked /\ Exact /\ Bounded /\ cfg.enabled /\ swept = {}
  BY <1>1 DEF QInv
<1>3. ASSUME NEW r \in Requests, NEW k \in Keys \cup {NoKey}, Arrive(r, k) PROVE QInv'
  <2>1. /\ pc[r] = "idle" /\ pc' = [pc EXCEPT ![r] = "enter"]
        /\ key' = [key EXCEPT ![r] = k] /\ UNCHANGED <<clients, n, cell, swept, sweeps, cfg>>
    BY <1>3 DEF Arrive, Go, others
  <2>2. /\ \A q \in Requests : q # r => pc'[q] = pc[q] /\ key'[q] = key[q]
        /\ pc'[r] = "enter"
    BY <1>1, <2>1 DEF TypeOK
  <2>3. Linked'
    BY <1>2, <2>1, <2>2 DEF Linked, HoldsPointer, HoldsClient
  <2>4. \A j \in Keys : Of(j, HoldsClient)' = Of(j, HoldsClient) /\ Of(j, Admitted)' = Of(j, Admitted)
    BY <2>1, <2>2 DEF Of, HoldsClient, Admitted
  <2>5. Exact'
    BY <1>1, <1>2, <2>1, <2>4 DEF Exact, TypeOK
  <2>6. Bounded'
    BY <1>2, <2>4 DEF Bounded
  <2> QED  BY <1>2, <2>1, <2>3, <2>5, <2>6 DEF QInv
<1>4. ASSUME NEW r \in Requests, Acquire(r) \/ Leave(r) PROVE QInv'
  <2>1. UNCHANGED others
    BY <1>4 DEF Acquire, AcquireLoad, AdmitGlobal, LoadOrStore, AddClient, UndoClient, UndoGlobal,
                Recheck, Republish, Leave, Release, ReleaseGlobal, ReleaseLookup, ReleaseClient, others
  <2>2. Linked' /\ Exact' /\ Bounded'
    BY <1>1, <1>4, AcquireQuiet, LeaveQuiet
  <2> QED  BY <1>2, <2>1, <2>2 DEF QInv, others
<1>5. ~(\E k \in Keys : SweepRead(k)) /\ ~SweepDelete
  BY <1>0, <1>2 DEF SweepDelete
<1>6. CASE UpdateConfig \/ UNCHANGED vars
  <2>1. cfg'.enabled /\ UNCHANGED <<clients, n, pc, key, cell, swept, sweeps>>
    BY <1>0, <1>2, <1>6 DEF UpdateConfig, vars, Quiet, Steady
  <2> QED  BY <1>2, <2>1 DEF QInv, Linked, Exact, Bounded, Of
<1> QED  BY <1>3, <1>4, <1>5, <1>6 DEF Next

\* The inductive invariant of the per-client counters: until the first sweep
\* every pointer a goroutine holds is the one in the map, and counts are exact.
THEOREM ClientInductive == Spec => []CInv
BY InitCInv, NextCInv, PTL DEF Spec

\* Until the first sweep a client's counter is exactly the number of its
\* goroutines that own a unit of it.
THEOREM ClientCountExact == Spec => []ClientExact
<1>1. CInv => ClientExact
  BY DEF CInv, QInv, Exact, Quiet, Steady, ClientExact
<1> QED  BY <1>1, ClientInductive, PTL

\* Until the first sweep no client has more requests served at once than some
\* configured MaxConcurrentClient.
THEOREM ClientLimitHolds == Spec => []ClientBound
<1>1. CInv => ClientBound
  BY DEF CInv, QInv, Bounded, Quiet, Steady, ClientBound
<1> QED  BY <1>1, ClientInductive, PTL

\* For any number of requests and any interleaving the counters are exact and
\* no two clients share one.
THEOREM SlotCountsExact == Spec => []CountsExact
BY GlobalCountExact, ClientCountExact, CountersAreNotShared, PTL DEF CountsExact

\* For any number of requests and any interleaving the limits hold, the
\* clients' until the first sweep.
THEOREM SlotLimitsHold == Spec => []LimitsHold
BY GlobalLimitHolds, ClientLimitHolds, PTL DEF LimitsHold

----------------------------------------------------------------------------
(* The strike and ban ledger *)

\* The inductive invariant.  The pool only holds entries without strikes (or
\* a fresh entry would inherit them), and a call that has read the clock read
\* a real time, not after the expiry it is about to store.
PoolClean == \A p \in pool : p.strikes = 0

CallsTimed ==
    \A c \in Callers : call[c].stage = "lock" =>
      /\ call[c].at >= 1 /\ call[c].at <= now
      /\ call[c].op = "BanUntil" => call[c].until >= call[c].at

\* A sweep under way uses a cutoff that is at least MaxAge old.
SweepLate == sweep.todo # {} => sweep.cutoff <= now - MaxAge

IInv == LedgerTyped /\ now >= 1 /\ PoolClean /\ CallsTimed /\ SweepLate /\ StrikesMatchBan

----------------------------------------------------------------------------
(* What the helpers return. *)

\* banTTLWithEscalation never returns a zero or negative duration.
LEMMA DurationPositive ==
    ASSUME NEW cf \in Config, NEW m \in Nat
    PROVE  banTTLWithEscalation(cf, m) \in Nat \ {0}
<1> DEFINE s == IF m - 1 < cf.esc THEN m - 1 ELSE cf.esc
<1>1. cf.ttl \in Nat \ {0} /\ cf.esc \in Nat /\ cf.esc \in Escs
  BY BanConstants DEF Config
<1>2. CASE cf.esc = 0 \/ m <= 1
  BY <1>1, <1>2 DEF banTTLWithEscalation
<1>3. CASE ~(cf.esc = 0 \/ m <= 1)
  <2>1. s \in 0..cf.esc
    BY <1>1, <1>3
  <2>2. 2^s \in Nat \ {0}
    BY Doublings, <1>1, <2>1
  <2>3. banTTLWithEscalation(cf, m) = cf.ttl * 2^s
    BY <1>3 DEF banTTLWithEscalation
  <2>4. \A x \in Nat \ {0}, y \in Nat \ {0} : x * y \in Nat \ {0}
    OBVIOUS
  <2> QED  BY <1>1, <2>2, <2>3, <2>4
<1> QED  BY <1>2, <1>3

\* Storing an entry adds its key and changes no other entry.
LEMMA PutType ==
    ASSUME LedgerTyped, NEW k \in Clients, NEW e \in Entry
    PROVE  /\ DOMAIN Put(k, e) = DOMAIN ents \cup {k}
           /\ Put(k, e) \in [DOMAIN Put(k, e) -> Entry]
           /\ Put(k, e)[k] = e
           /\ \A x \in DOMAIN ents : x # k => Put(k, e)[x] = ents[x]
BY DEF LedgerTyped, Put

\* Deleting an entry removes its key and changes no other entry.
LEMMA DropType ==
    ASSUME LedgerTyped, NEW k \in Clients
    PROVE  /\ DOMAIN Drop(k) = DOMAIN ents \ {k}
           /\ Drop(k) \in [DOMAIN Drop(k) -> Entry]
           /\ \A x \in DOMAIN Drop(k) : Drop(k)[x] = ents[x]
BY DEF LedgerTyped, Drop

\* A strike adds one to the strikes and keeps them in step with the ban.
LEMMA StruckSound ==
    ASSUME NEW e \in Entry, NEW at \in Nat, NEW cf \in Config
    PROVE  LET s == Struck(e, at, cf) IN
           /\ s \in Entry /\ s.strikes = e.strikes + 1
           /\ s.bans >= e.bans /\ s.bans <= e.bans + 1
           /\ IF e.strikes + 1 < cf.after
                THEN s.until = e.until /\ s.bans = e.bans
                ELSE s.until # 0 /\ s.bans = e.bans + 1
<1>1. cf.after \in Nat /\ e.strikes \in Nat /\ e.bans \in Nat /\ e.until \in Nat
  BY BanConstants DEF Config, Entry
<1>2. banTTLWithEscalation(cf, e.bans + 1) \in Nat \ {0}
  BY <1>1, DurationPositive
<1> QED  BY <1>1, <1>2 DEF Struck, Entry, Ent

\* The entry a strike starts from (pooled, reset or kept) is an entry.
LEMMA BaseType ==
    ASSUME LedgerTyped, NEW k \in Clients, NEW at \in Nat, NEW ttl \in TTLs,
           NEW e \in StrikeBase(k, at, ttl)
    PROVE  e \in Entry
BY DEF LedgerTyped, StrikeBase, Pooled, ZeroEntry, Entry, Ent

\* The strikes an entry starts a strike with match its ban, also when it comes
\* from the pool or its window has lapsed.
EntryMatches(e) ==
    /\ e.until # 0 => \E a \in Afters : e.strikes >= a
    /\ (\A a \in Afters : e.strikes >= a) => e.until # 0

\* An entry without strikes and without a ban is consistent.
LEMMA CleanMatches ==
    ASSUME NEW e \in Entry, e.until = 0, e.strikes = 0
    PROVE  EntryMatches(e)
<1>1. PICK a \in Afters : a \in Nat \ {0}
  BY BanConstants
<1>2. ~(e.strikes >= a)
  BY <1>1
<1> QED  BY <1>2 DEF EntryMatches

\* The entry a strike starts from is consistent.
LEMMA BaseMatches ==
    ASSUME IInv, NEW k \in Clients, NEW at \in Nat, NEW ttl \in TTLs,
           NEW e \in StrikeBase(k, at, ttl)
    PROVE  e \in Entry /\ EntryMatches(e)
<1>1. e \in Entry
  BY BaseType DEF IInv
<1>2. CASE k \notin DOMAIN ents
  <2>1. e.until = 0 /\ e.strikes = 0
    BY <1>2 DEF StrikeBase, Pooled, ZeroEntry, Ent, IInv, PoolClean
  <2> QED  BY <1>1, <2>1, CleanMatches
<1>3. CASE k \in DOMAIN ents /\ at - ents[k].windowStart > ttl
  <2>1. e.until = 0 /\ e.strikes = 0
    BY <1>3 DEF StrikeBase, Ent
  <2> QED  BY <1>1, <2>1, CleanMatches
<1>4. CASE k \in DOMAIN ents /\ ~(at - ents[k].windowStart > ttl)
  <2>1. e = ents[k]
    BY <1>4 DEF StrikeBase
  <2> QED  BY <1>1, <1>4, <2>1 DEF EntryMatches, IInv, StrikesMatchBan
<1> QED  BY <1>2, <1>3, <1>4

\* One more strike keeps an entry consistent.
LEMMA StruckMatches ==
    ASSUME NEW e \in Entry, EntryMatches(e), NEW at \in Nat, NEW cf \in Config
    PROVE  EntryMatches(Struck(e, at, cf))
<1> DEFINE s == Struck(e, at, cf)
<1>1. cf.after \in Afters /\ cf.after \in Nat /\ Afters \subseteq Nat /\ e.strikes \in Nat
  BY BanConstants DEF Config, Entry
<1>2. s.strikes = e.strikes + 1 /\ s \in Entry
  BY StruckSound
<1>3. CASE e.strikes + 1 < cf.after
  <2>1. s.until = e.until
    BY <1>3, StruckSound
  <2> HIDE DEF s
  <2>2. ~(s.strikes >= cf.after)
    BY <1>1, <1>2, <1>3
  <2>3. \A a \in Afters : e.strikes >= a => s.strikes >= a
    BY <1>1, <1>2
  <2>4. EntryMatches(s)
    BY <1>1, <2>1, <2>2, <2>3 DEF EntryMatches
  <2> QED  BY <2>4 DEF s
<1>4. CASE ~(e.strikes + 1 < cf.after)
  <2>1. s.until # 0
    BY <1>4, StruckSound
  <2> HIDE DEF s
  <2>2. s.strikes >= cf.after
    BY <1>1, <1>2, <1>4
  <2>3. EntryMatches(s)
    BY <1>1, <2>1, <2>2 DEF EntryMatches
  <2> QED  BY <2>3 DEF s
<1> QED  BY <1>3, <1>4

\* A call that is under way has a full record.
LEMMA CallTyped ==
    ASSUME LedgerTyped, NEW c \in Callers, call[c].stage # "idle"
    PROVE  call[c] \in Call
BY DEF LedgerTyped, Idle

\* Storing an entry that matches keeps the map typed and matching.
LEMMA PutInv ==
    ASSUME IInv, NEW k \in Clients, NEW e \in Entry, EntryMatches(e), ents' = Put(k, e)
    PROVE  /\ DOMAIN ents' \subseteq Clients /\ ents' \in [DOMAIN ents' -> Entry]
           /\ StrikesMatchBan'
<1>1. LedgerTyped
  BY DEF IInv
<1>2. /\ DOMAIN ents' = DOMAIN ents \cup {k} /\ ents' \in [DOMAIN ents' -> Entry]
      /\ ents'[k] = e /\ \A x \in DOMAIN ents : x # k => ents'[x] = ents[x]
  BY <1>1, PutType
<1>3. \A x \in DOMAIN ents' : EntryMatches(ents'[x])
  BY <1>2 DEF EntryMatches, IInv, StrikesMatchBan
<1> QED  BY <1>1, <1>2, <1>3 DEF EntryMatches, StrikesMatchBan, LedgerTyped

\* So does dropping one, which leaves a clean entry in the pool.
LEMMA DropInv ==
    ASSUME IInv, NEW k \in DOMAIN ents, ents' = Drop(k), pool' = pool \cup {PutBack(ents[k])}
    PROVE  /\ DOMAIN ents' \subseteq Clients /\ ents' \in [DOMAIN ents' -> Entry]
           /\ StrikesMatchBan'
           /\ pool' \subseteq Entry /\ PoolClean'
<1>1. LedgerTyped /\ k \in Clients /\ ents[k] \in Entry
  BY DEF IInv, LedgerTyped
<1>2. /\ DOMAIN ents' = DOMAIN ents \ {k} /\ ents' \in [DOMAIN ents' -> Entry]
      /\ \A x \in DOMAIN ents' : ents'[x] = ents[x]
  BY <1>1, DropType
<1>3. PutBack(ents[k]) \in Entry /\ PutBack(ents[k]).strikes = 0
  BY <1>1 DEF PutBack, Ent, Entry
<1>4. pool' \subseteq Entry /\ PoolClean'
  BY <1>1, <1>3 DEF IInv, LedgerTyped, PoolClean
<1>5. StrikesMatchBan'
  BY <1>2 DEF IInv, StrikesMatchBan
<1> QED  BY <1>1, <1>2, <1>4, <1>5 DEF LedgerTyped

\* A goroutine that moves on keeps every call typed, and timed if its own is.
LEMMA StepInv ==
    ASSUME IInv, NEW c \in Callers, NEW op \in Ops, NEW stage \in CallStages, NEW k \in Clients,
           NEW cf \in Config, NEW at \in Nat, NEW until \in Nat,
           Step(c, op, stage, k, cf, at, until), now' = now,
           stage = "lock" => at >= 1 /\ at <= now /\ (op = "BanUntil" => until >= at)
    PROVE  call' \in [Callers -> Call \cup {Idle}] /\ CallsTimed'
<1> DEFINE q == [op |-> op, stage |-> stage, key |-> k, cfg |-> cf, at |-> at, until |-> until]
<1>1. q \in Call
  BY DEF Call
<1>2. call \in [Callers -> Call \cup {Idle}] /\ call' = [call EXCEPT ![c] = q]
  BY DEF IInv, LedgerTyped, Step
<1>3. call' \in [Callers -> Call \cup {Idle}]
  BY <1>1, <1>2
<1>4. call'[c] = q /\ \A d \in Callers : d # c => call'[d] = call[d]
  BY <1>2
<1>5. CallsTimed'
  <2> SUFFICES ASSUME NEW d \in Callers, call'[d].stage = "lock"
               PROVE  /\ call'[d].at >= 1 /\ call'[d].at <= now
                      /\ call'[d].op = "BanUntil" => call'[d].until >= call'[d].at
    BY DEF CallsTimed
  <2>1. CASE d = c
    BY <1>4, <2>1
  <2>2. CASE d # c
    BY <1>4, <2>2 DEF IInv, CallsTimed
  <2> QED  BY <2>1, <2>2
<1> QED  BY <1>3, <1>5

\* A call that returns leaves the other calls as they are.
LEMMA DoneInv ==
    ASSUME IInv, NEW c \in Callers, Done(c), now' = now
    PROVE  call' \in [Callers -> Call \cup {Idle}] /\ CallsTimed'
<1>1. call \in [Callers -> Call \cup {Idle}] /\ call' = [call EXCEPT ![c] = Idle]
  BY DEF IInv, LedgerTyped, Done
<1>2. call' \in [Callers -> Call \cup {Idle}]
  BY <1>1
<1>3. call'[c].stage = "idle" /\ \A d \in Callers : d # c => call'[d] = call[d]
  BY <1>1 DEF Idle
<1> QED  BY <1>2, <1>3 DEF IInv, CallsTimed

----------------------------------------------------------------------------
(* The invariant is inductive. *)

\* A new guard satisfies the invariant.
LEMMA InitIInv == LedgerInit => IInv
<1> SUFFICES ASSUME LedgerInit PROVE IInv
  OBVIOUS
<1>1. LedgerTyped
  <2>1. call \in [Callers -> Call \cup {Idle}]
    BY DEF LedgerInit
  <2>2. sweep \in [cutoff : Int, todo : SUBSET Clients]
    BY DEF LedgerInit
  <2> QED  BY <2>1, <2>2 DEF LedgerInit, LedgerTyped
<1>2. CallsTimed
  BY DEF LedgerInit, CallsTimed, Idle
<1> QED  BY <1>1, <1>2 DEF LedgerInit, IInv, PoolClean, SweepLate, StrikesMatchBan

\* What the steps of a call before the mutex leave alone.
Outside == UNCHANGED <<now, ledgerCfg, ents, pool, sweep>>

\* A step of a call outside the mutex can only disturb the calls.
LEMMA OutsideInv ==
    ASSUME IInv, Outside, call' \in [Callers -> Call \cup {Idle}], CallsTimed'
    PROVE  IInv'
<1>1. LedgerTyped'
  BY DEF IInv, LedgerTyped, Outside
<1>2. PoolClean' /\ SweepLate' /\ StrikesMatchBan' /\ (now >= 1)'
  BY DEF IInv, Outside, PoolClean, SweepLate, StrikesMatchBan
<1> QED  BY <1>1, <1>2 DEF IInv

\* Entering Strike, Banned or BanUntil keeps the invariant.
LEMMA EnterInv ==
    ASSUME IInv, NEW c \in Callers, NEW k \in Clients, NEW op \in Ops,
           NEW stage \in {"enter", "clock"}, NEW until \in Nat,
           Enter(c, op, stage, k, until)
    PROVE  IInv'
<1>1. Step(c, op, stage, k, ledgerCfg, 0, until) /\ Outside /\ ledgerCfg \in Config /\ now' = now
  BY DEF Enter, Outside, IInv, LedgerTyped
<1>2. call' \in [Callers -> Call \cup {Idle}] /\ CallsTimed'
  BY <1>1, StepInv DEF CallStages
<1> QED  BY <1>1, <1>2, OutsideInv

\* BanUntil loading the configuration keeps the invariant.
LEMMA BanUntilLoadInv ==
    ASSUME IInv, NEW c \in Callers, BanUntilLoad(c)
    PROVE  IInv'
<1>1. Outside /\ now' = now /\ ledgerCfg \in Config
  BY DEF BanUntilLoad, Outside, IInv, LedgerTyped
<1>2. call[c] \in Call
  BY CallTyped DEF BanUntilLoad, IInv
<1>3. CASE ledgerCfg.enabled
  <2>1. Step(c, "BanUntil", "clock", call[c].key, ledgerCfg, 0, call[c].until)
    BY <1>3 DEF BanUntilLoad
  <2>2. call' \in [Callers -> Call \cup {Idle}] /\ CallsTimed'
    BY <1>1, <1>2, <2>1, StepInv DEF Call, Ops, CallStages
  <2> QED  BY <1>1, <2>2, OutsideInv
<1>4. CASE ~ledgerCfg.enabled
  BY <1>1, <1>4, DoneInv, OutsideInv DEF BanUntilLoad
<1> QED  BY <1>3, <1>4

\* Reading the clock before the mutex keeps the invariant.
LEMMA ReadClockInv ==
    ASSUME IInv, NEW c \in Callers, ReadClock(c)
    PROVE  IInv'
<1> DEFINE q == call[c]
<1>1. Outside /\ now' = now /\ now \in Nat /\ now >= 1
  BY DEF ReadClock, Outside, IInv, LedgerTyped
<1>2. q \in Call
  BY CallTyped DEF ReadClock, IInv
<1>3. q.key \in Clients /\ q.cfg \in Config /\ q.until \in Nat /\ q.cfg.ttl \in Nat
  BY BanConstants, <1>2 DEF Call, Config
<1> HIDE DEF q
<1>4. CASE q.op \in {"Strike", "Banned"} /\ Step(c, q.op, "lock", q.key, q.cfg, now, 0)
  <2>1. q.op \in Ops /\ "lock" \in CallStages /\ 0 \in Nat /\ q.op # "BanUntil"
    BY <1>4 DEF Ops, CallStages
  <2>2. call' \in [Callers -> Call \cup {Idle}] /\ CallsTimed'
    BY <1>1, <1>3, <1>4, <2>1, StepInv
  <2> QED  BY <1>1, <2>2, OutsideInv
<1>5. CASE Step(c, "BanUntil", "enter", q.key, q.cfg, 0, now + q.cfg.ttl)
  <2>1. now + q.cfg.ttl \in Nat
    BY <1>1, <1>3
  <2> QED  BY <1>1, <1>3, <1>5, <2>1, StepInv, OutsideInv DEF Ops, CallStages
<1>6. CASE q.until >= now /\ Step(c, "BanUntil", "lock", q.key, q.cfg, now, q.until)
  <2>1. "BanUntil" \in Ops /\ "lock" \in CallStages
    BY DEF Ops, CallStages
  <2>2. call' \in [Callers -> Call \cup {Idle}] /\ CallsTimed'
    BY <1>1, <1>3, <1>6, <2>1, StepInv
  <2> QED  BY <1>1, <2>2, OutsideInv
<1>7. CASE Done(c)
  BY <1>1, <1>7, DoneInv, OutsideInv
<1> QED  BY <1>4, <1>5, <1>6, <1>7 DEF ReadClock, q

\* What the steps under the mutex leave alone.
Inside == UNCHANGED <<now, ledgerCfg, sweep>>

\* What a critical section has to show: its entries are typed and consistent.
LEMMA InsideInv ==
    ASSUME IInv, Inside, call' \in [Callers -> Call \cup {Idle}], CallsTimed',
           pool' \subseteq Entry, PoolClean',
           DOMAIN ents' \subseteq Clients, ents' \in [DOMAIN ents' -> Entry], StrikesMatchBan'
    PROVE  IInv'
<1>1. LedgerTyped'
  BY DEF IInv, LedgerTyped, Inside
<1>2. SweepLate' /\ (now >= 1)'
  BY DEF IInv, Inside, SweepLate
<1> QED  BY <1>1, <1>2 DEF IInv

\* The critical section of Strike keeps the invariant.
LEMMA StrikeCommitInv ==
    ASSUME IInv, NEW c \in Callers, StrikeCommit(c)
    PROVE  IInv'
<1> DEFINE k == call[c].key  at == call[c].at  cf == call[c].cfg
<1>1. call[c] \in Call
  BY CallTyped DEF StrikeCommit, IInv
<1>2. k \in Clients /\ at \in Nat /\ cf \in Config /\ cf.ttl \in TTLs
  BY <1>1 DEF Call, Config
<1>3. Inside /\ now' = now /\ Done(c) /\ pool' = pool
  BY DEF StrikeCommit, Inside
<1>4. PICK e \in StrikeBase(k, at, cf.ttl) : ents' = Put(k, Struck(e, at, cf))
  BY DEF StrikeCommit
<1> HIDE DEF k, at, cf
<1>5. e \in Entry /\ EntryMatches(e)
  BY <1>2, BaseMatches
<1>6. Struck(e, at, cf) \in Entry /\ EntryMatches(Struck(e, at, cf))
  BY <1>2, <1>5, StruckSound, StruckMatches
<1>7. DOMAIN ents' \subseteq Clients /\ ents' \in [DOMAIN ents' -> Entry] /\ StrikesMatchBan'
  BY <1>2, <1>4, <1>6, PutInv
<1>8. pool' \subseteq Entry /\ PoolClean'
  BY <1>3 DEF IInv, LedgerTyped, PoolClean
<1> QED  BY <1>3, <1>7, <1>8, DoneInv, InsideInv

\* The critical section of Banned keeps the invariant.
LEMMA BannedCommitInv ==
    ASSUME IInv, NEW c \in Callers, BannedCommit(c)
    PROVE  IInv'
<1> DEFINE k == call[c].key  s == Settled(ents[k], call[c].at)
<1>1. call[c] \in Call
  BY CallTyped DEF BannedCommit, IInv
<1>2. k \in Clients /\ call[c].at \in Nat
  BY <1>1 DEF Call
<1>3. Inside /\ now' = now /\ Done(c) /\ pool' = pool
  BY DEF BannedCommit, Inside
<1>4. pool' \subseteq Entry /\ PoolClean'
  BY <1>3 DEF IInv, LedgerTyped, PoolClean
<1>5. CASE k \in DOMAIN ents
  <2>1. ents[k] \in Entry /\ EntryMatches(ents[k])
    BY <1>5 DEF IInv, LedgerTyped, StrikesMatchBan, EntryMatches
  <2>2. s \in Entry /\ (s = ents[k] \/ (s.until = 0 /\ s.strikes = 0))
    BY <2>1 DEF Settled, Ent, Entry
  <2>3. ents' = Put(k, s)
    BY <1>5 DEF BannedCommit
  <2> HIDE DEF s
  <2>4. EntryMatches(s)
    BY <2>1, <2>2, CleanMatches
  <2>5. DOMAIN ents' \subseteq Clients /\ ents' \in [DOMAIN ents' -> Entry] /\ StrikesMatchBan'
    BY <1>2, <2>2, <2>3, <2>4, PutInv
  <2> QED  BY <1>3, <1>4, <2>5, DoneInv, InsideInv
<1>6. CASE k \notin DOMAIN ents
  <2>1. ents' = ents
    BY <1>6 DEF BannedCommit
  <2>2. DOMAIN ents' \subseteq Clients /\ ents' \in [DOMAIN ents' -> Entry] /\ StrikesMatchBan'
    BY <2>1 DEF IInv, LedgerTyped, StrikesMatchBan
  <2> QED  BY <1>3, <1>4, <2>2, DoneInv, InsideInv
<1> QED  BY <1>5, <1>6

\* The critical section of BanUntil keeps the invariant.
LEMMA BanUntilCommitInv ==
    ASSUME IInv, NEW c \in Callers, BanUntilCommit(c)
    PROVE  IInv'
<1> DEFINE k == call[c].key
           bans == IF k \in DOMAIN ents THEN ents[k].bans ELSE 0
           e == Ent(call[c].until, call[c].cfg.after, call[c].at, bans + 1)
<1>1. call[c] \in Call
  BY CallTyped DEF BanUntilCommit, IInv
<1>2. /\ k \in Clients /\ call[c].at \in Nat /\ call[c].until \in Nat
      /\ call[c].cfg.after \in Afters /\ call[c].cfg.after \in Nat
  BY BanConstants, <1>1 DEF Call, Config
<1>3. call[c].until # 0
  BY <1>2 DEF BanUntilCommit, IInv, CallsTimed
<1>4. bans \in Nat
  BY DEF IInv, LedgerTyped, Entry
<1>5. Inside /\ now' = now /\ Done(c) /\ ents' = Put(k, e)
  BY DEF BanUntilCommit, Inside
<1>6. pool' \subseteq Entry /\ PoolClean'
  BY DEF BanUntilCommit, IInv, LedgerTyped, PoolClean, ZeroEntry, Ent, Entry
<1> HIDE DEF bans
<1>7. e \in Entry /\ EntryMatches(e)
  BY <1>2, <1>3, <1>4 DEF Ent, Entry, EntryMatches
<1> HIDE DEF e, k
<1>8. DOMAIN ents' \subseteq Clients /\ ents' \in [DOMAIN ents' -> Entry] /\ StrikesMatchBan'
  BY <1>2, <1>5, <1>7, PutInv
<1> QED  BY <1>5, <1>6, <1>8, DoneInv, InsideInv

\* Unban keeps the invariant.
LEMMA UnbanInv ==
    ASSUME IInv, NEW k \in Clients, Unban(k)
    PROVE  IInv'
<1>1. k \in DOMAIN ents /\ ents' = Drop(k) /\ pool' = pool \cup {PutBack(ents[k])}
  BY DEF Unban
<1>2. Inside /\ call' \in [Callers -> Call \cup {Idle}] /\ CallsTimed'
  BY DEF Unban, Inside, IInv, LedgerTyped, CallsTimed
<1> QED  BY <1>1, <1>2, DropInv, InsideInv

\* The start of a sweep keeps the invariant: its cutoff is in the past.
LEMMA SweepStartInv ==
    ASSUME IInv, SweepStart
    PROVE  IInv'
<1>1. UNCHANGED <<now, ledgerCfg, ents, pool, call>>
  BY DEF SweepStart
<1>2. sweep' \in [cutoff : Int, todo : SUBSET Clients] /\ SweepLate'
  BY BanConstants DEF SweepStart, IInv, LedgerTyped, SweepLate
<1>3. LedgerTyped'
  BY <1>1, <1>2 DEF IInv, LedgerTyped
<1> QED  BY <1>1, <1>2, <1>3 DEF IInv, PoolClean, CallsTimed, StrikesMatchBan

\* The sweep of one client keeps the invariant.
LEMMA SweepKeyInv ==
    ASSUME IInv, NEW k \in Clients, SweepKey(k)
    PROVE  IInv'
<1>1. UNCHANGED <<now, ledgerCfg, call>>
  BY DEF SweepKey
<1>2. sweep' \in [cutoff : Int, todo : SUBSET Clients] /\ SweepLate'
  BY BanConstants DEF SweepKey, IInv, LedgerTyped, SweepLate
<1>3. /\ DOMAIN ents' \subseteq Clients /\ ents' \in [DOMAIN ents' -> Entry] /\ StrikesMatchBan'
      /\ pool' \subseteq Entry /\ PoolClean'
  <2>1. CASE k \in DOMAIN ents /\ Stale(ents[k], sweep.cutoff)
    BY <2>1, DropInv DEF SweepKey
  <2>2. CASE ~(k \in DOMAIN ents /\ Stale(ents[k], sweep.cutoff))
    BY <2>2 DEF SweepKey, IInv, LedgerTyped, PoolClean, StrikesMatchBan
  <2> QED  BY <2>1, <2>2
<1>4. LedgerTyped'
  BY <1>1, <1>2, <1>3 DEF IInv, LedgerTyped
<1> QED  BY <1>1, <1>2, <1>3, <1>4 DEF IInv, CallsTimed

\* A new configuration keeps the invariant.
LEMMA UpdateConfigInv ==
    ASSUME IInv, UpdateBanConfig
    PROVE  IInv'
<1>1. UNCHANGED <<now, ents, pool, call, sweep>>
  BY DEF UpdateBanConfig
<1>2. ledgerCfg' \in Config
  <2>1. PICK on \in BOOLEAN, after \in Afters \cup {0}, ttl \in TTLs \cup {0}, esc \in Escs \cup {0} :
          ledgerCfg' = [enabled |-> on, after |-> Kept(after, ledgerCfg.after),
                  ttl |-> Kept(ttl, ledgerCfg.ttl), esc |-> Kept(esc, ledgerCfg.esc)]
    BY DEF UpdateBanConfig
  <2>2. ledgerCfg.after \in Afters /\ ledgerCfg.ttl \in TTLs /\ ledgerCfg.esc \in Escs
    BY DEF IInv, LedgerTyped, Config
  <2>3. Kept(after, ledgerCfg.after) \in Afters /\ Kept(ttl, ledgerCfg.ttl) \in TTLs /\ Kept(esc, ledgerCfg.esc) \in Escs
    BY <2>2 DEF Kept
  <2> QED  BY <2>1, <2>3 DEF Config
<1>3. LedgerTyped'
  BY <1>1, <1>2 DEF IInv, LedgerTyped
<1> QED  BY <1>1, <1>3 DEF IInv, PoolClean, CallsTimed, SweepLate, StrikesMatchBan

\* The clock keeps the invariant.
LEMMA TickInv ==
    ASSUME IInv, Tick
    PROVE  IInv'
<1>1. UNCHANGED <<ledgerCfg, ents, pool, call, sweep>> /\ now' = now + 1 /\ now \in Nat
  BY DEF Tick, IInv, LedgerTyped
<1>2. LedgerTyped'
  BY <1>1 DEF IInv, LedgerTyped
<1>3. CallsTimed'
  <2> SUFFICES ASSUME NEW c \in Callers, call[c].stage = "lock"
               PROVE  /\ call[c].at >= 1 /\ call[c].at <= now'
                      /\ call[c].op = "BanUntil" => call[c].until >= call[c].at
    BY <1>1 DEF CallsTimed
  <2>1. call[c] \in Call
    BY CallTyped DEF IInv
  <2>2. call[c].at \in Nat
    BY <2>1 DEF Call
  <2> QED  BY <1>1, <2>2 DEF IInv, CallsTimed
<1>4. SweepLate'
  BY BanConstants, <1>1 DEF IInv, LedgerTyped, SweepLate
<1> QED  BY <1>1, <1>2, <1>3, <1>4 DEF IInv, PoolClean, StrikesMatchBan

\* Every step keeps the invariant.
LEMMA NextIInv ==
    IInv /\ [LedgerNext]_ledgerVars => IInv'
<1> SUFFICES ASSUME IInv, [LedgerNext]_ledgerVars PROVE IInv'
  OBVIOUS
<1>1. ASSUME NEW c \in Callers, NEW k \in Clients, Strike(c, k) \/ Banned(c, k) \/ BanNow(c, k)
      PROVE  IInv'
  BY <1>1, EnterInv DEF Strike, Banned, BanNow, Ops
<1>2. ASSUME NEW c \in Callers, NEW k \in Clients, NEW length \in Lengths, BanUntil(c, k, length)
      PROVE  IInv'
  <2>1. now + length \in Nat
    BY BanConstants DEF IInv, LedgerTyped
  <2> QED  BY <1>2, <2>1, EnterInv DEF BanUntil, Ops
<1>3. ASSUME NEW c \in Callers, BanUntilLoad(c) \/ ReadClock(c)
      PROVE  IInv'
  BY <1>3, BanUntilLoadInv, ReadClockInv
<1>4. ASSUME NEW c \in Callers, StrikeCommit(c) \/ BannedCommit(c) \/ BanUntilCommit(c)
      PROVE  IInv'
  BY <1>4, StrikeCommitInv, BannedCommitInv, BanUntilCommitInv
<1>5. ASSUME NEW k \in Clients, Unban(k) \/ SweepKey(k)
      PROVE  IInv'
  BY <1>5, UnbanInv, SweepKeyInv
<1>6. CASE SweepStart \/ UpdateBanConfig \/ Tick
  BY <1>6, SweepStartInv, UpdateConfigInv, TickInv
<1>7. CASE UNCHANGED ledgerVars
  BY <1>7 DEF ledgerVars, IInv, LedgerTyped, PoolClean, CallsTimed, SweepLate, StrikesMatchBan
<1> QED  BY <1>1, <1>2, <1>3, <1>4, <1>5, <1>6, <1>7 DEF LedgerNext

\* The inductive invariant of the ledger holds in every reachable state:
\* types, a clean pool, calls and sweeps that read the clock in the past, and
\* entries whose strikes agree with their bans.
THEOREM Inductive ==
    LedgerSpec => []IInv
BY InitIInv, NextIInv, PTL DEF LedgerSpec

\* Type correctness of the ledger.
THEOREM LedgerTypes ==
    LedgerSpec => []LedgerTyped
<1>1. IInv => LedgerTyped
  BY DEF IInv
<1> QED  BY <1>1, Inductive, PTL

\* An entry holds a ban exactly when its strikes are exhausted, in every
\* interleaving of Strike, Banned, BanNow, BanUntil, Unban, Sweep and
\* UpdateConfig, for any number of clients and goroutines.
THEOREM StrikesAndBansAgree ==
    LedgerSpec => []StrikesMatchBan
<1>1. IInv => StrikesMatchBan
  BY DEF IInv
<1> QED  BY <1>1, Inductive, PTL

----------------------------------------------------------------------------
(* What a step may never do. *)

\* The steps that change the map.
LEMMA EntsChange ==
    ASSUME [LedgerNext]_ledgerVars
    PROVE  \/ ents' = ents
           \/ \E c \in Callers : StrikeCommit(c) \/ BannedCommit(c) \/ BanUntilCommit(c)
           \/ \E k \in Clients : Unban(k) \/ SweepKey(k)
BY DEF LedgerNext, ledgerVars, Strike, Banned, BanNow, BanUntil, Enter, BanUntilLoad, ReadClock, SweepStart,
       UpdateBanConfig, Tick

\* Each of them changes the entry of one client only; of that client they leave:
LEMMA StrikeCommitEnts ==
    ASSUME IInv, NEW c \in Callers, StrikeCommit(c)
    PROVE  LET k == call[c].key IN
           /\ k \in Clients /\ k \in DOMAIN ents'
           /\ \A x \in Clients : x # k => (x \in DOMAIN ents' <=> x \in DOMAIN ents)
           /\ \A x \in DOMAIN ents : x # k => ents'[x] = ents[x]
           /\ k \in DOMAIN ents => ents'[k].bans >= ents[k].bans
           /\ k \notin DOMAIN ents =>
                /\ ents'[k].bans <= 1 /\ (ents'[k].bans = 1 <=> ents'[k].until # 0)
                /\ ents'[k].strikes = 1
<1> DEFINE k == call[c].key  at == call[c].at  cf == call[c].cfg
<1>1. call[c] \in Call /\ LedgerTyped
  BY CallTyped DEF StrikeCommit, IInv
<1>2. /\ k \in Clients /\ at \in Nat /\ cf \in Config /\ cf.ttl \in TTLs
      /\ cf.after \in Afters /\ cf.after \in Nat \ {0}
  BY BanConstants, <1>1 DEF Call, Config
<1>3. PICK e \in StrikeBase(k, at, cf.ttl) : ents' = Put(k, Struck(e, at, cf))
  BY DEF StrikeCommit
<1> HIDE DEF k, at, cf
<1>4. e \in Entry
  BY <1>1, <1>2, BaseType
<1> DEFINE s == Struck(e, at, cf)
<1>5. /\ s \in Entry /\ s.strikes = e.strikes + 1
      /\ s.bans >= e.bans /\ s.bans <= e.bans + 1
      /\ IF e.strikes + 1 < cf.after
           THEN s.until = e.until /\ s.bans = e.bans
           ELSE s.until # 0 /\ s.bans = e.bans + 1
  BY <1>2, <1>4, StruckSound
<1>6. ents' = Put(k, s)
  BY <1>3
<1> HIDE DEF s
<1>7. /\ DOMAIN ents' = DOMAIN ents \cup {k} /\ ents'[k] = s
      /\ \A x \in DOMAIN ents : x # k => ents'[x] = ents[x]
  <2>1. LedgerTyped /\ k \in Clients /\ s \in Entry
    BY <1>1, <1>2, <1>5
  <2> QED  BY <1>6, <2>1, PutType
<1>8. ASSUME k \in DOMAIN ents PROVE ents'[k].bans >= ents[k].bans
  <2>1. e.bans = ents[k].bans
    BY <1>8 DEF StrikeBase, Ent
  <2> QED  BY <1>5, <1>7, <2>1
<1>9. ASSUME k \notin DOMAIN ents
      PROVE  s.bans <= 1 /\ (s.bans = 1 <=> s.until # 0) /\ s.strikes = 1
  <2>1. e.bans = 0 /\ e.until = 0 /\ e.strikes = 0
    BY <1>9 DEF StrikeBase, Pooled, ZeroEntry, Ent, IInv, PoolClean
  <2>2. CASE 1 < cf.after
    BY <1>2, <1>5, <2>1, <2>2
  <2>3. CASE ~(1 < cf.after)
    BY <1>2, <1>5, <2>1, <2>3
  <2> QED  BY <2>2, <2>3
<1> QED  BY <1>2, <1>7, <1>8, <1>9 DEF k

\* What the critical section of Banned does to the entries: no ban is
\* forgotten and a running ban is untouched.
LEMMA BannedCommitEnts ==
    ASSUME IInv, NEW c \in Callers, BannedCommit(c)
    PROVE  /\ DOMAIN ents' = DOMAIN ents
           /\ \A x \in DOMAIN ents :
                /\ ents'[x].bans = ents[x].bans
                /\ Active(x) => ents'[x] = ents[x]
<1> DEFINE k == call[c].key  s == Settled(ents[k], call[c].at)
<1>1. call[c] \in Call /\ LedgerTyped
  BY CallTyped DEF BannedCommit, IInv
<1>2. k \in Clients /\ call[c].at \in Nat /\ call[c].at <= now /\ now \in Nat
  BY <1>1 DEF Call, IInv, LedgerTyped, CallsTimed, BannedCommit
<1>3. CASE k \in DOMAIN ents
  <2>1. ents[k] \in Entry /\ ents[k].until \in Nat
    BY <1>1, <1>3 DEF LedgerTyped, Entry
  <2>2. s \in Entry /\ s.bans = ents[k].bans
    BY <2>1 DEF Settled, Ent, Entry
  <2>3. Active(k) => s = ents[k]
    BY <1>2, <2>1 DEF Settled, Active
  <2>4. ents' = Put(k, s)
    BY <1>3 DEF BannedCommit
  <2> HIDE DEF s
  <2>5. /\ DOMAIN ents' = DOMAIN ents \cup {k} /\ ents'[k] = s
        /\ \A x \in DOMAIN ents : x # k => ents'[x] = ents[x]
    BY <1>1, <1>2, <2>2, <2>4, PutType
  <2> QED  BY <1>3, <2>2, <2>3, <2>5
<1>4. CASE k \notin DOMAIN ents
  <2>1. ents' = ents
    BY <1>4 DEF BannedCommit
  <2> QED  BY <2>1
<1> QED  BY <1>3, <1>4

\* What the critical section of BanUntil does to the entries.
LEMMA BanUntilCommitEnts ==
    ASSUME IInv, NEW c \in Callers, BanUntilCommit(c)
    PROVE  LET k == call[c].key IN
           /\ k \in Clients /\ k \in DOMAIN ents'
           /\ \A x \in Clients : x # k => (x \in DOMAIN ents' <=> x \in DOMAIN ents)
           /\ \A x \in DOMAIN ents : x # k => ents'[x] = ents[x]
           /\ k \in DOMAIN ents => ents'[k].bans >= ents[k].bans
           /\ k \notin DOMAIN ents =>
                ents'[k].bans = 1 /\ ents'[k].until # 0
<1> DEFINE k == call[c].key
           bans == IF k \in DOMAIN ents THEN ents[k].bans ELSE 0
           e == Ent(call[c].until, call[c].cfg.after, call[c].at, bans + 1)
<1>1. call[c] \in Call /\ LedgerTyped
  BY CallTyped DEF BanUntilCommit, IInv
<1>2. /\ k \in Clients /\ call[c].at \in Nat /\ call[c].until \in Nat
      /\ call[c].cfg.after \in Afters /\ call[c].cfg.after \in Nat
  BY BanConstants, <1>1 DEF Call, Config
<1>3. call[c].until # 0
  BY <1>2 DEF BanUntilCommit, IInv, CallsTimed
<1>4. bans \in Nat /\ (k \in DOMAIN ents => bans = ents[k].bans) /\ (k \notin DOMAIN ents => bans = 0)
  BY DEF IInv, LedgerTyped, Entry
<1>5. ents' = Put(k, e)
  BY DEF BanUntilCommit
<1> HIDE DEF bans
<1>6. e \in Entry /\ e.bans = bans + 1 /\ e.until # 0 /\ e.strikes \in Afters
  BY <1>2, <1>3, <1>4 DEF Ent, Entry
<1> HIDE DEF e, k
<1>7. /\ DOMAIN ents' = DOMAIN ents \cup {k} /\ ents'[k] = e
      /\ \A x \in DOMAIN ents : x # k => ents'[x] = ents[x]
  BY <1>1, <1>2, <1>5, <1>6, PutType
<1> QED  BY <1>2, <1>4, <1>6, <1>7 DEF k

\* Unban and the sweep of one client touch no other client.
LEMMA DropEnts ==
    ASSUME IInv, NEW k \in Clients, Unban(k) \/ SweepKey(k)
    PROVE  /\ DOMAIN ents' \subseteq DOMAIN ents
           /\ \A x \in DOMAIN ents : x # k => x \in DOMAIN ents' /\ ents'[x] = ents[x]
           /\ k \in DOMAIN ents' => ents' = ents
BY DropType DEF IInv, Unban, SweepKey

\* A sweep that drops a client found it dormant.
LEMMA SweepKeyDormant ==
    ASSUME IInv, NEW k \in DOMAIN ents, SweepKey(k), k \notin DOMAIN ents'
    PROVE  /\ ~Active(k) /\ ents[k].until < now - MaxAge
           /\ ents[k].until = 0 => ents[k].windowStart < now - MaxAge
<1>1. ents[k] \in Entry /\ now \in Nat /\ sweep.cutoff \in Int /\ MaxAge \in Nat
  BY BanConstants DEF IInv, LedgerTyped
<1>2. ents[k].until \in Nat /\ ents[k].windowStart \in Nat
  BY <1>1 DEF Entry
<1>3. sweep.cutoff <= now - MaxAge
  BY DEF SweepKey, IInv, SweepLate
<1>4. Stale(ents[k], sweep.cutoff)
  BY DEF SweepKey
<1> QED  BY <1>1, <1>2, <1>3, <1>4 DEF Stale, Active

\* A client that enters the map starts clean, for every order of calls.
THEOREM FreshEntriesAreClean ==
    LedgerSpec => FreshEntryClean
<1> DEFINE A == \A k \in Clients : k \notin DOMAIN ents /\ k \in DOMAIN ents' =>
         /\ ents'[k].bans <= 1 /\ (ents'[k].bans = 1 <=> ents'[k].until # 0)
         /\ (\E c \in Callers : StrikeCommit(c)) => ents'[k].strikes = 1
<1>1. IInv /\ [LedgerNext]_ledgerVars => A
  <2> SUFFICES ASSUME IInv, [LedgerNext]_ledgerVars, NEW k \in Clients, k \notin DOMAIN ents, k \in DOMAIN ents'
               PROVE  /\ ents'[k].bans <= 1 /\ (ents'[k].bans = 1 <=> ents'[k].until # 0)
                      /\ (\E c \in Callers : StrikeCommit(c)) => ents'[k].strikes = 1
    OBVIOUS
  <2>1. ASSUME NEW c \in Callers, StrikeCommit(c)
        PROVE  call[c].key = k
    BY <2>1, StrikeCommitEnts
  <2>2. ASSUME NEW c \in Callers, BanUntilCommit(c)
        PROVE  call[c].key = k
    BY <2>2, BanUntilCommitEnts
  <2>3. ~\E c \in Callers : BannedCommit(c)
    BY BannedCommitEnts
  <2>4. ~\E x \in Clients : Unban(x) \/ SweepKey(x)
    BY DropEnts
  <2> QED  BY <2>1, <2>2, <2>3, <2>4, EntsChange, StrikeCommitEnts, BanUntilCommitEnts
<1>2. IInv /\ [LedgerNext]_ledgerVars => [A]_ledgerVars
  BY <1>1
<1> HIDE DEF A
<1>3. LedgerSpec => [][A]_ledgerVars
  BY <1>2, Inductive, PTL DEF LedgerSpec
<1> QED  BY <1>3 DEF A, FreshEntryClean

\* Nothing but the operator, a newer ban or a strike on the same client ends a
\* running ban.
THEOREM BansLast ==
    LedgerSpec => BanEndsOnlyBy
<1> DEFINE A == \A k \in Clients : Active(k) /\ ~(k \in DOMAIN ents' /\ ents'[k].until >= ents[k].until) =>
         \/ Unban(k)
         \/ \E c \in Callers : (BanUntilCommit(c) \/ StrikeCommit(c)) /\ call[c].key = k
<1>1. IInv /\ [LedgerNext]_ledgerVars => A
  <2> SUFFICES ASSUME IInv, [LedgerNext]_ledgerVars, NEW k \in Clients, Active(k),
                      ~(k \in DOMAIN ents' /\ ents'[k].until >= ents[k].until)
               PROVE  \/ Unban(k)
                      \/ \E c \in Callers : (BanUntilCommit(c) \/ StrikeCommit(c)) /\ call[c].key = k
    OBVIOUS
  <2>1. k \in DOMAIN ents /\ ents[k].until \in Nat
    BY DEF Active, IInv, LedgerTyped, Entry
  <2>2. ~(k \in DOMAIN ents' /\ ents'[k] = ents[k])
    BY <2>1
  <2>3. ~\E c \in Callers : BannedCommit(c)
    BY <2>1, <2>2, BannedCommitEnts
  <2>4. ASSUME NEW c \in Callers, BanUntilCommit(c) \/ StrikeCommit(c)
        PROVE  call[c].key = k
    BY <2>1, <2>2, <2>4, StrikeCommitEnts, BanUntilCommitEnts
  <2>5. ASSUME NEW x \in Clients, Unban(x) \/ SweepKey(x)
        PROVE  x = k /\ k \notin DOMAIN ents'
    BY <2>1, <2>2, <2>5, DropEnts
  <2>6. ASSUME NEW x \in Clients, SweepKey(x)
        PROVE  FALSE
    BY <2>1, <2>5, <2>6, SweepKeyDormant
  <2> QED  BY <2>1, <2>2, <2>3, <2>4, <2>5, <2>6, EntsChange
<1>2. IInv /\ [LedgerNext]_ledgerVars => [A]_ledgerVars
  BY <1>1
<1> HIDE DEF A
<1>3. LedgerSpec => [][A]_ledgerVars
  BY <1>2, Inductive, PTL DEF LedgerSpec
<1> QED  BY <1>3 DEF A, BanEndsOnlyBy

\* The count of a client's bans never goes down while it has an entry, and the
\* entry goes only by the operator or by a sweep that finds it dormant.
THEOREM BansAreRemembered ==
    LedgerSpec => EscalationMemory
<1> DEFINE A == \A k \in DOMAIN ents :
         IF k \in DOMAIN ents' THEN ents'[k].bans >= ents[k].bans
         ELSE \/ Unban(k)
              \/ SweepKey(k) /\ ~Active(k)
                 /\ ents[k].until < now - MaxAge
                 /\ (ents[k].until = 0 => ents[k].windowStart < now - MaxAge)
<1>1. IInv /\ [LedgerNext]_ledgerVars => A
  <2> SUFFICES ASSUME IInv, [LedgerNext]_ledgerVars, NEW k \in DOMAIN ents
               PROVE  IF k \in DOMAIN ents' THEN ents'[k].bans >= ents[k].bans
                      ELSE \/ Unban(k)
                           \/ SweepKey(k) /\ ~Active(k)
                              /\ ents[k].until < now - MaxAge
                              /\ (ents[k].until = 0 => ents[k].windowStart < now - MaxAge)
    OBVIOUS
  <2>1. k \in Clients /\ ents[k].bans \in Nat
    BY DEF IInv, LedgerTyped, Entry
  <2>2. CASE ents' = ents
    BY <2>1, <2>2
  <2>3. ASSUME NEW c \in Callers, StrikeCommit(c) \/ BannedCommit(c) \/ BanUntilCommit(c)
        PROVE  k \in DOMAIN ents' /\ ents'[k].bans >= ents[k].bans
    BY <2>1, <2>3, StrikeCommitEnts, BannedCommitEnts, BanUntilCommitEnts
  <2>4. ASSUME NEW x \in Clients, Unban(x) \/ SweepKey(x), k \in DOMAIN ents'
        PROVE  ents'[k].bans >= ents[k].bans
    BY <2>1, <2>4, DropEnts
  <2>5. ASSUME NEW x \in Clients, Unban(x) \/ SweepKey(x), k \notin DOMAIN ents'
        PROVE  x = k
    BY <2>5, DropEnts
  <2> QED  BY <2>1, <2>2, <2>3, <2>4, <2>5, EntsChange, SweepKeyDormant
<1>2. IInv /\ [LedgerNext]_ledgerVars => [A]_ledgerVars
  BY <1>1
<1> HIDE DEF A
<1>3. LedgerSpec => [][A]_ledgerVars
  BY <1>2, Inductive, PTL DEF LedgerSpec
<1> QED  BY <1>3 DEF A, EscalationMemory

============================================================================
