--------------------------- MODULE RoutingProofs ---------------------------
(***************************************************************************)
(* Proofs about Routing, for any rows, any number of administrators and    *)
(* any number of writes; and about Lists, for any lists, lines and number  *)
(* of requests.                                                            *)
(***************************************************************************)
EXTENDS Routing, Lists, Integers, Sequences, FiniteSetTheorems, TLAPS

-----------------------------------------------------------------------------
(* The inductive invariant                                                  *)

Listings == {"listUps", "listRoutes", "listPols", "listSchs"}
Swaps == {"schemas", "table", "stopOld", "startNew", "policies"}

(* What a handler has read is there: its operation, and the tables listed.  *)
Read(h) ==
    /\ task[h].pc = "write" => task[h].op \in Ops
    /\ task[h].pc \in {"listRoutes", "listPols", "listSchs"} \cup Swaps =>
         task[h].snap.ups \in [Upstream -> UpstreamRow]
    /\ task[h].pc \in {"listPols", "listSchs"} \cup Swaps => task[h].snap.routes \in [Route -> RouteRow]
    /\ task[h].pc \in {"listSchs"} \cup Swaps => task[h].snap.pols \in [Policy -> PolicyRows \cup {None}]
    /\ task[h].pc \in Swaps => task[h].snap.schs \in [Schema -> SchemaRows \cup {None}]

(* In a reload nobody disturbed the listings are what the store still holds,
   and so are the copies swapped so far.                                    *)
Accurate(h) ==
    /\ task[h].pc \in {"listRoutes", "listPols", "listSchs"} \cup Swaps => task[h].snap.ups = db.ups
    /\ task[h].pc \in {"listPols", "listSchs"} \cup Swaps => task[h].snap.routes = db.routes
    /\ task[h].pc \in {"listSchs"} \cup Swaps => task[h].snap.pols = db.pols
    /\ task[h].pc \in Swaps => task[h].snap.schs = db.schs
    /\ task[h].pc \in Swaps \ {"schemas"} => live.schs = db.schs
    /\ task[h].pc \in {"stopOld", "startNew", "policies"} => live.routes = Compile(db.ups, db.routes)

Undisturbed ==
    calm =>
      /\ \A h, k \in Admin : Reloading(h) /\ Reloading(k) => h = k
      /\ \A h \in Admin : Accurate(h)
      /\ SettledLive

(* Handlers that may still swap the table; there are never more generations
   than writes.                                                             *)
Pending == {h \in Admin : task[h].pc \in {"write", "schemas", "table"} \cup Listings}
Numbered == live.gen + Cardinality(Pending) <= writes

(* A superseded generation is stopped or about to be, the live one is not
   stopped and runs or is about to, later ones have not been touched.       *)
Stopping(g) == \E h \in Admin : task[h].pc = "stopOld" /\ task[h].old = g
Starting(g) == \E h \in Admin : task[h].pc \in {"stopOld", "startNew"} /\ task[h].new = g

Generation(g) ==
    /\ g < live.gen => checker[g].stopped \/ Stopping(g)
    /\ g = live.gen => ~checker[g].stopped /\ (checker[g].running \/ Starting(g))
    /\ g > live.gen => ~checker[g].running /\ ~checker[g].stopped

Swapped(h) ==
    /\ task[h].pc = "stopOld" => task[h].old < live.gen
    /\ task[h].pc \in {"stopOld", "startNew"} => task[h].new <= live.gen

Generations == (\A g \in Gen : Generation(g)) /\ \A h \in Admin : Swapped(h)

(* A request past checkAccess was let in by a policy the manager had.       *)
Allowed ==
    req.pc \in {"access", "schema", "openapi", "served"} /\ req.pol # None =>
      /\ req.loaded # None
      /\ \/ req.pol \in req.cookies
         \/ req.loaded.rules = {}
         \/ "pass" \in req.loaded.rules

Inv ==
    /\ RoutingTyped /\ (\A h \in Admin : Read(h))
    /\ RefsIntact /\ Undisturbed /\ Numbered /\ Generations /\ Allowed
-----------------------------------------------------------------------------
(* What a step of one handler leaves alone                                  *)

Early == {"write", "schemas", "table"} \cup Listings
Late == {"stopOld", "startNew"}

(* Only handler h moves.                                                    *)
Alone(h) == \A k \in Admin \ {h} : task'[k] = task[k]

\* A handler that takes a step leaves the tasks of the others alone.
LEMMA OneMoves ==
    ASSUME RoutingTyped, NEW h \in Admin, NEW t, task' = [task EXCEPT ![h] = t]
    PROVE  Alone(h) /\ task'[h] = t
BY DEF RoutingTyped, Alone

(* The references in the store depend on the store only.                    *)
LEMMA RefsSame ==
    ASSUME RefsIntact, UNCHANGED db
    PROVE  RefsIntact'
BY DEF RefsIntact, RefsExist

\* The request, where a step leaves it alone.
LEMMA RequestSame ==
    ASSUME Allowed, UNCHANGED req
    PROVE  Allowed'
BY DEF Allowed

(* A handler that touches no checker and no generation.                     *)
LEMMA GenerationsSame ==
    ASSUME RoutingTyped, Generations, UNCHANGED checker, live'.gen = live.gen, NEW h \in Admin, Alone(h),
           task[h].pc \notin Late, task'[h].pc \notin Late
    PROVE  Generations'
<1>1. ASSUME NEW g \in Gen PROVE Generation(g)'
  BY DEF Generations, Generation, Stopping, Starting, Alone, Late
<1>2. ASSUME NEW k \in Admin PROVE Swapped(k)'
  BY DEF Generations, Swapped, Alone, Late
<1> QED  BY <1>1, <1>2 DEF Generations

(* A handler that stays before the swap of the table, or gives up.          *)
LEMMA NumberedSame ==
    ASSUME RoutingTyped, Numbered, live'.gen = live.gen, writes' = writes, NEW h \in Admin, Alone(h),
           task'[h].pc \in Early => task[h].pc \in Early
    PROVE  Numbered'
<1>1. Pending' \subseteq Pending /\ IsFiniteSet(Pending)
  BY FS_Subset, RoutingAssumption DEF Pending, Alone, Early
<1>2. Cardinality(Pending') <= Cardinality(Pending) /\ Cardinality(Pending) \in Nat /\ Cardinality(Pending') \in Nat
  BY <1>1, FS_Subset, FS_CardinalityType
<1> QED  BY <1>2 DEF Numbered, RoutingTyped, Gen

(* A handler that works on a reload while nobody disturbs it.               *)
LEMMA UndisturbedStep ==
    ASSUME RoutingTyped, Undisturbed, UNCHANGED db, calm' => calm, NEW h \in Admin, Alone(h), Reloading(h),
           calm /\ Accurate(h) => Accurate(h)',
           calm /\ Accurate(h) /\ ~Reloading(h)' => SettledLive'
    PROVE  Undisturbed'
<1> SUFFICES ASSUME calm'
             PROVE  /\ \A j, k \in Admin : Reloading(j)' /\ Reloading(k)' => j = k
                    /\ \A k \in Admin : Accurate(k)'
                    /\ SettledLive'
  BY DEF Undisturbed
<1>1. /\ \A j, k \in Admin : Reloading(j) /\ Reloading(k) => j = k
      /\ \A k \in Admin : Accurate(k)
  BY DEF Undisturbed
<1>2. \A k \in Admin \ {h} : ~Reloading(k) /\ ~Reloading(k)'
  BY <1>1 DEF Reloading, Alone
<1>3. \A k \in Admin \ {h} : Accurate(k)'
  BY <1>2 DEF Accurate, Reloading, Swaps
<1>4. Accurate(h)'  BY <1>1
<1>5. SettledLive'
  <2>1. CASE Reloading(h)'
    BY <2>1 DEF SettledLive, NoReload
  <2>2. CASE ~Reloading(h)'
    BY <1>1, <2>2
  <2> QED  BY <2>1, <2>2
<1> QED  BY <1>2, <1>3, <1>4, <1>5
-----------------------------------------------------------------------------
(* The handlers, step by step                                               *)

\* At the start the live copies are those of the store.
LEMMA InitInv == RoutingInit => Inv
<1> SUFFICES ASSUME RoutingInit PROVE Inv  OBVIOUS
<1>1. 0 \in Gen /\ MaxWrites \in Nat  BY RoutingAssumption DEF Gen
<1>2. db \in Tables /\ RefsIntact  BY DEF RoutingInit, RefsIntact
<1>3. Compile(db.ups, db.routes) \in [Route -> RouteRow]
  BY <1>2 DEF Compile, Tables, RouteRow
<1>4. task \in [Admin -> [pc : Phases, op : Ops \cup {None}, create : BOOLEAN, snap : Snap,
                            old : Gen, new : Gen]]
  BY <1>1 DEF RoutingInit, NoTask, Task, NoSnap, Phases, Snap
<1>5. \A h \in Admin : task[h].pc = "idle"  BY DEF RoutingInit, NoTask, Task
<1>6. checker \in [Gen -> [running : BOOLEAN, stopped : BOOLEAN]]
  BY DEF RoutingInit
<1>7. RoutingTyped
  <2>1. live \in [routes : [Route -> RouteRow], gen : Gen, pols : [Policy -> PolicyRows \cup {None}],
                  schs : [Schema -> SchemaRows \cup {None}]]
    BY <1>1, <1>2, <1>3 DEF RoutingInit, Tables
  <2>2. writes \in 0..MaxWrites /\ calm \in BOOLEAN  BY <1>1 DEF RoutingInit
  <2>3. req \in [pc : {"new", "policy", "access", "schema", "openapi", "served", "denied"},
                 cookies : SUBSET Policy, pol : Policy \cup {None}, sch : Schema \cup {None},
                 loaded : PolicyRows \cup {None}]
    BY DEF RoutingInit
  <2> QED  BY <1>2, <1>4, <1>6, <2>1, <2>2, <2>3 DEF RoutingTyped
<1>8. \A h \in Admin : Read(h)
  BY <1>5 DEF Read, Swaps
<1>9. Undisturbed
  BY <1>5 DEF RoutingInit, Undisturbed, Accurate, Reloading, SettledLive, Swaps
<1>10. Numbered
  <2>1. Pending = {}  BY <1>5 DEF Pending, Listings
  <2> QED  BY <2>1, FS_EmptySet DEF RoutingInit, Numbered
<1>11. Generations
  <2>1. ASSUME NEW g \in Gen PROVE Generation(g)
    <3> DEFINE first == g = 0
    <3>1. live.gen = 0 /\ checker[g] = [running |-> first, stopped |-> FALSE]  BY DEF RoutingInit
    <3>2. ~checker[g].stopped /\ first \in BOOLEAN /\ (first <=> g = 0)  BY <3>1
    <3> HIDE DEF first
    <3>3. checker[g].running = first  BY <3>1
    <3> QED  BY <1>1, <3>1, <3>2, <3>3 DEF Generation, Gen
  <2> QED  BY <1>5, <2>1 DEF Generations, Swapped
<1>12. Allowed  BY DEF RoutingInit, Allowed
<1> QED  BY <1>2, <1>7, <1>8, <1>9, <1>10, <1>11, <1>12 DEF Inv

(* A handler receives a write.                                              *)
LEMMA ReceiveInv ==
    ASSUME Inv, NEW h \in Admin, NEW table, NEW id, NEW row, Receive(h, table, id, row),
           [table |-> table, id |-> id, row |-> row] \in Ops
    PROVE  Inv'
<1> DEFINE op == [table |-> table, id |-> id, row |-> row]
           new == db[table][id] = None
           t == Task("write", op, new)
<1>1. /\ task[h].pc = "idle" /\ writes < MaxWrites /\ writes' = writes + 1
      /\ UNCHANGED <<db, live, checker, calm, req>> /\ RoutingTyped /\ (\A k \in Admin : Read(k))
      /\ task' = [task EXCEPT ![h] = t]
  BY DEF Receive, Inv
<1>2. op \in Ops /\ new \in BOOLEAN  OBVIOUS
<1> HIDE DEF op, new
<1>0. 0 \in Gen /\ NoSnap \in Snap  BY RoutingAssumption DEF Gen, NoSnap, Snap
<1>3. /\ t \in [pc : Phases, op : Ops \cup {None}, create : BOOLEAN, snap : Snap, old : Gen, new : Gen]
      /\ t.pc = "write" /\ t.op = op
  <2>1. t = [pc |-> "write", op |-> op, create |-> new, snap |-> NoSnap, old |-> 0, new |-> 0]
    BY DEF Task
  <2> HIDE DEF t
  <2>2. [pc |-> "write", op |-> op, create |-> new, snap |-> NoSnap, old |-> 0, new |-> 0]
          \in [pc : Phases, op : Ops \cup {None}, create : BOOLEAN, snap : Snap, old : Gen, new : Gen]
    BY <1>0, <1>2 DEF Phases
  <2> QED  BY <2>1, <2>2
<1> HIDE DEF t
<1>4. Alone(h) /\ task'[h] = t  BY <1>1, OneMoves
<1>5. RoutingTyped'
  <2>1. writes' \in 0..MaxWrites  BY <1>1, RoutingAssumption DEF RoutingTyped
  <2> QED  BY <1>1, <1>3, <2>1 DEF RoutingTyped
<1>6. \A k \in Admin : Read(k)'
  BY <1>1, <1>2, <1>3, <1>4 DEF Read, Alone, Swaps
<1>7. Undisturbed'
  BY <1>1, <1>3, <1>4 DEF Inv, Undisturbed, Accurate, SettledLive, Reloading, NoReload, Alone, Swaps
<1>8. Numbered'
  <2>1. Pending' = Pending \cup {h} /\ h \notin Pending
    BY <1>1, <1>3, <1>4 DEF Pending, Alone, Listings
  <2>2. IsFiniteSet(Pending)  BY FS_Subset, RoutingAssumption DEF Pending
  <2>3. Cardinality(Pending') = Cardinality(Pending) + 1 /\ Cardinality(Pending) \in Nat
    BY <2>1, <2>2, FS_AddElement, FS_CardinalityType
  <2> QED  BY <1>1, <2>3 DEF Inv, Numbered, RoutingTyped, Gen
<1>9. Generations'
  BY <1>1, <1>3, <1>4, GenerationsSame DEF Inv, Late
<1> QED  BY <1>1, <1>5, <1>6, <1>7, <1>8, <1>9, RefsSame, RequestSame DEF Inv

\* An admin request begins and tests its references.
LEMMA HandleInv ==
    ASSUME Inv, NEW h \in Admin,
           handleUpstreams(h) \/ handleRoutes(h) \/ handleAccessPolicies(h) \/ handleAPISchemas(h)
    PROVE  Inv'
<1>1. CASE handleUpstreams(h)  BY <1>1, ReceiveInv DEF handleUpstreams, Ops
<1>2. CASE handleRoutes(h)  BY <1>2, ReceiveInv DEF handleRoutes, Ops
<1>3. CASE handleAccessPolicies(h)  BY <1>3, ReceiveInv DEF handleAccessPolicies, Ops
<1>4. CASE handleAPISchemas(h)  BY <1>4, ReceiveInv DEF handleAPISchemas, Ops
<1> QED  BY <1>1, <1>2, <1>3, <1>4
(* The row an operation writes belongs to its table.                        *)
LEMMA OpTyped ==
    ASSUME NEW op \in Ops
    PROVE  /\ op.table \in {"ups", "routes", "pols", "schs"}
           /\ op.table = "ups" => op.id \in Upstream /\ op.row \in UpstreamRow
           /\ op.table = "routes" => op.id \in Route /\ op.row \in RouteRow
           /\ op.table = "pols" => op.id \in Policy /\ op.row \in PolicyRows \cup {None}
           /\ op.table = "schs" => op.id \in Schema /\ op.row \in SchemaRows \cup {None}
BY DEF Ops

(* ON DELETE SET NULL keeps rows rows, and only takes references away.      *)
LEMMA SetNullRow ==
    ASSUME NEW routes \in [Route -> RouteRow], NEW op, NEW r \in Route
    PROVE  /\ SetNull(routes, op)[r] \in RouteRow
           /\ routes[r] = None => SetNull(routes, op)[r] = None
           /\ op.row # None => SetNull(routes, op)[r] = routes[r]
           /\ op.table \notin {"pols", "schs"} => SetNull(routes, op)[r] = routes[r]
<1>1. SetNull(routes, op)[r] =
        IF routes[r] = None \/ op.row # None THEN routes[r]
        ELSE IF op.table = "pols" /\ routes[r].pol = op.id THEN [routes[r] EXCEPT !.pol = None]
        ELSE IF op.table = "schs" /\ routes[r].sch = op.id THEN [routes[r] EXCEPT !.sch = None]
        ELSE routes[r]
  BY DEF SetNull
<1>2. routes[r] # None =>
        /\ routes[r] \in [up : Upstream, pol : Policy \cup {None}, sch : Schema \cup {None}, on : BOOLEAN]
        /\ [routes[r] EXCEPT !.pol = None] \in RouteRow /\ [routes[r] EXCEPT !.sch = None] \in RouteRow
  BY DEF RouteRow
<1>3. routes[r] \in RouteRow  OBVIOUS
<1> QED  BY <1>1, <1>2, <1>3

(* The store after a write.                                                 *)
Stored(op) ==
    db' = [ups |-> Written("ups", op), routes |-> SetNull(Written("routes", op), op),
           pols |-> Written("pols", op), schs |-> Written("schs", op)]

\* A statement that is carried out leaves tables.
LEMMA StoredTyped ==
    ASSUME db \in Tables, NEW op \in Ops, Stored(op)
    PROVE  db' \in Tables
<1>1. Written("ups", op) \in [Upstream -> UpstreamRow]
  BY OpTyped DEF Written, Tables
<1>2. Written("routes", op) \in [Route -> RouteRow]
  BY OpTyped DEF Written, Tables
<1>3. Written("pols", op) \in [Policy -> PolicyRows \cup {None}]
  BY OpTyped DEF Written, Tables
<1>4. Written("schs", op) \in [Schema -> SchemaRows \cup {None}]
  BY OpTyped DEF Written, Tables
<1>5. SetNull(Written("routes", op), op) \in [Route -> RouteRow]
  <2> DEFINE w == Written("routes", op)
  <2>1. w \in [Route -> RouteRow]  BY <1>2
  <2> HIDE DEF w
  <2>2. \A r \in Route : SetNull(w, op)[r] \in RouteRow  BY <2>1, SetNullRow
  <2>3. SetNull(w, op) \in [Route -> RouteRow]  BY <2>2 DEF SetNull
  <2> QED  BY <2>3 DEF w
<1> QED  BY <1>1, <1>3, <1>4, <1>5 DEF Tables, Stored

(* Foreign keys keep the references, whatever the methods tested before.    *)
LEMMA StoredRefs ==
    ASSUME db \in Tables, RefsIntact, NEW op \in Ops, ForeignKeys(op), Stored(op)
    PROVE  RefsIntact'
<1> SUFFICES ASSUME NEW r \in Route, db'.routes[r] # None PROVE RefsExist(db.routes[r])'
  BY DEF RefsIntact
<1> DEFINE w == Written("routes", op)
<1>1. w \in [Route -> RouteRow]  BY OpTyped DEF Written, Tables
<1>2. db'.ups = Written("ups", op) /\ db'.routes = SetNull(w, op)
      /\ db'.pols = Written("pols", op) /\ db'.schs = Written("schs", op)
  BY DEF Stored
<1>3. op.table # "routes" => w = db.routes  BY DEF Written
<1>4. op.table = "routes" => w[r] = op.row \/ w[r] = db.routes[r]
  BY OpTyped DEF Written, Tables
<1> HIDE DEF w
<1>5. w[r] # None  BY <1>1, <1>2, SetNullRow
<1>6. CASE op.table = "routes"
  <2>1. db'.ups = db.ups /\ db'.pols = db.pols /\ db'.schs = db.schs  BY <1>2, <1>6 DEF Written
  <2>2. db'.routes[r] = w[r]  BY <1>1, <1>2, <1>6, SetNullRow
  <2>3. RefsExist(w[r])  BY <1>4, <1>5, <1>6 DEF RefsIntact, ForeignKeys
  <2> QED  BY <2>1, <2>2, <2>3 DEF RefsExist
<1>7. CASE op.table = "ups"
  <2>1. /\ db'.ups = [db.ups EXCEPT ![op.id] = op.row] /\ db'.pols = db.pols /\ db'.schs = db.schs
        /\ op.id \in Upstream
    BY <1>2, <1>7, OpTyped DEF Written
  <2>2. db'.routes[r] = db.routes[r]  BY <1>1, <1>2, <1>3, <1>7, SetNullRow
  <2>3. RefsExist(db.routes[r]) /\ db.routes[r] # None  BY <1>3, <1>5, <1>7 DEF RefsIntact
  <2>4. db.routes[r].up \in Upstream  BY <2>3 DEF Tables, RouteRow
  <2>5. op.row = None => db.routes[r].up # op.id  BY <1>7, <2>3 DEF ForeignKeys, InUse
  <2>6. db'.ups[db.routes[r].up] # None
    BY <2>1, <2>3, <2>4, <2>5 DEF RefsExist, Tables
  <2> QED  BY <2>1, <2>2, <2>3, <2>6 DEF RefsExist
<1>8. CASE op.table \in {"pols", "schs"}
  <2>1. /\ db'.ups = db.ups
        /\ op.table = "pols" => db'.pols = [db.pols EXCEPT ![op.id] = op.row] /\ db'.schs = db.schs
        /\ op.table = "schs" => db'.schs = [db.schs EXCEPT ![op.id] = op.row] /\ db'.pols = db.pols
    BY <1>2, <1>8 DEF Written
  <2>2. /\ w[r] = db.routes[r] /\ RefsExist(db.routes[r]) /\ w[r] \in RouteRow
    BY <1>1, <1>3, <1>5, <1>8 DEF RefsIntact
  <2>3. CASE op.row # None
    <3>1. db'.routes[r] = db.routes[r]  BY <1>1, <1>2, <2>2, <2>3, SetNullRow
    <3> QED  BY <1>5, <2>1, <2>2, <2>3, <3>1, <1>8, OpTyped DEF RefsExist, Tables, RouteRow
  <2>4. CASE op.row = None
    <3>1. db'.routes[r] = IF op.table = "pols" /\ w[r].pol = op.id THEN [w[r] EXCEPT !.pol = None]
                          ELSE IF op.table = "schs" /\ w[r].sch = op.id THEN [w[r] EXCEPT !.sch = None]
                          ELSE w[r]
      BY <1>2, <1>5, <2>4 DEF SetNull
    <3>2. w[r] \in [up : Upstream, pol : Policy \cup {None}, sch : Schema \cup {None}, on : BOOLEAN]
      BY <1>5, <2>2 DEF RouteRow
    <3>3. CASE op.table = "pols"
      <4>1. db'.routes[r].up = w[r].up /\ db'.routes[r].sch = w[r].sch  BY <3>1, <3>2, <3>3
      <4>2. db'.routes[r].pol # None => db'.routes[r].pol = w[r].pol /\ w[r].pol # op.id
        BY <3>1, <3>2, <3>3
      <4> QED  BY <2>1, <2>2, <3>2, <3>3, <4>1, <4>2, OpTyped DEF RefsExist, Tables
    <3>4. CASE op.table = "schs"
      <4>1. db'.routes[r].up = w[r].up /\ db'.routes[r].pol = w[r].pol  BY <3>1, <3>2, <3>4
      <4>2. db'.routes[r].sch # None => db'.routes[r].sch = w[r].sch /\ w[r].sch # op.id
        BY <3>1, <3>2, <3>4
      <4> QED  BY <2>1, <2>2, <3>2, <3>4, <4>1, <4>2, OpTyped DEF RefsExist, Tables
    <3> QED  BY <1>8, <3>3, <3>4
  <2> QED  BY <2>3, <2>4
<1> QED  BY <1>6, <1>7, <1>8, OpTyped
(* A task that has just been set up is a task.                              *)
LEMMA TaskTyped ==
    ASSUME RoutingTyped, NEW pc \in Phases
    PROVE  Task(pc, None, FALSE) \in [pc : Phases, op : Ops \cup {None}, create : BOOLEAN, snap : Snap,
                                      old : Gen, new : Gen]
<1>1. 0 \in Gen /\ NoSnap \in Snap  BY RoutingAssumption DEF Gen, NoSnap, Snap
<1> QED  BY <1>1 DEF Task

\* The statement: the foreign keys keep references intact, and live copies are now
\* behind the store until this handler has reloaded them.
LEMMA ExecInv ==
    ASSUME Inv, NEW h \in Admin, Exec(h)
    PROVE  Inv'
<1> DEFINE op == task[h].op
<1>1. /\ RoutingTyped /\ (\A k \in Admin : Read(k)) /\ task[h].pc = "write" /\ op \in Ops
      /\ UNCHANGED <<live, checker, writes, req>>
  BY DEF Inv, Read, Exec
<1>2. ASSUME NEW pc \in {"idle", "listUps"}, task' = [task EXCEPT ![h] = Task(pc, None, FALSE)]
      PROVE  /\ task' \in [Admin -> [pc : Phases, op : Ops \cup {None}, create : BOOLEAN, snap : Snap,
                                       old : Gen, new : Gen]]
             /\ Alone(h) /\ task'[h].pc = pc
             /\ (\A k \in Admin : Read(k)') /\ Numbered' /\ Generations'
  <2>1. task' \in [Admin -> [pc : Phases, op : Ops \cup {None}, create : BOOLEAN, snap : Snap,
                               old : Gen, new : Gen]]
    BY <1>1, <1>2, TaskTyped DEF RoutingTyped, Phases
  <2>0. Alone(h) /\ task'[h] = Task(pc, None, FALSE)  BY <1>1, <1>2, OneMoves
  <2>2. Alone(h) /\ task'[h].pc = pc  BY <2>0 DEF Task
  <2>3. \A k \in Admin : Read(k)'  BY <1>1, <2>2 DEF Read, Alone, Swaps
  <2>4. Numbered'  BY <1>1, <2>2, NumberedSame DEF Inv, Early, Listings
  <2>5. Generations'  BY <1>1, <2>2, GenerationsSame DEF Inv, Late
  <2> QED  BY <2>1, <2>2, <2>3, <2>4, <2>5
<1>3. CASE Stored(op) /\ ForeignKeys(op) /\ calm' = NoReload
             /\ task' = [task EXCEPT ![h] = Task("listUps", None, FALSE)]
  <2>1. db' \in Tables /\ RefsIntact'
    BY <1>1, <1>3, StoredTyped, StoredRefs DEF Inv, RoutingTyped
  <2>2. calm' \in BOOLEAN  BY <1>3 DEF NoReload
  <2>3. RoutingTyped'  BY <1>1, <1>2, <1>3, <2>1, <2>2 DEF RoutingTyped
  <2>4. Undisturbed'
    <3>1. Alone(h) /\ task'[h].pc = "listUps"  BY <1>2, <1>3
    <3>2. calm' => \A k \in Admin \ {h} : task'[k].pc \in {"idle", "write"}
      BY <1>3, <3>1 DEF NoReload, Reloading, Alone
    <3>3. Reloading(h)' /\ ~NoReload'  BY <3>1 DEF Reloading, NoReload
    <3>4. calm' => \A k \in Admin : Accurate(k)'
      BY <3>1, <3>2 DEF Accurate, Swaps
    <3> QED  BY <3>2, <3>3, <3>4 DEF Undisturbed, SettledLive, Reloading
  <2> QED  BY <1>1, <1>2, <1>3, <2>1, <2>3, <2>4, RequestSame DEF Inv
<1>4. CASE task' = [task EXCEPT ![h] = NoTask] /\ UNCHANGED <<db, calm>>
  <2>1. /\ task' \in [Admin -> [pc : Phases, op : Ops \cup {None}, create : BOOLEAN, snap : Snap,
                                  old : Gen, new : Gen]]
        /\ Alone(h) /\ task'[h].pc = "idle" /\ (\A k \in Admin : Read(k)')
        /\ Numbered' /\ Generations'
    BY <1>2, <1>4 DEF NoTask
  <2>2. RoutingTyped'  BY <1>1, <1>4, <2>1 DEF RoutingTyped
  <2>3. Undisturbed'
    BY <1>1, <1>4, <2>1 DEF Inv, Undisturbed, Accurate, SettledLive, Reloading, NoReload, Alone, Swaps
  <2> QED  BY <1>1, <1>4, <2>1, <2>2, <2>3, RefsSame, RequestSame DEF Inv
<1> QED  BY <1>3, <1>4 DEF Exec, Stored

(* One of the four listings: the handler has one table more.                *)
LEMMA ListInv ==
    ASSUME Inv, NEW h \in Admin, NEW pc \in Listings, NEW next \in Listings \cup {"schemas"}, NEW snap \in Snap,
           List(h, pc, next, snap), Read(h)', calm /\ Accurate(h) => Accurate(h)'
    PROVE  Inv'
<1> DEFINE t == [task[h] EXCEPT !.pc = next, !.snap = snap]
<1>1. /\ RoutingTyped /\ (\A k \in Admin : Read(k)) /\ task[h].pc = pc
      /\ task' = [task EXCEPT ![h] = t]
      /\ UNCHANGED <<db, live, checker, writes, calm, req>>
  BY DEF List, Inv
<1>2. /\ t \in [pc : Phases, op : Ops \cup {None}, create : BOOLEAN, snap : Snap, old : Gen, new : Gen]
      /\ t.pc = next
  BY <1>1 DEF RoutingTyped, Phases, Listings
<1> HIDE DEF t
<1>3. Alone(h) /\ task'[h] = t  BY <1>1, OneMoves
<1>4. RoutingTyped'  BY <1>1, <1>2 DEF RoutingTyped
<1>5. \A k \in Admin : Read(k)'  BY <1>1, <1>3 DEF Read, Alone
<1>6. Reloading(h) /\ Reloading(h)'  BY <1>1, <1>2, <1>3 DEF Reloading, Listings
<1>7. Undisturbed'  BY <1>1, <1>3, <1>6, UndisturbedStep DEF Inv
<1>8. Numbered'  BY <1>1, <1>3, NumberedSame DEF Inv, Early
<1>9. Generations'  BY <1>1, <1>2, <1>3, GenerationsSame DEF Inv, Late, Listings
<1> QED  BY <1>1, <1>4, <1>5, <1>7, <1>8, <1>9, RefsSame, RequestSame DEF Inv

\* A listing is what the store holds unless another handler writes.
LEMMA ListsInv ==
    ASSUME Inv, NEW h \in Admin,
           ListUpstreams(h) \/ ListRoutes(h) \/ ListAccessPolicies(h) \/ ListAPISchemas(h)
    PROVE  Inv'
<1>1. RoutingTyped /\ Read(h) /\ task[h].snap \in Snap  BY DEF Inv, RoutingTyped
<1> USE DEF List, Listings
<1>2. ASSUME NEW next \in Phases, NEW snap \in Snap,
             task' = [task EXCEPT ![h] = [@ EXCEPT !.pc = next, !.snap = snap]]
      PROVE  task'[h].pc = next /\ task'[h].snap = snap
  BY <1>1, <1>2 DEF RoutingTyped
<1>3. CASE ListUpstreams(h)
  <2> DEFINE s == [task[h].snap EXCEPT !.ups = db.ups]
  <2>1. s \in Snap /\ s.ups = db.ups  BY <1>1 DEF RoutingTyped, Snap, Tables
  <2> HIDE DEF s
  <2>2. List(h, "listUps", "listRoutes", s)  BY <1>3 DEF ListUpstreams, s
  <2>3. task'[h].pc = "listRoutes" /\ task'[h].snap = s /\ db' = db /\ live' = live
    BY <1>2, <2>1, <2>2 DEF Phases
  <2>4. Read(h)'  BY <1>1, <2>1, <2>3 DEF RoutingTyped, Read, Swaps, Tables
  <2>5. Accurate(h)'  BY <2>1, <2>3 DEF Accurate, Swaps
  <2> QED  BY <2>1, <2>2, <2>4, <2>5, ListInv
<1>4. CASE ListRoutes(h)
  <2> DEFINE s == [task[h].snap EXCEPT !.routes = db.routes]
  <2>1. s \in Snap /\ s.routes = db.routes /\ s.ups = task[h].snap.ups
    BY <1>1 DEF RoutingTyped, Snap, Tables
  <2> HIDE DEF s
  <2>2. List(h, "listRoutes", "listPols", s)  BY <1>4 DEF ListRoutes, s
  <2>3. task'[h].pc = "listPols" /\ task'[h].snap = s /\ db' = db /\ live' = live
    BY <1>2, <2>1, <2>2 DEF Phases
  <2>4. Read(h)'  BY <1>1, <2>1, <2>2, <2>3 DEF RoutingTyped, Read, Swaps, Tables
  <2>5. Accurate(h) => Accurate(h)'  BY <2>1, <2>2, <2>3 DEF Accurate, Swaps
  <2> QED  BY <2>1, <2>2, <2>4, <2>5, ListInv
<1>5. CASE ListAccessPolicies(h)
  <2> DEFINE s == [task[h].snap EXCEPT !.pols = db.pols]
  <2>1. s \in Snap /\ s.pols = db.pols /\ s.ups = task[h].snap.ups /\ s.routes = task[h].snap.routes
    BY <1>1 DEF RoutingTyped, Snap, Tables
  <2> HIDE DEF s
  <2>2. List(h, "listPols", "listSchs", s)  BY <1>5 DEF ListAccessPolicies, s
  <2>3. task'[h].pc = "listSchs" /\ task'[h].snap = s /\ db' = db /\ live' = live
    BY <1>2, <2>1, <2>2 DEF Phases
  <2>4. Read(h)'  BY <1>1, <2>1, <2>2, <2>3 DEF RoutingTyped, Read, Swaps, Tables
  <2>5. Accurate(h) => Accurate(h)'  BY <2>1, <2>2, <2>3 DEF Accurate, Swaps
  <2> QED  BY <2>1, <2>2, <2>4, <2>5, ListInv
<1>6. CASE ListAPISchemas(h)
  <2> DEFINE s == [task[h].snap EXCEPT !.schs = db.schs]
  <2>1. /\ s \in Snap /\ s.schs = db.schs /\ s.ups = task[h].snap.ups
        /\ s.routes = task[h].snap.routes /\ s.pols = task[h].snap.pols
    BY <1>1 DEF RoutingTyped, Snap, Tables
  <2> HIDE DEF s
  <2>2. List(h, "listSchs", "schemas", s)  BY <1>6 DEF ListAPISchemas, s
  <2>3. task'[h].pc = "schemas" /\ task'[h].snap = s /\ db' = db /\ live' = live
    BY <1>2, <2>1, <2>2 DEF Phases
  <2>4. Read(h)'  BY <1>1, <2>1, <2>2, <2>3 DEF RoutingTyped, Read, Swaps, Tables
  <2>5. Accurate(h) => Accurate(h)'  BY <2>1, <2>2, <2>3 DEF Accurate, Swaps
  <2> QED  BY <2>1, <2>2, <2>4, <2>5, ListInv
<1> QED  BY <1>3, <1>4, <1>5, <1>6
(* A handler moves on with the same listings.                               *)
LEMMA Onward ==
    ASSUME RoutingTyped, NEW h \in Admin, NEW pc \in Phases, task' = [task EXCEPT ![h].pc = pc]
    PROVE  /\ task' \in [Admin -> [pc : Phases, op : Ops \cup {None}, create : BOOLEAN, snap : Snap,
                                     old : Gen, new : Gen]]
           /\ Alone(h) /\ task'[h].pc = pc /\ task'[h].snap = task[h].snap
           /\ task'[h].old = task[h].old /\ task'[h].new = task[h].new
BY DEF RoutingTyped, Alone

\* The schemas are swapped.
LEMMA ReplaceSchemasInv ==
    ASSUME Inv, NEW h \in Admin, ReplaceSchemas(h)
    PROVE  Inv'
<1>1. /\ RoutingTyped /\ (\A k \in Admin : Read(k)) /\ task[h].pc = "schemas"
      /\ task' = [task EXCEPT ![h].pc = "table"] /\ live' = [live EXCEPT !.schs = task[h].snap.schs]
      /\ UNCHANGED <<db, checker, writes, calm, req>>
  BY DEF ReplaceSchemas, Inv
<1>2. /\ task' \in [Admin -> [pc : Phases, op : Ops \cup {None}, create : BOOLEAN, snap : Snap,
                                old : Gen, new : Gen]]
      /\ Alone(h) /\ task'[h].pc = "table" /\ task'[h].snap = task[h].snap
  BY <1>1, Onward DEF Phases
<1>3. task[h].snap.schs \in [Schema -> SchemaRows \cup {None}]  BY <1>1 DEF Read, Swaps
<1>4. /\ RoutingTyped' /\ live'.gen = live.gen /\ live'.schs = task[h].snap.schs
  BY <1>1, <1>2, <1>3 DEF RoutingTyped
<1>5. \A k \in Admin : Read(k)'  BY <1>1, <1>2 DEF Read, Alone, Swaps
<1>6. Reloading(h) /\ Reloading(h)'  BY <1>1, <1>2 DEF Reloading
<1>7. Accurate(h) => Accurate(h)'  BY <1>1, <1>2, <1>4 DEF Accurate, Swaps
<1>8. Undisturbed'  BY <1>1, <1>2, <1>6, <1>7, UndisturbedStep DEF Inv
<1>9. Numbered'  BY <1>1, <1>2, <1>4, NumberedSame DEF Inv, Early
<1>10. Generations'  BY <1>1, <1>2, <1>4, GenerationsSame DEF Inv, Late
<1> QED  BY <1>1, <1>4, <1>5, <1>8, <1>9, <1>10, RefsSame, RequestSame DEF Inv

(* A reload that ends: the handler has nothing left.                        *)
LEMMA Ended ==
    ASSUME RoutingTyped, (\A k \in Admin : Read(k)), NEW h \in Admin, task' = [task EXCEPT ![h] = NoTask]
    PROVE  /\ task' \in [Admin -> [pc : Phases, op : Ops \cup {None}, create : BOOLEAN, snap : Snap,
                                     old : Gen, new : Gen]]
           /\ Alone(h) /\ task'[h].pc = "idle" /\ \A k \in Admin : Read(k)'
<1>1. task' \in [Admin -> [pc : Phases, op : Ops \cup {None}, create : BOOLEAN, snap : Snap,
                             old : Gen, new : Gen]]
  BY TaskTyped DEF RoutingTyped, Phases, NoTask
<1>2. Alone(h) /\ task'[h] = NoTask  BY OneMoves
<1>3. task'[h].pc = "idle"  BY <1>2 DEF NoTask, Task
<1>4. \A k \in Admin : Read(k)'  BY <1>2, <1>3 DEF Read, Alone, Swaps
<1> QED  BY <1>1, <1>2, <1>3, <1>4

\* The policies are swapped, the last of the three.
LEMMA ReplacePoliciesInv ==
    ASSUME Inv, NEW h \in Admin, ReplacePolicies(h)
    PROVE  Inv'
<1>1. /\ RoutingTyped /\ (\A k \in Admin : Read(k)) /\ task[h].pc = "policies"
      /\ task' = [task EXCEPT ![h] = NoTask] /\ live' = [live EXCEPT !.pols = task[h].snap.pols]
      /\ UNCHANGED <<db, checker, writes, calm, req>>
  BY DEF ReplacePolicies, Inv
<1>2. /\ task' \in [Admin -> [pc : Phases, op : Ops \cup {None}, create : BOOLEAN, snap : Snap,
                                old : Gen, new : Gen]]
      /\ Alone(h) /\ task'[h].pc = "idle" /\ \A k \in Admin : Read(k)'
  BY <1>1, Ended
<1>3. task[h].snap.pols \in [Policy -> PolicyRows \cup {None}]  BY <1>1 DEF Read, Swaps
<1>4. /\ RoutingTyped' /\ live'.gen = live.gen /\ live'.pols = task[h].snap.pols
      /\ live'.routes = live.routes /\ live'.schs = live.schs
  BY <1>1, <1>2, <1>3 DEF RoutingTyped
<1>5. Reloading(h)  BY <1>1 DEF Reloading
<1>6. Accurate(h)'  BY <1>2 DEF Accurate, Swaps
<1>7. calm /\ Accurate(h) => SettledLive'  BY <1>1, <1>4 DEF Accurate, Swaps, SettledLive
<1>8. Undisturbed'  BY <1>1, <1>2, <1>5, <1>6, <1>7, UndisturbedStep DEF Inv
<1>9. Numbered'  BY <1>1, <1>2, <1>4, NumberedSame DEF Inv, Early, Listings
<1>10. Generations'  BY <1>1, <1>2, <1>4, GenerationsSame DEF Inv, Late
<1> QED  BY <1>1, <1>2, <1>4, <1>8, <1>9, <1>10, RefsSame, RequestSame DEF Inv
\* A compiled table is a table.
LEMMA CompileTyped ==
    ASSUME NEW ups, NEW routes \in [Route -> RouteRow]
    PROVE  Compile(ups, routes) \in [Route -> RouteRow]
BY DEF Compile, RouteRow

(* There is always a generation left for a handler that has not swapped.    *)
LEMMA NextGeneration ==
    ASSUME RoutingTyped, Numbered, NEW h \in Admin, task[h].pc = "table", Alone(h), task'[h].pc = "stopOld",
           writes' = writes, live'.gen = live.gen + 1
    PROVE  live'.gen \in Gen /\ Numbered'
<1>1. Pending' = Pending \ {h} /\ h \in Pending /\ IsFiniteSet(Pending)
  BY FS_Subset, RoutingAssumption DEF Pending, Alone, Listings
<1>2. Cardinality(Pending') = Cardinality(Pending) - 1 /\ Cardinality(Pending) \in Nat
      /\ Cardinality(Pending') \in Nat
  BY <1>1, FS_RemoveElement, FS_CardinalityType
<1> QED  BY <1>2, RoutingAssumption DEF Numbered, RoutingTyped, Gen

\* The route table is swapped; the checkers of the old one are to be stopped, those
\* of the new one to be started, by this handler.
LEMMA ReplaceTableInv ==
    ASSUME Inv, NEW h \in Admin, ReplaceTable(h)
    PROVE  Inv'
<1> DEFINE s == task[h].snap
           g == live.gen + 1
           t == [task[h] EXCEPT !.pc = "stopOld", !.old = live.gen, !.new = g]
<1>1. /\ RoutingTyped /\ (\A k \in Admin : Read(k)) /\ task[h].pc = "table"
      /\ UNCHANGED <<db, checker, writes, req>>
  BY DEF ReplaceTable, Inv
<1>2. CASE /\ live' = [live EXCEPT !.routes = Compile(s.ups, s.routes), !.gen = g]
           /\ task' = [task EXCEPT ![h] = t] /\ UNCHANGED calm
  <2>1. Compile(s.ups, s.routes) \in [Route -> RouteRow]
    BY <1>1, CompileTyped DEF Read, Swaps
  <2>2. /\ live'.gen = g /\ live'.routes = Compile(s.ups, s.routes)
        /\ live'.pols = live.pols /\ live'.schs = live.schs
    BY <1>1, <1>2 DEF RoutingTyped
  <2>3. t.pc = "stopOld" /\ t.old = live.gen /\ t.new = g /\ t.snap = task[h].snap
    BY <1>1 DEF RoutingTyped
  <2>4. Alone(h) /\ task'[h] = t  BY <1>1, <1>2, OneMoves
  <2>5. g \in Gen /\ Numbered' /\ live.gen \in Nat
    <3>1. task'[h].pc = "stopOld"  BY <2>3, <2>4
    <3> HIDE DEF t
    <3> QED  BY <1>1, <2>2, <2>4, <3>1, NextGeneration DEF Inv, RoutingTyped, Gen
  <2>6. t \in [pc : Phases, op : Ops \cup {None}, create : BOOLEAN, snap : Snap, old : Gen, new : Gen]
    BY <1>1, <2>5 DEF RoutingTyped, Phases
  <2> HIDE DEF t
  <2>7. RoutingTyped'
    BY <1>1, <1>2, <2>1, <2>5, <2>6 DEF RoutingTyped
  <2>8. \A k \in Admin : Read(k)'  BY <1>1, <2>3, <2>4 DEF Read, Alone, Swaps
  <2>9. Reloading(h) /\ Reloading(h)'  BY <1>1, <2>3, <2>4 DEF Reloading
  <2>10. Accurate(h) => Accurate(h)'  BY <1>1, <2>2, <2>3, <2>4 DEF Accurate, Swaps
  <2>11. Undisturbed'  BY <1>1, <1>2, <2>4, <2>9, <2>10, UndisturbedStep DEF Inv
  <2>12. ASSUME NEW j \in Gen PROVE Generation(j)'
    <3>1. Generation(j) /\ j \in Nat  BY DEF Inv, Generations, Gen
    <3>2. Stopping(j) => Stopping(j)'  BY <1>1, <2>4 DEF Stopping, Alone
    <3>3. j = live.gen => Stopping(j)'  BY <2>3, <2>4 DEF Stopping
    <3>4. j = g => Starting(j)'  BY <2>3, <2>4 DEF Starting
    <3> QED  BY <1>1, <2>2, <2>5, <3>1, <3>2, <3>3, <3>4 DEF Generation
  <2>13. ASSUME NEW k \in Admin PROVE Swapped(k)'
    <3>1. CASE k = h  BY <2>2, <2>3, <2>4, <2>5, <3>1 DEF Swapped
    <3>2. CASE k # h
      <4>1. task[k].old \in Nat /\ task[k].new \in Nat  BY <1>1 DEF RoutingTyped, Gen
      <4> QED  BY <2>2, <2>4, <2>5, <3>2, <4>1 DEF Inv, Generations, Swapped, Alone
    <3> QED  BY <3>1, <3>2
  <2> QED  BY <1>1, <2>5, <2>7, <2>8, <2>11, <2>12, <2>13, RefsSame, RequestSame DEF Inv, Generations
<1>3. CASE task' = [task EXCEPT ![h] = NoTask] /\ calm' = FALSE /\ UNCHANGED live
  <2>1. /\ task' \in [Admin -> [pc : Phases, op : Ops \cup {None}, create : BOOLEAN, snap : Snap,
                                  old : Gen, new : Gen]]
        /\ Alone(h) /\ task'[h].pc = "idle" /\ \A k \in Admin : Read(k)'
    BY <1>1, <1>3, Ended
  <2>2. RoutingTyped'  BY <1>1, <1>3, <2>1 DEF RoutingTyped
  <2>3. Undisturbed'  BY <1>3 DEF Undisturbed
  <2>4. Numbered'  BY <1>1, <1>3, <2>1, NumberedSame DEF Inv, Early, Listings
  <2>5. Generations'  BY <1>1, <1>3, <2>1, GenerationsSame DEF Inv, Late
  <2> QED  BY <1>1, <2>1, <2>2, <2>3, <2>4, <2>5, RefsSame, RequestSame DEF Inv
<1> QED  BY <1>2, <1>3 DEF ReplaceTable

(* Stopping the old checkers and starting the new ones change no copy.      *)
LEMMA CheckersOnward ==
    ASSUME Inv, NEW h \in Admin, NEW pc \in {"startNew", "policies"}, task[h].pc \in Late,
           task' = [task EXCEPT ![h].pc = pc], UNCHANGED <<db, live, writes, calm, req>>,
           checker' \in [Gen -> [running : BOOLEAN, stopped : BOOLEAN]], Generations'
    PROVE  Inv'
<1>1. RoutingTyped /\ \A k \in Admin : Read(k)  BY DEF Inv
<1>2. /\ task' \in [Admin -> [pc : Phases, op : Ops \cup {None}, create : BOOLEAN, snap : Snap,
                                old : Gen, new : Gen]]
      /\ Alone(h) /\ task'[h].pc = pc /\ task'[h].snap = task[h].snap
  BY <1>1, Onward DEF Phases
<1>3. RoutingTyped'  BY <1>1, <1>2 DEF RoutingTyped
<1>4. \A k \in Admin : Read(k)'  BY <1>1, <1>2 DEF Read, Alone, Swaps, Late
<1>5. Reloading(h) /\ Reloading(h)'  BY <1>2 DEF Reloading, Late
<1>6. Accurate(h) => Accurate(h)'  BY <1>2 DEF Accurate, Swaps, Late
<1>7. Undisturbed'  BY <1>1, <1>2, <1>5, <1>6, UndisturbedStep DEF Inv
<1>8. Numbered'  BY <1>1, <1>2, NumberedSame DEF Inv, Early, Listings
<1> QED  BY <1>1, <1>3, <1>4, <1>7, <1>8, RefsSame, RequestSame DEF Inv

\* The checkers of the table that was replaced are told to stop.
LEMMA StopOldInv ==
    ASSUME Inv, NEW h \in Admin, StopOld(h)
    PROVE  Inv'
<1>1. /\ RoutingTyped /\ Generations /\ task[h].pc = "stopOld"
      /\ checker' = [checker EXCEPT ![task[h].old].stopped = TRUE]
      /\ task' = [task EXCEPT ![h].pc = "startNew"] /\ UNCHANGED <<db, live, writes, calm, req>>
  BY DEF StopOld, Inv
<1>2. /\ Alone(h) /\ task'[h].pc = "startNew" /\ task'[h].old = task[h].old /\ task'[h].new = task[h].new
  BY <1>1, Onward DEF Phases
<1>3. checker' \in [Gen -> [running : BOOLEAN, stopped : BOOLEAN]] /\ task[h].old \in Gen
  BY <1>1 DEF RoutingTyped
<1>4. /\ checker'[task[h].old].stopped
      /\ \A g \in Gen : checker'[g].running = checker[g].running
      /\ \A g \in Gen \ {task[h].old} : checker'[g].stopped = checker[g].stopped
  BY <1>1, <1>3 DEF RoutingTyped
<1>5. task[h].old < live.gen /\ live.gen \in Nat  BY <1>1 DEF Generations, Swapped, RoutingTyped, Gen
<1>6. ASSUME NEW g \in Gen PROVE Generation(g)'
  <2>1. Generation(g)  BY <1>1 DEF Generations
  <2>2. Stopping(g) => Stopping(g)' \/ g = task[h].old  BY <1>2 DEF Stopping, Alone
  <2>3. Starting(g) => Starting(g)'  BY <1>2 DEF Starting, Alone
  <2>4. CASE g = task[h].old  BY <1>1, <1>3, <1>4, <1>5, <2>4 DEF Generation, Gen
  <2>5. CASE g # task[h].old  BY <1>1, <1>4, <2>1, <2>2, <2>3, <2>5 DEF Generation
  <2> QED  BY <2>4, <2>5
<1>7. \A k \in Admin : Swapped(k)'  BY <1>1, <1>2 DEF Generations, Swapped, Alone
<1> QED  BY <1>1, <1>3, <1>6, <1>7, CheckersOnward DEF Generations, Late

\* The checkers of the new table are started.
LEMMA StartNewInv ==
    ASSUME Inv, NEW h \in Admin, StartNew(h)
    PROVE  Inv'
<1>1. /\ RoutingTyped /\ Generations /\ task[h].pc = "startNew"
      /\ checker' = [checker EXCEPT ![task[h].new].running = TRUE]
      /\ task' = [task EXCEPT ![h].pc = "policies"] /\ UNCHANGED <<db, live, writes, calm, req>>
  BY DEF StartNew, Inv
<1>2. Alone(h) /\ task'[h].pc = "policies"
  BY <1>1, Onward DEF Phases
<1>3. checker' \in [Gen -> [running : BOOLEAN, stopped : BOOLEAN]] /\ task[h].new \in Gen
  BY <1>1 DEF RoutingTyped
<1>4. /\ checker'[task[h].new].running
      /\ \A g \in Gen : checker'[g].stopped = checker[g].stopped
      /\ \A g \in Gen \ {task[h].new} : checker'[g].running = checker[g].running
  BY <1>1, <1>3 DEF RoutingTyped
<1>5. task[h].new <= live.gen /\ live.gen \in Nat  BY <1>1 DEF Generations, Swapped, RoutingTyped, Gen
<1>6. ASSUME NEW g \in Gen PROVE Generation(g)'
  <2>1. Generation(g)  BY <1>1 DEF Generations
  <2>2. Stopping(g) => Stopping(g)'  BY <1>1, <1>2 DEF Stopping, Alone
  <2>3. Starting(g) => Starting(g)' \/ g = task[h].new  BY <1>2 DEF Starting, Alone
  <2>4. CASE g = task[h].new  BY <1>1, <1>3, <1>4, <1>5, <2>1, <2>2, <2>4 DEF Generation, Gen
  <2>5. CASE g # task[h].new  BY <1>1, <1>4, <2>1, <2>2, <2>3, <2>5 DEF Generation
  <2> QED  BY <2>4, <2>5
<1>7. \A k \in Admin : Swapped(k)'  BY <1>1, <1>2 DEF Generations, Swapped, Alone
<1> QED  BY <1>1, <1>3, <1>6, <1>7, CheckersOnward DEF Generations, Late
(* Steps of no handler.                                                     *)
LEMMA OthersInv ==
    ASSUME Inv, UNCHANGED <<db, live, task, writes, calm>>, RoutingTyped', Generations', Allowed'
    PROVE  Inv'
<1>1. (\A h \in Admin : Read(h)) /\ Undisturbed /\ Numbered  BY DEF Inv
<1>2. \A h \in Admin : Read(h)'  BY <1>1 DEF Read
<1>3. Undisturbed'
  BY <1>1 DEF Undisturbed, Accurate, SettledLive, Reloading, NoReload
<1>4. Numbered'  BY <1>1 DEF Numbered, Pending
<1> QED  BY <1>2, <1>3, <1>4, RefsSame DEF Inv

\* A checker that was told to stop ends.
LEMMA LoopEndsInv ==
    ASSUME Inv, NEW g \in Gen, LoopEnds(g)
    PROVE  Inv'
<1>1. /\ RoutingTyped /\ Generations /\ checker[g].running /\ checker[g].stopped
      /\ checker' = [checker EXCEPT ![g].running = FALSE]
      /\ UNCHANGED <<db, live, task, writes, calm, req>>
  BY DEF LoopEnds, Inv
<1>2. checker' \in [Gen -> [running : BOOLEAN, stopped : BOOLEAN]]  BY <1>1 DEF RoutingTyped
<1>3. /\ ~checker'[g].running
      /\ \A j \in Gen : checker'[j].stopped = checker[j].stopped
      /\ \A j \in Gen \ {g} : checker'[j].running = checker[j].running
  BY <1>1, <1>2 DEF RoutingTyped
<1>4. RoutingTyped'  BY <1>1, <1>2 DEF RoutingTyped
<1>5. ASSUME NEW j \in Gen PROVE Generation(j)'
  <2>1. Generation(j) /\ (Stopping(j) <=> Stopping(j)') /\ (Starting(j) <=> Starting(j)')
    BY <1>1 DEF Generations, Stopping, Starting
  <2>2. CASE j = g  BY <1>1, <1>3, <2>1, <2>2 DEF Generation
  <2>3. CASE j # g  BY <1>1, <1>3, <2>1, <2>3 DEF Generation
  <2> QED  BY <2>2, <2>3
<1>6. \A k \in Admin : Swapped(k)'  BY <1>1 DEF Generations, Swapped
<1> QED  BY <1>1, <1>4, <1>5, <1>6, RequestSame, OthersInv DEF Inv, Generations

(* What lets a request in: the manager knows the policy, and the client's
   cookie or the rules do it.                                               *)
LEMMA CheckSound ==
    ASSUME RoutingTyped, NEW p \in Policy, Check(p)
    PROVE  /\ live.pols[p] # None
           /\ p \in req.cookies \/ live.pols[p].rules = {} \/ "pass" \in live.pols[p].rules
<1>1. p # None  BY RoutingAssumption
<1>2. live.pols[p] # None  BY <1>1 DEF Check
<1>3. live.pols[p] \in PolicyRow  BY <1>2, RoutingAssumption DEF RoutingTyped
<1>4. live.pols[p].rules \subseteq {"auth", "pass", "fail"}  BY <1>3 DEF PolicyRow
<1>5. CASE p \in req.cookies  BY <1>2, <1>5
<1>6. CASE checkAny(live.pols[p])  BY <1>2, <1>6 DEF checkAny
<1>7. CASE checkAll(live.pols[p])  BY <1>2, <1>4, <1>7 DEF checkAll
<1> QED  BY <1>1, <1>5, <1>6, <1>7 DEF Check

\* A request asks for its policy, its schema and its proxy.
LEMMA RequestInv ==
    ASSUME Inv, NEW r \in Route, Request(r)
    PROVE  Inv'
<1> DEFINE Req == [pc : {"new", "policy", "access", "schema", "openapi", "served", "denied"},
                   cookies : SUBSET Policy, pol : Policy \cup {None}, sch : Schema \cup {None},
                   loaded : PolicyRows \cup {None}]
<1>1. RoutingTyped /\ req \in Req /\ UNCHANGED <<db, live, checker, task, writes, calm>>
  BY DEF Inv, RoutingTyped, Request, LookupPolicy, CheckAccess, handleAccessPOST, LookupSchema,
         CheckOpenAPI, ServeHTTP
<1>2. live.routes[r] # None =>
        live.routes[r].pol \in Policy \cup {None} /\ live.routes[r].sch \in Schema \cup {None}
  BY <1>1 DEF RoutingTyped, RouteRow
<1>3. req' \in Req /\ Allowed'
  <2>1. CASE LookupPolicy(r)  BY <1>1, <1>2, <2>1 DEF LookupPolicy, Allowed
  <2>2. CASE handleAccessPOST(r)
    BY <1>1, <1>2, <2>2 DEF handleAccessPOST, VerifyForm, Allowed
  <2>3. CASE LookupSchema(r)  BY <1>1, <1>2, <2>3 DEF Inv, LookupSchema, Allowed
  <2>4. CASE CheckOpenAPI  BY <1>1, <2>4 DEF Inv, CheckOpenAPI, Allowed
  <2>5. CASE ServeHTTP(r)  BY <1>1, <2>5 DEF Inv, ServeHTTP, Allowed
  <2>6. CASE CheckAccess
    <3> DEFINE seen == IF req.pol = None THEN None ELSE live.pols[req.pol]
               next == IF Check(req.pol) THEN "access" ELSE "denied"
    <3>1. seen \in PolicyRows \cup {None}  BY <1>1 DEF RoutingTyped
    <3>2. next \in {"access", "denied"} /\ (next = "access" => Check(req.pol))  OBVIOUS
    <3>3. req' = [req EXCEPT !.pc = next, !.loaded = seen]  BY <2>6 DEF CheckAccess
    <3>4. Check(req.pol) /\ req.pol # None =>
            seen # None /\ (req.pol \in req.cookies \/ seen.rules = {} \/ "pass" \in seen.rules)
      BY <1>1, CheckSound
    <3> HIDE DEF seen, next
    <3>5. /\ req' \in Req /\ req'.pc = next /\ req'.loaded = seen
          /\ req'.pol = req.pol /\ req'.cookies = req.cookies
      BY <1>1, <3>1, <3>2, <3>3
    <3> QED  BY <3>2, <3>4, <3>5 DEF Allowed
  <2> QED  BY <2>1, <2>2, <2>3, <2>4, <2>5, <2>6 DEF Request
<1>4. RoutingTyped'  BY <1>1, <1>3 DEF RoutingTyped
<1>5. Generations'
  BY <1>1 DEF Inv, Generations, Generation, Stopping, Starting, Swapped
<1> QED  BY <1>1, <1>3, <1>4, <1>5, OthersInv

-----------------------------------------------------------------------------
(* All steps together                                                       *)

\* Every step preserves the invariant.
LEMMA NextInv == Inv /\ [RoutingNext]_routingVars => Inv'
<1> SUFFICES ASSUME Inv, [RoutingNext]_routingVars PROVE Inv'  OBVIOUS
<1>1. CASE UNCHANGED routingVars
  <2> USE <1>1 DEF routingVars
  <2>1. RoutingTyped'  BY DEF Inv, RoutingTyped
  <2>2. Generations'  BY DEF Inv, Generations, Generation, Stopping, Starting, Swapped
  <2> QED  BY <2>1, <2>2, RequestSame, OthersInv DEF Inv
<1>2. CASE RoutingNext
  BY <1>2, HandleInv, ExecInv, ListsInv, ReplaceSchemasInv, ReplaceTableInv, StopOldInv, StartNewInv,
     ReplacePoliciesInv, LoopEndsInv, RequestInv DEF RoutingNext, HandlerStep
<1> QED  BY <1>1, <1>2

(* The inductive invariant of reloadRouting: references, listings, swaps and
   generations of checkers, however the handlers interleave.                *)
THEOREM Invariance == RoutingSpec => []Inv
BY InitInv, NextInv, PTL DEF RoutingSpec

(* Rows, live copies, checkers and tasks keep their types; in particular the
   generations of the route table never outnumber the admin writes.         *)
THEOREM TypeCorrect == RoutingSpec => []RoutingTyped
<1>1. Inv => RoutingTyped  BY DEF Inv
<1> QED  BY <1>1, Invariance, PTL

(* The foreign keys keep every reference of a route, whatever two
   administrators write between the Store methods' tests and statements.    *)
THEOREM RefsStayIntact == RoutingSpec => []RefsIntact
<1>1. Inv => RefsIntact  BY DEF Inv
<1> QED  BY <1>1, Invariance, PTL

(* A reload that no other one overlapped, and that did not fail, leaves the
   proxy with exactly what the store holds.                                 *)
THEOREM SettledIsLive == RoutingSpec => []SettledLive
<1>1. Inv => SettledLive  BY DEF Inv, Undisturbed, SettledLive
<1> QED  BY <1>1, Invariance, PTL

(* When no Replace is under way exactly the checkers of the live table run
   unstopped, for any number of overlapping Replaces before.                *)
THEOREM CheckersAreLive == RoutingSpec => []CheckersLive
<1>1. Inv => CheckersLive
  <2> SUFFICES ASSUME Inv, \A h \in Admin : task[h].pc \notin {"stopOld", "startNew"}, NEW g \in Gen
               PROVE  checker[g].running /\ ~checker[g].stopped <=> g = live.gen
    BY DEF CheckersLive
  <2>1. ~Stopping(g) /\ ~Starting(g)  BY DEF Stopping, Starting
  <2>2. g \in Nat /\ live.gen \in Nat  BY DEF Inv, RoutingTyped, Gen
  <2> QED  BY <2>1, <2>2 DEF Inv, Generations, Generation
<1> QED  BY <1>1, Invariance, PTL

(* A request behind a policy is served only by a policy the manager had
   loaded, and for a cookie or a rule of it.                                *)
THEOREM AccessFailsClosed == RoutingSpec => []FailClosed
<1>1. Inv => FailClosed  BY DEF Inv, Allowed, FailClosed
<1> QED  BY <1>1, Invariance, PTL

-----------------------------------------------------------------------------
(* Lists: the inductive invariant                                           *)
EntryOp == [op : {"add", "remove"}, k : Kinds, v : Line]

Plans == Seq(EntryOp)
Reads == Seq(SUBSET Line)
Starts == {<<>>} \cup [Kinds -> SUBSET Line]

ListAct == [pc : {"idle", "op", "read", "source", "write"}, todo : Plans, got : Reads, kept : SUBSET Line,
            at : Nat, changed : BOOLEAN, req : Plans, before : Starts, alone : BOOLEAN]

FilesTyped == overlay \in [Kinds -> SUBSET Line] /\ source \in [Kinds -> [File -> SUBSET Line]]

(* What lists hold: lines that are read.                                    *)
Parsed == {f \in [Kinds -> SUBSET Line] : \A k \in Kinds : f[k] \cap Skipped(k) = {}}

(* A request that edits has something to do.                                *)
Busy(r) ==
    /\ r.pc \in {"op", "source", "write"} => Len(r.todo) > 0
    /\ r.pc = "write" /\ r.at # 0 => r.at \in File

ActsTyped == acts \in [Actor -> ListAct] /\ \A a \in Actor : Busy(acts[a])

(* A request q is a reload, one operation, or an edit of three, and what is
   left of it is its end.                                                   *)
Rest(s, q) ==
    /\ Len(q) = 0 \/ Len(q) = 1 \/ Len(q) = 3
    /\ Len(s) <= Len(q) /\ \A i \in 1..Len(s) : s[i] = q[Len(q) - Len(s) + i]

Planned(r) ==
    /\ Rest(r.todo, r.req)
    /\ IF Len(r.req) = 0 THEN r.pc = "read" ELSE Len(r.todo) > 0
    /\ Len(r.req) = 3 =>
         /\ r.req[1].op = "remove" /\ r.req[2].op = "add" /\ r.req[3].op = "add"
         /\ r.req[2].k = r.req[1].k /\ r.req[3].k = r.req[1].k /\ r.req[3].v = r.req[1].v
    /\ r.pc \in {"source", "write"} => r.todo[1].op = "remove"
    /\ r.pc = "op" => ~r.changed

(* The live lists are those of the files whenever an operation begins, and a
   load has read what the files hold.                                       *)
Fresh(r) ==
    /\ r.pc = "op" => lists = Content
    /\ r.pc = "read" => Len(r.got) <= Len(Kind) /\ \A i \in 1..Len(r.got) : r.got[i] = loadFiles(Kind[i])

(* The lines that are in memory only, their file having been emptied.       *)
Held(r, k) == IF r.pc = "write" /\ r.todo[1].k = k THEN {Norm(k, l) : l \in r.kept \ Skipped(k)} ELSE {}

Emptied(r) ==
    r.pc = "write" => (IF r.at = 0 THEN overlay[r.todo[1].k] ELSE source[r.todo[1].k][r.at]) = {}

(* The line a request takes out.                                            *)
Named(r, k) ==
    IF Len(r.req) > 0 /\ r.req[1].op = "remove" /\ r.req[1].k = k THEN {Form(k, r.req[1].v)} ELSE {}

Lossless(r) == \A k \in Kinds : r.before[k] \ Named(r, k) \subseteq Content[k] \cup Held(r, k)

(* The form of an operation's line, and whether its list has it.            *)
Has(o) == Form(o.k, o.v) \in Content[o.k]

(* An edit has its old line until it takes it out, and a line it has added
   unless that is one that is not read.                                     *)
Edited(r) ==
    /\ Len(r.todo) = 3 /\ (r.pc = "op" \/ (r.pc = "source" /\ ~r.changed))
         /\ Form(r.todo[1].k, r.todo[1].v) \in r.before[r.todo[1].k] => Has(r.todo[1])
    /\ r.pc = "read" /\ Len(r.todo) > 0 /\ r.todo[1].op = "add" =>
         Has(r.todo[1]) \/ Typed(r.todo[1].k, r.todo[1].v) \in Skipped(r.todo[1].k)
    /\ r.pc = "read" /\ Len(r.todo) > 0 /\ r.todo[1].op = "add" => r.todo[1].v \notin Bad[r.todo[1].k]

(* A request that runs alone.                                               *)
Solo(a) ==
    acts[a].alone =>
      /\ acts[a].pc # "idle" /\ Readable
      /\ acts[a].before \in Parsed
      /\ Planned(acts[a]) /\ Fresh(acts[a]) /\ Emptied(acts[a]) /\ Lossless(acts[a]) /\ Edited(acts[a])

KeepInv == FilesTyped /\ ActsTyped /\ faults \in Nat /\ \A a \in Actor : Solo(a)

(* What RequestKeeps says of a request.                                     *)
Outcome(a) ==
    acts[a].alone /\ acts'[a] = Idle /\ ~UndoFails(a) =>
      \A k \in Kinds :
        /\ acts[a].before[k] \ Names(a, k) \subseteq Content'[k]
        /\ Len(acts[a].req) > 1 /\ acts[a].req[1].k = k /\ Names(a, k) \subseteq acts[a].before[k]
             /\ ~Unread(a, k) =>
             {Form(k, acts[a].req[i].v) : i \in DOMAIN acts[a].req} \cap Content'[k] # {}

(* An edit of a line that was listed, to one that is read or refused, is to
   leave the list with one of the two.                                      *)
Edits(a) ==
    /\ Len(acts[a].req) = 3 /\ ~UndoFails(a) /\ ~Unread(a, acts[a].req[1].k)
    /\ Form(acts[a].req[1].k, acts[a].req[1].v) \in acts[a].before[acts[a].req[1].k]

Saved(a) ==
    \E i \in DOMAIN acts[a].req : Form(acts[a].req[1].k, acts[a].req[i].v) \in Content'[acts[a].req[1].k]

-----------------------------------------------------------------------------
(* Lists: lines, files and records                                          *)

(* The lists of the code, and the lines.                                    *)
LEMMA ListConstants ==
    /\ Kind \in Seq({"ip", "dns", "ua"}) /\ Len(Kind) \in Nat /\ DOMAIN Kind = 1..Len(Kind)
    /\ \A i \in 1..Len(Kind) : Kind[i] \in Kinds
    /\ \A k \in Kinds : \E i \in 1..Len(Kind) : Kind[i] = k
    /\ First \subseteq Line /\ NoActor \notin Actor /\ Worker \subseteq Actor /\ Ticker \in Actor
<1>1. Kind \in Seq({"ip", "dns", "ua"}) /\ Len(Kind) \in Nat /\ DOMAIN Kind = 1..Len(Kind)
  BY ListsAssumption
<1> QED BY ListsAssumption, <1>1 DEF Kinds, Actor

(* The forms of lines and values: a line that is read is listed in a form that
   is read as itself.                                                       *)
LEMMA LineForms ==
    ASSUME NEW k \in Kinds, NEW l \in Line
    PROVE  /\ Norm(k, l) \in Line /\ Typed(k, l) \in Line /\ Form(k, l) \in Line
           /\ l \notin Skipped(k) => Norm(k, l) \notin Skipped(k) /\ Norm(k, Norm(k, l)) = Norm(k, l)
           /\ l \in Skipped(k) => Norm(k, l) \in Skipped(k)
           /\ l \in Bad[k] => Typed(k, l) \in Skipped(k)
           /\ Typed(k, l) \in Skipped(k) => Form(k, l) \in Skipped(k)
           /\ k = "ip" => Typed(k, l) = l
<1>1. /\ Norm(k, l) \in Line /\ Typed(k, l) \in Line
      /\ l \notin Skipped(k) => Norm(k, l) \notin Skipped(k) /\ Norm(k, Norm(k, l)) = Norm(k, l)
      /\ l \in Bad[k] => Typed(k, l) \in Skipped(k)
      /\ k = "ip" => Typed(k, l) = l
  BY ListsAssumption DEF Norm, Typed
<1>2. \A m \in Skipped(k) : Norm(k, m) \in Skipped(k)
  BY ListsAssumption DEF Norm
<1>3. Form(k, l) \in Line
  BY <1>1, ListsAssumption DEF Form, Norm
<1> QED BY <1>1, <1>2, <1>3 DEF Form

(* The lines of a list's files, now and next.                               *)
LEMMA LinesOf ==
    ASSUME NEW k \in Kinds
    PROVE  /\ \A l : l \in Lines(k) <=> l \in overlay[k] \/ \E j \in File : l \in source[k][j]
           /\ \A l : l \in Lines(k)' <=> l \in overlay'[k] \/ \E j \in File : l \in source'[k][j]
           /\ FilesTyped => Lines(k) \subseteq Line
<1>1. \A l : l \in Lines(k) <=> l \in overlay[k] \/ \E j \in File : l \in source[k][j]
  BY DEF Lines
<1>2. \A l : l \in Lines(k)' <=> l \in overlay'[k] \/ \E j \in File : l \in source'[k][j]
  BY DEF Lines, File
<1>3. ASSUME FilesTyped, NEW l \in Lines(k)
      PROVE  l \in Line
  BY <1>1, <1>3 DEF FilesTyped
<1> QED BY <1>1, <1>2, <1>3

(* What a file's content is made of.                                        *)
LEMMA ContentOf ==
    ASSUME NEW k \in Kinds
    PROVE  /\ Content[k] = loadFiles(k)
           /\ \A l \in Lines(k) : l \notin Skipped(k) => Norm(k, l) \in Content[k]
           /\ \A x \in Content[k] : \E l \in Lines(k) : l \notin Skipped(k) /\ x = Norm(k, l)
  BY DEF Content, loadFiles

(* The same of the next state.                                              *)
LEMMA ContentNext ==
    ASSUME NEW k \in Kinds
    PROVE  /\ Content'[k] = loadFiles(k)'
           /\ \A l \in Lines(k)' : l \notin Skipped(k) => Norm(k, l) \in Content'[k]
           /\ \A x \in Content'[k] : \E l \in Lines(k)' : l \notin Skipped(k) /\ x = Norm(k, l)
<1>1. Content'[k] = loadFiles(k)'
  BY DEF Content
<1>2. loadFiles(k)' = {Norm(k, l) : l \in Lines(k)' \ Skipped(k)}
  BY DEF loadFiles, Norm, Skipped
<1> QED BY <1>1, <1>2

(* Lines of a file are lines, and what is listed parses.                    *)
LEMMA ContentTyped ==
    ASSUME FilesTyped
    PROVE  Content \in Parsed
<1>1. ASSUME NEW k \in Kinds, NEW x \in Content[k]
      PROVE  x \in Line /\ x \notin Skipped(k)
  BY <1>1, ContentOf, LinesOf, LineForms
<1>2. Content = [k \in Kinds |-> Content[k]]
  BY DEF Content
<1> QED BY <1>1, <1>2 DEF Parsed

(* The files stay, and so does what they hold.                              *)
LEMMA ContentSame ==
    ASSUME overlay' = overlay, source' = source
    PROVE  /\ Content' = Content /\ \A k : loadFiles(k)' = loadFiles(k)
           /\ \A o : Has(o)' <=> Has(o)
<1>1. Content' = Content /\ \A k : loadFiles(k)' = loadFiles(k)
  BY DEF Content, loadFiles, Lines
<1> QED BY <1>1 DEF Has, Form, Norm, Typed

(* What a request names does not depend on the state.                       *)
LEMMA NamedSame ==
    ASSUME NEW r, NEW k
    PROVE  Named(r, k)' = Named(r, k) /\ Held(r, k)' = Held(r, k)
  BY DEF Named, Held, Form, Typed, Norm, Skipped

(* Nobody is in a request at the start.                                     *)
LEMMA IdleTyped ==
    Idle \in ListAct /\ Busy(Idle) /\ Idle.pc = "idle" /\ ~Idle.alone
<1>1. <<>> \in Plans /\ <<>> \in Reads /\ <<>> \in Starts /\ {} \in SUBSET Line
  BY DEF Plans, Reads, Starts
<1> QED BY <1>1 DEF Idle, ListAct, Busy

(* One actor moves; the others are not alone any more.                      *)
LEMMA ActsMove ==
    ASSUME ActsTyped, NEW a, NEW r \in ListAct, Busy(r), Set(a, r)
    PROVE  /\ ActsTyped' /\ (a \in Actor => acts'[a] = r)
           /\ \A b \in Actor \ {a} : ~acts'[b].alone /\ acts'[b].pc = acts[b].pc
<1>1. ASSUME NEW b \in Actor
      PROVE  /\ Watched(acts[b]) \in ListAct /\ Busy(Watched(acts[b]))
             /\ ~Watched(acts[b]).alone /\ Watched(acts[b]).pc = acts[b].pc
  <2>1. acts[b] \in ListAct /\ Busy(acts[b])
    BY DEF ActsTyped
  <2>2. CASE ~acts[b].alone
    BY <2>1, <2>2 DEF Watched
  <2>3. CASE acts[b].alone
    <3> DEFINE s == [acts[b] EXCEPT !.alone = FALSE, !.req = <<>>, !.before = <<>>]
    <3>1. s \in ListAct /\ s.pc = acts[b].pc /\ s.todo = acts[b].todo /\ s.alone = FALSE
         /\ s.at = acts[b].at
      <4>1. <<>> \in Plans /\ <<>> \in Starts
        BY DEF Plans, Starts
      <4> QED BY <2>1, <4>1 DEF ListAct
    <3>2. Watched(acts[b]) = s
      BY <2>3 DEF Watched
    <3> HIDE DEF s
    <3> QED BY <2>1, <3>1, <3>2 DEF Busy
  <2> QED BY <2>2, <2>3
<1>2. acts' = [b \in Actor |-> IF b = a THEN r ELSE Watched(acts[b])]
  BY DEF Set
<1> QED BY <1>1, <1>2 DEF ActsTyped

(* So it is enough to look at the one that moves.                           *)
LEMMA OneSteps ==
    ASSUME KeepInv, NEW a \in Actor, NEW r \in ListAct, Busy(r), Set(a, r), FilesTyped', faults' \in Nat,
           Solo(a)', Outcome(a)
    PROVE  KeepInv' /\ \A b \in Actor : Outcome(b)
<1>1. ActsTyped' /\ \A b \in Actor \ {a} : ~acts'[b].alone /\ acts'[b].pc = acts[b].pc
  BY ActsMove DEF KeepInv
<1>2. ASSUME NEW b \in Actor \ {a}
      PROVE  Solo(b)' /\ Outcome(b)
  <2>1. acts[b].alone => acts[b].pc # "idle"
    BY DEF KeepInv, Solo
  <2> QED BY <1>1, <2>1, IdleTyped DEF Solo, Outcome
<1> QED BY <1>1, <1>2 DEF KeepInv

(* The parts of a record.                                                   *)
LEMMA ActFields ==
    ASSUME NEW r \in ListAct
    PROVE  /\ r.todo \in Seq(EntryOp) /\ Len(r.todo) \in Nat /\ r.req \in Seq(EntryOp) /\ Len(r.req) \in Nat
           /\ DOMAIN r.req = 1..Len(r.req)
           /\ \A i \in 1..Len(r.todo) : r.todo[i] \in EntryOp
           /\ \A i \in 1..Len(r.req) : r.req[i] \in EntryOp
           /\ r.got \in Seq(SUBSET Line) /\ Len(r.got) \in Nat /\ r.kept \in SUBSET Line
<1>1. r.todo \in Seq(EntryOp) /\ r.req \in Seq(EntryOp) /\ r.got \in Seq(SUBSET Line) /\ r.kept \in SUBSET Line
  BY DEF ListAct, Plans, Reads
<1> QED BY <1>1

(* Where what is left of a request begins.                                  *)
LEMMA RestBegins ==
    ASSUME NEW S, NEW s \in Seq(S), NEW q \in Seq(S), Rest(s, q), Len(s) > 0
    PROVE  /\ s[1] \in S
           /\ Len(s) = 1 \/ Len(s) = 2 \/ Len(s) = 3
           /\ Len(s) > 1 => Len(q) = 3
           /\ Len(q) = 1 \/ Len(q) = 3
           /\ Len(q) = 1 => s[1] = q[1] /\ Len(s) = 1
           /\ Len(q) = 3 => /\ Len(s) = 3 => s[1] = q[1]
                            /\ Len(s) = 2 => s[1] = q[2]
                            /\ Len(s) = 1 => s[1] = q[3]
<1>1. Len(s) \in Nat /\ Len(q) \in Nat /\ (Len(q) = 0 \/ Len(q) = 1 \/ Len(q) = 3) /\ Len(s) <= Len(q)
  BY DEF Rest
<1>2. s[1] = q[Len(q) - Len(s) + 1] /\ s[1] \in S
  BY <1>1 DEF Rest
<1> DEFINE m == Len(s)
           n == Len(q)
<1>3. m \in Nat /\ n \in Nat /\ (n = 0 \/ n = 1 \/ n = 3) /\ m <= n /\ s[1] = q[n - m + 1] /\ m > 0
  BY <1>1, <1>2
<1> HIDE DEF m, n
<1>4. (m = 1 \/ m = 2 \/ m = 3) /\ (m > 1 => n = 3) /\ (n = 1 \/ n = 3) /\ (n = 1 => m = 1)
  BY <1>3
<1>5. (n = 1 => s[1] = q[1]) /\ (n = 3 /\ m = 3 => s[1] = q[1]) /\ (n = 3 /\ m = 2 => s[1] = q[2])
      /\ (n = 3 /\ m = 1 => s[1] = q[3])
  BY <1>3, <1>4
<1> QED BY <1>2, <1>4, <1>5 DEF m, n

(* What Tail leaves.                                                        *)
LEMMA RestTail ==
    ASSUME NEW S, NEW s \in Seq(S), NEW q \in Seq(S), Len(s) > 1
    PROVE  /\ Tail(s) \in Seq(S) /\ Len(Tail(s)) = Len(s) - 1 /\ Len(Tail(s)) > 0
           /\ Rest(s, q) => Rest(Tail(s), q)
<1>1. Tail(s) \in Seq(S)
  OBVIOUS
<1>2. Len(Tail(s)) = Len(s) - 1 /\ Len(s) \in Nat /\ Len(q) \in Nat
  OBVIOUS
<1>3. \A i \in 1..(Len(s) - 1) : Tail(s)[i] = s[i + 1]
  OBVIOUS
<1>4. ASSUME Rest(s, q), NEW i \in 1..Len(Tail(s))
      PROVE  Tail(s)[i] = q[Len(q) - Len(Tail(s)) + i]
  <2>1. i + 1 \in 1..Len(s) /\ Len(q) - Len(Tail(s)) + i = Len(q) - Len(s) + (i + 1)
    <3> DEFINE m == Len(s)
               t == Len(Tail(s))
               n == Len(q)
    <3>1. m \in Nat /\ n \in Nat /\ t = m - 1 /\ i \in 1..t
      BY <1>2
    <3> HIDE DEF m, t, n
    <3>2. i + 1 \in 1..m /\ n - t + i = n - m + (i + 1)
      BY <3>1
    <3> QED BY <3>2 DEF m, t, n
  <2>2. s[i + 1] = q[Len(q) - Len(s) + (i + 1)]
    BY <1>4, <2>1 DEF Rest
  <2> QED BY <1>2, <1>3, <2>1, <2>2
<1>5. Rest(s, q) => Len(Tail(s)) <= Len(q)
  BY <1>2 DEF Rest
<1> QED BY <1>1, <1>2, <1>4, <1>5 DEF Rest

(* The lines a request takes out are those of its first operation.          *)
LEMMA NamesAre ==
    ASSUME NEW a, NEW k, acts[a] \in ListAct, Planned(acts[a])
    PROVE  Names(a, k) = Named(acts[a], k)
<1> DEFINE q == acts[a].req
           R == {j \in DOMAIN q : q[j].op = "remove" /\ q[j].k = k}
<1>1. /\ Len(q) = 0 \/ Len(q) = 1 \/ Len(q) = 3
      /\ Len(q) \in Nat /\ DOMAIN q = 1..Len(q) /\ (Len(q) = 3 => q[2].op = "add" /\ q[3].op = "add")
  BY ActFields DEF Planned, Rest
<1>2. Names(a, k) = {Form(k, o.v) : o \in {q[i] : i \in R}}
  BY DEF Names
<1>3. Named(acts[a], k) = IF Len(q) > 0 /\ q[1].op = "remove" /\ q[1].k = k THEN {Form(k, q[1].v)} ELSE {}
  BY DEF Named
<1> HIDE DEF q
<1>4. R = IF Len(q) > 0 /\ q[1].op = "remove" /\ q[1].k = k THEN {1} ELSE {}
  BY <1>1
<1> HIDE DEF R
<1> QED BY <1>2, <1>3, <1>4

(* An operation of the rest is one of the request's.                        *)
LEMMA RestOf ==
    ASSUME NEW r \in ListAct, Planned(r), Len(r.todo) > 0
    PROVE  /\ r.todo[1] \in EntryOp /\ (\E i \in DOMAIN r.req : r.todo[1] = r.req[i])
           /\ r.todo[1].op = "remove" => /\ r.todo[1] = r.req[1] /\ Len(r.req) > 0
                                         /\ Len(r.req) = 3 => Len(r.todo) = 3
           /\ Len(r.todo) = 1 \/ Len(r.todo) = 2 \/ Len(r.todo) = 3
           /\ Len(r.todo) > 1 => Len(r.req) = 3
           /\ Len(r.req) > 1 => Len(r.req) = 3
           /\ Len(r.req) = 3 => /\ r.todo[1].k = r.req[1].k /\ r.req[1].op = "remove"
                                /\ Len(r.todo) = 3 => r.todo[1] = r.req[1]
                                /\ Len(r.todo) = 2 => r.todo[1] = r.req[2]
                                /\ Len(r.todo) = 1 => r.todo[1].v = r.req[1].v
                                /\ Len(r.todo) # 3 => r.todo[1].op = "add"
<1> DEFINE s == r.todo
           q == r.req
<1>1. s \in Seq(EntryOp) /\ q \in Seq(EntryOp) /\ DOMAIN q = 1..Len(q) /\ Rest(s, q) /\ Len(s) > 0
  BY ActFields DEF Planned
<1>2. Len(q) = 3 => /\ q[1].op = "remove" /\ q[2].op = "add" /\ q[3].op = "add"
                    /\ q[2].k = q[1].k /\ q[3].k = q[1].k /\ q[3].v = q[1].v
  BY DEF Planned
<1> HIDE DEF s, q
<1>3. /\ s[1] \in EntryOp /\ (Len(s) = 1 \/ Len(s) = 2 \/ Len(s) = 3) /\ (Len(s) > 1 => Len(q) = 3)
      /\ Len(q) = 1 \/ Len(q) = 3
      /\ Len(q) = 1 => s[1] = q[1] /\ Len(s) = 1
      /\ Len(q) = 3 => /\ Len(s) = 3 => s[1] = q[1]
                       /\ Len(s) = 2 => s[1] = q[2]
                       /\ Len(s) = 1 => s[1] = q[3]
  BY <1>1, RestBegins
<1>4. \E i \in DOMAIN q : s[1] = q[i]
  <2>1. CASE Len(q) = 1
    BY <1>1, <1>3, <2>1
  <2>2. CASE Len(q) = 3
    <3>1. 1 \in DOMAIN q /\ 2 \in DOMAIN q /\ 3 \in DOMAIN q
      BY <1>1, <2>2
    <3> QED BY <1>3, <2>2, <3>1
  <2> QED BY <1>3, <2>1, <2>2
<1>5. CASE Len(q) = 1
  <2>1. Len(s) = 1 /\ s[1] = q[1] /\ Len(q) > 0 /\ ~(Len(q) > 1) /\ Len(q) # 3 /\ ~(Len(s) > 1)
    BY <1>3, <1>5
  <2> QED BY <1>3, <1>4, <2>1 DEF s, q
<1>6. CASE Len(q) = 3
  <2>1. CASE Len(s) = 1
    BY <1>2, <1>3, <1>4, <1>6, <2>1 DEF s, q
  <2>2. CASE Len(s) = 2
    BY <1>2, <1>3, <1>4, <1>6, <2>2 DEF s, q
  <2>3. CASE Len(s) = 3
    BY <1>2, <1>3, <1>4, <1>6, <2>3 DEF s, q
  <2> QED BY <1>3, <2>1, <2>2, <2>3
<1> QED BY <1>3, <1>5, <1>6

(* The next operation of a request.                                         *)
Onto(r) == [Loading(r) EXCEPT !.pc = "op", !.todo = Tail(@)]

(* What is left of the request then.                                        *)
LEMMA OntoNext ==
    ASSUME NEW r \in ListAct, Len(r.todo) > 1
    PROVE  /\ Onto(r) \in ListAct /\ Busy(Onto(r)) /\ Onto(r).pc = "op"
           /\ Len(Onto(r).todo) = Len(r.todo) - 1
           /\ Onto(r).req = r.req /\ Onto(r).before = r.before /\ Onto(r).alone = r.alone
           /\ Planned(r) => Planned(Onto(r))
<1>1. r.todo \in Seq(EntryOp) /\ r.req \in Seq(EntryOp)
  BY ActFields
<1>2. /\ Tail(r.todo) \in Seq(EntryOp) /\ Len(Tail(r.todo)) = Len(r.todo) - 1 /\ Len(Tail(r.todo)) > 0
      /\ Rest(r.todo, r.req) => Rest(Tail(r.todo), r.req)
  BY <1>1, RestTail
<1>3. Tail(r.todo) \in Plans /\ <<>> \in Reads
  BY <1>2 DEF Plans, Reads
<1>4. /\ Onto(r) \in ListAct /\ Onto(r).pc = "op" /\ Onto(r).todo = Tail(r.todo) /\ ~Onto(r).changed
      /\ Onto(r).req = r.req /\ Onto(r).before = r.before /\ Onto(r).alone = r.alone
  BY <1>3 DEF Onto, Loading, ListAct
<1>5. ASSUME Planned(r)
      PROVE  Planned(Onto(r))
  <2>1. Len(r.req) = 3
    BY <1>1, <1>5, RestBegins DEF Planned
  <2>2. /\ r.req[1].op = "remove" /\ r.req[2].op = "add" /\ r.req[3].op = "add"
        /\ r.req[2].k = r.req[1].k /\ r.req[3].k = r.req[1].k /\ r.req[3].v = r.req[1].v
    BY <1>5, <2>1 DEF Planned
  <2>3. Rest(Onto(r).todo, Onto(r).req) /\ Len(Onto(r).todo) > 0 /\ Onto(r).pc # "write" /\ Len(Onto(r).req) # 0
    BY <1>2, <1>4, <1>5, <2>1 DEF Planned
  <2> QED BY <1>4, <2>1, <2>2, <2>3 DEF Planned
<1> QED BY <1>2, <1>4, <1>5 DEF Busy

-----------------------------------------------------------------------------
(* Lists: how an operation ends                                             *)

(* The request is over, the files hold at least what they did, and an edit
   has its old line or its new one.                                         *)
LEMMA DoneKeeps ==
    ASSUME KeepInv, NEW a \in Actor, Done(a), FilesTyped', faults' \in Nat,
           acts[a].alone =>
             /\ acts[a].pc # "write" /\ \A k \in Kinds : Content[k] \subseteq Content'[k]
             /\ Edits(a) => Saved(a)
    PROVE  KeepInv' /\ \A b \in Actor : Outcome(b)
<1>1. Set(a, Idle) /\ acts[a] \in ListAct
  BY DEF Done, KeepInv, ActsTyped
<1>2. acts'[a] = Idle
  BY <1>1, ActsMove, IdleTyped DEF KeepInv
<1>3. Solo(a)'
  BY <1>2, IdleTyped DEF Solo
<1>4. ASSUME acts[a].alone, ~UndoFails(a), NEW k \in Kinds
      PROVE  /\ acts[a].before[k] \ Names(a, k) \subseteq Content'[k]
             /\ Len(acts[a].req) > 1 /\ acts[a].req[1].k = k /\ Names(a, k) \subseteq acts[a].before[k]
                  /\ ~Unread(a, k) =>
                  {Form(k, acts[a].req[i].v) : i \in DOMAIN acts[a].req} \cap Content'[k] # {}
  <2>1. Planned(acts[a]) /\ Lossless(acts[a])
    BY <1>4 DEF KeepInv, Solo
  <2>2. Names(a, k) = Named(acts[a], k)
    BY <1>1, <2>1, NamesAre
  <2>3. acts[a].before[k] \ Names(a, k) \subseteq Content'[k]
    <3>1. Held(acts[a], k) = {}
      BY <1>4 DEF Held
    <3> QED BY <1>4, <2>1, <2>2, <3>1 DEF Lossless
  <2>4. ASSUME Len(acts[a].req) > 1, acts[a].req[1].k = k, Names(a, k) \subseteq acts[a].before[k], ~Unread(a, k)
        PROVE  {Form(k, acts[a].req[i].v) : i \in DOMAIN acts[a].req} \cap Content'[k] # {}
    <3>1. Len(acts[a].req) = 3 /\ acts[a].req[1].op = "remove"
      <4> DEFINE n == Len(acts[a].req)
      <4>1. (n = 0 \/ n = 1 \/ n = 3) /\ n > 1 /\ (n = 3 => acts[a].req[1].op = "remove")
        BY <2>1, <2>4 DEF Planned, Rest
      <4> HIDE DEF n
      <4>2. n = 3
        BY <4>1
      <4> QED BY <4>1, <4>2 DEF n
    <3>2. Form(k, acts[a].req[1].v) \in Names(a, k)
      BY <2>2, <2>4, <3>1 DEF Named
    <3>3. Edits(a)
      BY <1>4, <2>4, <3>1, <3>2 DEF Edits
    <3>4. PICK i \in DOMAIN acts[a].req : Form(k, acts[a].req[i].v) \in Content'[k]
      BY <1>4, <2>4, <3>3 DEF Saved
    <3> QED BY <3>4
  <2> QED BY <2>3, <2>4
<1>5. Outcome(a)
  BY <1>4 DEF Outcome
<1> QED BY <1>1, <1>3, <1>5, IdleTyped, OneSteps

(* The request goes on to its next operation, with lists that are up to date. *)
LEMMA ContinueKeeps ==
    ASSUME KeepInv, NEW a \in Actor, Continue(a), Len(acts[a].todo) > 1,
           FilesTyped', faults' \in Nat,
           acts[a].alone => acts[a].pc # "write" /\ gone' = gone /\ lists' = Content' /\ Content' = Content
    PROVE  KeepInv' /\ \A b \in Actor : Outcome(b)
<1>1. acts[a] \in ListAct /\ Solo(a)
  BY DEF KeepInv, ActsTyped
<1>2. PICK r : r = Onto(acts[a]) /\ Set(a, r)
  BY DEF Continue, Onto
<1>3. /\ r \in ListAct /\ Busy(r) /\ r.pc = "op" /\ Len(r.todo) = Len(acts[a].todo) - 1
      /\ r.req = acts[a].req /\ r.before = acts[a].before /\ r.alone = acts[a].alone
      /\ Planned(acts[a]) => Planned(r)
  BY <1>1, <1>2, OntoNext
<1>4. acts'[a] = r
  BY <1>2, <1>3, ActsMove DEF KeepInv
<1>5. Outcome(a)
  BY <1>3, <1>4, IdleTyped DEF Outcome
<1>6. ASSUME r.alone
      PROVE  /\ r.pc # "idle" /\ Readable' /\ r.before \in Parsed
             /\ Planned(r) /\ Fresh(r)' /\ Emptied(r)' /\ Lossless(r)' /\ Edited(r)'
  <2>1. /\ Readable' /\ r.before \in Parsed /\ Planned(r) /\ lists' = Content'
        /\ Planned(acts[a]) /\ Content' = Content /\ Lossless(acts[a]) /\ acts[a].pc # "write"
    BY <1>1, <1>3, <1>6 DEF Solo, Readable
  <2>2. Fresh(r)' /\ Emptied(r)'
    BY <1>3, <2>1 DEF Fresh, Emptied
  <2>3. Lossless(r)'
    <3>1. \A k \in Kinds : Held(acts[a], k) = {}
      BY <2>1 DEF Held
    <3>2. \A k \in Kinds : Named(r, k) = Named(acts[a], k)
      BY <1>3 DEF Named
    <3>3. \A k \in Kinds : r.before[k] \ Named(r, k) \subseteq Content'[k]
      BY <1>3, <2>1, <3>1, <3>2 DEF Lossless
    <3>4. \A k \in Kinds : Named(r, k)' = Named(r, k)
      BY NamedSame
    <3> QED BY <3>3, <3>4 DEF Lossless
  <2>4. Len(r.todo) # 3
    <3> DEFINE m == Len(acts[a].todo)
               n == Len(r.todo)
    <3>1. (m = 1 \/ m = 2 \/ m = 3) /\ n = m - 1
      <4>1. Len(acts[a].todo) > 0
        BY <1>1, ActFields
      <4> QED BY <1>1, <1>3, <2>1, <4>1, RestOf
    <3> HIDE DEF m, n
    <3>2. n # 3
      BY <3>1
    <3> QED BY <3>2 DEF n
  <2>5. Edited(r)'
    BY <1>3, <2>4 DEF Edited
  <2> QED BY <1>3, <2>1, <2>2, <2>3, <2>5
<1>7. Solo(a)'
  BY <1>4, <1>6 DEF Solo
<1> QED BY <1>2, <1>3, <1>5, <1>7, OneSteps

(* The request goes on.                                                     *)
LEMMA MovesOn ==
    ASSUME KeepInv, NEW a \in Actor, NEW r \in ListAct, Busy(r), r.pc # "idle", Set(a, r),
           FilesTyped', faults' \in Nat,
           r.alone => /\ Readable' /\ r.before \in Parsed /\ Planned(r)
                      /\ Fresh(r)' /\ Emptied(r)' /\ Lossless(r)' /\ Edited(r)'
    PROVE  KeepInv' /\ \A b \in Actor : Outcome(b)
<1>1. acts'[a] = r
  BY ActsMove DEF KeepInv
<1>2. Outcome(a)
  BY <1>1, IdleTyped DEF Outcome
<1>3. Planned(r) => Planned(r)'
  BY DEF Planned, Rest
<1>4. Solo(a)'
  BY <1>1, <1>3 DEF Solo
<1> QED BY <1>2, <1>4, OneSteps

(* A request that is not alone may end in any way.                          *)
LEMMA Crowded ==
    ASSUME KeepInv, NEW a \in Actor, ~acts[a].alone, FilesTyped', faults' \in Nat,
           Failed(a) \/ Succeeded(a)
    PROVE  KeepInv' /\ \A b \in Actor : Outcome(b)
<1>1. Done(a) \/ (Len(acts[a].todo) > 1 /\ Continue(a))
  BY DEF Failed, Succeeded, Left
<1> QED BY <1>1, DoneKeeps, ContinueKeeps

(* A load reads one more file: if the request is alone nobody changes the
   files meanwhile.                                                         *)
LEMMA LoadReadKeeps ==
    ASSUME KeepInv, NEW a \in Actor, LoadRead(a)
    PROVE  KeepInv' /\ \A b \in Actor : Outcome(b)
<1>1. /\ acts[a] \in ListAct /\ Busy(acts[a]) /\ Solo(a) /\ FilesTyped' /\ faults' \in Nat
      /\ overlay' = overlay /\ source' = source /\ gone' = gone /\ lists' = lists
  BY DEF KeepInv, ActsTyped, FilesTyped, LoadRead, files, bounds
<1>2. CASE gone[Kind[Len(acts[a].got) + 1]] # {}
  <2>1. Failed(a) /\ ~acts[a].alone
    <3>1. Len(acts[a].got) \in Nat /\ Len(acts[a].got) + 1 <= Len(Kind)
      BY <1>1, ActFields DEF LoadRead
    <3>2. Kind[Len(acts[a].got) + 1] \in Kinds
      BY <3>1, ListConstants
    <3> QED BY <1>1, <1>2, <3>2 DEF LoadRead, Solo, Readable
  <2> QED BY <1>1, <2>1, Crowded
<1>3. CASE gone[Kind[Len(acts[a].got) + 1]] = {}
  <2> DEFINE i == Len(acts[a].got) + 1
  <2>1. PICK g, r : /\ g = Append(acts[a].got, loadFiles(Kind[i])) /\ r = [acts[a] EXCEPT !.got = g]
                    /\ Set(a, r) /\ i <= Len(Kind) /\ acts[a].pc = "read"
    BY <1>3 DEF LoadRead, At
  <2>2. acts[a].got \in Seq(SUBSET Line) /\ Len(acts[a].got) \in Nat /\ i \in Nat /\ i \in 1..Len(Kind)
    BY <1>1, <2>1, ActFields, ListConstants
  <2>3. loadFiles(Kind[i]) \in SUBSET Line
    <3>1. Kind[i] \in Kinds
      BY <2>2, ListConstants
    <3> QED BY <3>1, LinesOf, LineForms DEF loadFiles, KeepInv
  <2>4. /\ g \in Seq(SUBSET Line) /\ Len(g) = i /\ g[i] = loadFiles(Kind[i])
        /\ \A j \in 1..Len(acts[a].got) : g[j] = acts[a].got[j]
    BY <2>1, <2>2, <2>3
  <2>5. /\ r \in ListAct /\ r.got = g /\ r.pc = "read" /\ r.todo = acts[a].todo /\ r.req = acts[a].req
        /\ r.before = acts[a].before /\ r.alone = acts[a].alone
    <3>1. g \in Reads
      BY <2>4 DEF Reads
    <3> QED BY <1>1, <2>1, <3>1 DEF ListAct
  <2>6. Content' = Content /\ (\A k : loadFiles(k)' = loadFiles(k)) /\ \A o : Has(o)' <=> Has(o)
    BY <1>1, ContentSame
  <2>7. ASSUME r.alone
        PROVE  /\ Readable' /\ r.before \in Parsed /\ Planned(r)
               /\ Fresh(r)' /\ Emptied(r)' /\ Lossless(r)' /\ Edited(r)'
    <3>1. /\ acts[a].before \in Parsed /\ Planned(acts[a]) /\ Fresh(acts[a])
          /\ Lossless(acts[a]) /\ Edited(acts[a]) /\ Readable'
      BY <1>1, <2>5, <2>7 DEF Solo, Readable
    <3>2. Planned(r) /\ Emptied(r)'
      BY <2>1, <2>5, <3>1 DEF Planned, Emptied
    <3>3. Fresh(r)'
      <4>1. \A j \in 1..i : g[j] = loadFiles(Kind[j])
        BY <2>1, <2>2, <2>4, <3>1 DEF Fresh
      <4> QED BY <2>1, <2>4, <2>5, <2>6, <4>1 DEF Fresh
    <3>4. Lossless(r)'
      <4>1. \A k \in Kinds : Named(r, k)' = Named(acts[a], k) /\ Held(r, k)' = {} /\ Held(acts[a], k) = {}
        BY <2>1, <2>5, NamedSame DEF Named, Held
      <4>2. \A k \in Kinds : r.before[k] \ Named(acts[a], k) \subseteq Content'[k]
        BY <2>5, <2>6, <3>1, <4>1 DEF Lossless
      <4> QED BY <4>1, <4>2 DEF Lossless
    <3>5. Edited(r)'
      <4>1. /\ Len(r.todo) > 0 /\ r.todo[1].op = "add" =>
                 /\ Has(r.todo[1])' \/ Typed(r.todo[1].k, r.todo[1].v) \in Skipped(r.todo[1].k)
                 /\ r.todo[1].v \notin Bad[r.todo[1].k]
            /\ r.pc = "read"
        BY <2>1, <2>5, <2>6, <3>1 DEF Edited
      <4> QED BY <4>1 DEF Edited, Typed, Skipped
    <3> QED BY <2>5, <3>1, <3>2, <3>3, <3>4, <3>5
  <2>8. Busy(r) /\ r.pc # "idle"
    BY <1>1, <2>5 DEF Busy
  <2> HIDE DEF i
  <2> QED BY <1>1, <2>1, <2>5, <2>7, <2>8, MovesOn
<1> QED BY <1>2, <1>3

(* A load that nobody disturbed stores what the files hold.                 *)
LEMMA LoadStoreKeeps ==
    ASSUME KeepInv, NEW a \in Actor, LoadStore(a)
    PROVE  KeepInv' /\ \A b \in Actor : Outcome(b)
<1>1. /\ acts[a] \in ListAct /\ Busy(acts[a]) /\ Solo(a) /\ FilesTyped' /\ faults' \in Nat /\ acts[a].pc = "read"
      /\ overlay' = overlay /\ source' = source /\ gone' = gone /\ Succeeded(a)
  BY DEF KeepInv, ActsTyped, FilesTyped, LoadStore, files, bounds, At
<1>2. Content' = Content
  BY <1>1, ContentSame
<1>3. CASE ~acts[a].alone
  BY <1>1, <1>3, Crowded
<1>4. CASE acts[a].alone
  <2>1. Planned(acts[a]) /\ Fresh(acts[a]) /\ Edited(acts[a])
    BY <1>1, <1>4 DEF Solo
  <2>2. lists' = Content
    <3>1. ASSUME NEW k \in Kinds
          PROVE  Got(a, k) = loadFiles(k)
      <4> DEFINE i == CHOOSE i \in DOMAIN Kind : Kind[i] = k
      <4>1. i \in DOMAIN Kind /\ Kind[i] = k
        BY ListConstants
      <4>2. Got(a, k) = acts[a].got[i]
        BY DEF Got
      <4>3. Len(acts[a].got) = Len(Kind)
        BY DEF LoadStore
      <4> HIDE DEF i
      <4> QED BY <1>1, <2>1, <4>1, <4>2, <4>3, ListConstants DEF Fresh
    <3>2. lists' = [k \in Kinds |-> Got(a, k)]
      BY DEF LoadStore
    <3> QED BY <3>1, <3>2 DEF Content
  <2>3. CASE Left(a, "remove")
    <3>1. Len(acts[a].todo) > 1 /\ Continue(a)
      BY <1>1, <2>3 DEF Succeeded, Left
    <3> QED BY <1>1, <1>2, <2>2, <3>1, ContinueKeeps
  <2>4. CASE ~Left(a, "remove")
    <3>1. Done(a)
      BY <1>1, <2>4 DEF Succeeded
    <3>2. ASSUME Edits(a)
          PROVE  Saved(a)
      <4>1. Len(acts[a].todo) > 0 /\ Len(acts[a].req) = 3
        BY <2>1, <3>2 DEF Planned, Edits
      <4>2. /\ \E i \in DOMAIN acts[a].req : acts[a].todo[1] = acts[a].req[i]
            /\ acts[a].todo[1].k = acts[a].req[1].k
            /\ Len(acts[a].todo) = 3 => acts[a].todo[1] = acts[a].req[1]
            /\ acts[a].req[1].op = "remove"
            /\ Len(acts[a].todo) # 3 => acts[a].todo[1].op = "add"
            /\ Len(acts[a].todo) = 1 \/ Len(acts[a].todo) = 2 \/ Len(acts[a].todo) = 3
            /\ Len(acts[a].todo) = 1 => acts[a].todo[1].v = acts[a].req[1].v
            /\ Len(acts[a].todo) = 2 => acts[a].todo[1] = acts[a].req[2]
            /\ acts[a].todo[1] \in EntryOp
        BY <1>1, <2>1, <4>1, RestOf
      <4>3. Len(acts[a].todo) # 3
        <5>1. ASSUME Len(acts[a].todo) = 3
              PROVE  acts[a].todo[1].op = "remove"
          <6>1. acts[a].todo[1] = acts[a].req[1] /\ acts[a].req[1].op = "remove"
            BY <4>2, <5>1
          <6> QED BY <6>1
        <5>2. Len(acts[a].todo) = 3 => Len(acts[a].todo) > 1
          OBVIOUS
        <5> QED BY <2>4, <5>1, <5>2 DEF Left
      <4>4. /\ Has(acts[a].todo[1])
               \/ Typed(acts[a].todo[1].k, acts[a].todo[1].v) \in Skipped(acts[a].todo[1].k)
            /\ acts[a].todo[1].v \notin Bad[acts[a].todo[1].k]
        BY <1>1, <2>1, <4>1, <4>2, <4>3 DEF Edited
      <4>5. Has(acts[a].todo[1])
        <5>1. PICK o \in EntryOp : o = acts[a].todo[1] /\ o.k \in Kinds /\ o.v \in Line
          BY <4>2 DEF EntryOp
        <5>2. CASE Len(acts[a].todo) = 2
          BY <3>2, <4>2, <4>4, <5>2 DEF Edits, Unread
        <5>3. CASE Len(acts[a].todo) = 1
          <6>1. Form(o.k, o.v) \in acts[a].before[o.k]
            BY <3>2, <4>2, <5>1, <5>3 DEF Edits
          <6>2. Form(o.k, o.v) \notin Skipped(o.k)
            BY <1>1, <1>4, <5>1, <6>1 DEF Solo, Parsed
          <6> QED BY <4>4, <5>1, <6>2, LineForms
        <5> QED BY <4>2, <4>3, <5>2, <5>3
      <4> QED BY <1>2, <4>2, <4>5 DEF Saved, Has
    <3> QED BY <1>1, <1>2, <3>1, <3>2, DoneKeeps
  <2> QED BY <2>3, <2>4
<1> QED BY <1>3, <1>4

-----------------------------------------------------------------------------
(* Lists: the operations on entries                                         *)

(* The operation at hand.                                                   *)
LEMMA CurrentTyped ==
    ASSUME KeepInv, NEW a \in Actor, acts[a].pc \in {"op", "source", "write"}
    PROVE  /\ acts[a] \in ListAct /\ Len(acts[a].todo) > 0 /\ acts[a].todo[1] \in EntryOp
           /\ acts[a].todo[1].k \in Kinds /\ acts[a].todo[1].v \in Line
<1>1. acts[a] \in ListAct /\ Len(acts[a].todo) > 0
  BY DEF KeepInv, ActsTyped, Busy
<1>2. acts[a].todo[1] \in EntryOp
  <2>1. Len(acts[a].todo) \in Nat /\ \A i \in 1..Len(acts[a].todo) : acts[a].todo[i] \in EntryOp
    BY <1>1, ActFields
  <2>2. 1 \in 1..Len(acts[a].todo)
    BY <1>1, <2>1
  <2> QED BY <2>1, <2>2
<1> QED BY <1>1, <1>2 DEF EntryOp

(* An operation fails and leaves the files alone.  An edit whose new line is
   refused goes on to put the old one back; one that cannot had no such line. *)
LEMMA FailsKeeps ==
    ASSUME KeepInv, NEW a \in Actor, acts[a].pc \in {"op", "source"}, Failed(a),
           overlay' = overlay, source' = source, gone' = gone, lists' = lists, faults' \in Nat,
           acts[a].pc = "source" => acts[a].todo[1].op = "remove",
           acts[a].alone /\ Edits(a) /\ acts[a].todo[1].op = "remove" => Has(acts[a].todo[1]),
           acts[a].todo[1].op = "add" /\ Len(acts[a].todo) = 1 /\ Len(acts[a].req) = 3 /\ ~UndoFails(a) =>
             acts[a].todo[1].v \in Bad[acts[a].todo[1].k]
    PROVE  KeepInv' /\ \A b \in Actor : Outcome(b)
<1>1. FilesTyped' /\ Content' = Content /\ Solo(a)
  BY ContentSame DEF KeepInv, FilesTyped
<1>2. CASE ~acts[a].alone
  BY <1>1, <1>2, Crowded
<1>3. CASE acts[a].alone
  <2>1. /\ Planned(acts[a]) /\ Fresh(acts[a]) /\ Edited(acts[a]) /\ acts[a].before \in Parsed
    BY <1>1, <1>3 DEF Solo
  <2>2. CASE Left(a, "add")
    <3>1. Len(acts[a].todo) > 1 /\ Continue(a) /\ acts[a].todo[1].op = "add"
      BY <2>2 DEF Failed, Left
    <3>2. lists' = Content'
      BY <1>1, <2>1, <3>1 DEF Fresh
    <3> QED BY <1>1, <3>1, <3>2, ContinueKeeps
  <2>3. CASE ~Left(a, "add")
    <3>1. Done(a)
      BY <2>3 DEF Failed
    <3>2. ASSUME Edits(a)
          PROVE  Saved(a)
      <4>1. /\ acts[a] \in ListAct /\ Len(acts[a].todo) > 0 /\ acts[a].todo[1].k \in Kinds
            /\ acts[a].todo[1].v \in Line /\ Len(acts[a].req) = 3
        BY <3>2, CurrentTyped DEF Edits
      <4>2. /\ \E i \in DOMAIN acts[a].req : acts[a].todo[1] = acts[a].req[i]
            /\ Len(acts[a].todo) = 1 \/ Len(acts[a].todo) = 2 \/ Len(acts[a].todo) = 3
            /\ acts[a].todo[1].k = acts[a].req[1].k /\ acts[a].req[1].op = "remove"
            /\ Len(acts[a].todo) = 3 => acts[a].todo[1] = acts[a].req[1]
            /\ Len(acts[a].todo) = 1 => acts[a].todo[1].v = acts[a].req[1].v
            /\ Len(acts[a].todo) # 3 => acts[a].todo[1].op = "add"
        BY <2>1, <4>1, RestOf
      <4>3. CASE Len(acts[a].todo) = 3
        <5>1. acts[a].todo[1].op = "remove"
          <6>1. acts[a].todo[1] = acts[a].req[1] /\ acts[a].req[1].op = "remove"
            BY <4>2, <4>3
          <6> QED BY <6>1
        <5>2. Has(acts[a].todo[1])
          BY <1>3, <3>2, <5>1
        <5> QED BY <1>1, <4>2, <5>2 DEF Saved, Has
      <4>4. CASE Len(acts[a].todo) = 2
        BY <2>3, <4>2, <4>4 DEF Left
      <4>5. CASE Len(acts[a].todo) = 1
        <5>1. PICK k \in Kinds, v \in Line : k = acts[a].todo[1].k /\ v = acts[a].todo[1].v
          BY <4>1
        <5>2. v \in Bad[k]
          BY <3>2, <4>1, <4>2, <4>5, <5>1 DEF Edits
        <5>3. Form(k, v) \in Skipped(k)
          BY <5>2, LineForms
        <5>4. Form(k, v) \in acts[a].before[k]
          BY <3>2, <4>2, <4>5, <5>1 DEF Edits
        <5> QED BY <2>1, <5>3, <5>4 DEF Parsed
      <4> QED BY <4>2, <4>3, <4>4, <4>5
    <3> QED BY <1>1, <3>1, <3>2, DoneKeeps
  <2> QED BY <2>2, <2>3
<1> QED BY <1>2, <1>3

(* A record that begins to load.                                            *)
LEMMA LoadingTyped ==
    ASSUME NEW r \in ListAct
    PROVE  /\ Loading(r) \in ListAct /\ Busy(Loading(r)) /\ Loading(r).pc = "read" /\ Len(Loading(r).got) = 0
           /\ Loading(r).todo = r.todo /\ Loading(r).req = r.req /\ Loading(r).before = r.before
           /\ Loading(r).alone = r.alone
<1>1. <<>> \in Reads /\ {} \in SUBSET Line /\ 0 \in Nat
  BY DEF Reads
<1>2. /\ Loading(r) \in ListAct /\ Loading(r).pc = "read" /\ Loading(r).got = <<>>
      /\ Loading(r).todo = r.todo /\ Loading(r).req = r.req /\ Loading(r).before = r.before
      /\ Loading(r).alone = r.alone
  BY <1>1 DEF Loading, ListAct
<1>3. Len(Loading(r).got) = 0
  BY <1>2
<1> QED BY <1>2, <1>3 DEF Busy

(* AddEntry.                                                                *)
LEMMA AddEntryKeeps ==
    ASSUME KeepInv, NEW a \in Actor, AddEntry(a)
    PROVE  KeepInv' /\ \A b \in Actor : Outcome(b)
<1>1. /\ acts[a].pc = "op" /\ source' = source /\ gone' = gone /\ lists' = lists /\ acts[a].todo[1].op = "add"
      /\ faults \in Nat /\ Solo(a) /\ FilesTyped
  BY DEF AddEntry, At, Current, KeepInv
<1>2. PICK k \in Kinds, v \in Line : k = acts[a].todo[1].k /\ v = acts[a].todo[1].v
  BY <1>1, CurrentTyped
<1>3. acts[a] \in ListAct /\ Len(acts[a].todo) > 0
  BY <1>1, CurrentTyped
<1>4. CASE v \in Bad[k] /\ Failed(a) /\ UNCHANGED <<overlay, faults>>
  BY <1>1, <1>2, <1>4, FailsKeeps
<1>5. CASE Fault /\ Failed(a) /\ UNCHANGED overlay
  <2>1. faults' \in Nat /\ faults' > faults
    BY <1>1, <1>5 DEF Fault
  <2>2. Len(acts[a].req) = 3 /\ Len(acts[a].todo) = 1 => UndoFails(a)
    BY <2>1 DEF UndoFails
  <2> QED BY <1>1, <1>5, <2>1, <2>2, FailsKeeps
<1>6. CASE v \notin Bad[k] /\ Typed(k, v) \in ListEntries(k) /\ Succeeded(a) /\ UNCHANGED <<overlay, faults>>
  <2>1. FilesTyped' /\ faults' \in Nat /\ Content' = Content
    BY <1>1, <1>6, ContentSame DEF FilesTyped
  <2>2. Done(a)
    BY <1>1, <1>6 DEF Succeeded, Left
  <2>3. CASE ~acts[a].alone
    BY <2>1, <2>2, <2>3, DoneKeeps
  <2>4. CASE acts[a].alone
    <3>1. Planned(acts[a]) /\ lists = Content
      BY <1>1, <2>4 DEF Solo, Fresh
    <3>2. Form(k, v) \in Content[k]
      <4>1. Typed(k, v) \in Content[k]
        BY <1>6, <3>1 DEF ListEntries
      <4>2. PICK l \in Lines(k) : l \notin Skipped(k) /\ Typed(k, v) = Norm(k, l)
        BY <4>1, ContentOf
      <4>3. Norm(k, Norm(k, l)) = Norm(k, l)
        BY <1>1, <4>2, LinesOf, LineForms
      <4> QED BY <4>1, <4>2, <4>3 DEF Form
    <3>3. ASSUME Edits(a)
          PROVE  Saved(a)
      <4>1. /\ \E i \in DOMAIN acts[a].req : acts[a].todo[1] = acts[a].req[i]
            /\ acts[a].todo[1].k = acts[a].req[1].k
        BY <1>3, <3>1, <3>3, RestOf DEF Edits
      <4> QED BY <1>2, <2>1, <3>2, <4>1 DEF Saved
    <3> QED BY <1>1, <2>1, <2>2, <3>3, DoneKeeps
  <2> QED BY <2>3, <2>4
<1>7. CASE /\ v \notin Bad[k] /\ overlay' = [overlay EXCEPT ![k] = @ \cup {Typed(k, v)}]
           /\ Set(a, Loading(acts[a])) /\ UNCHANGED faults
  <2>1. Typed(k, v) \in Line
    BY LineForms
  <2>2. /\ FilesTyped' /\ faults' \in Nat /\ Typed(k, v) \in overlay'[k]
        /\ \A j \in Kinds : overlay[j] \subseteq overlay'[j]
    BY <1>1, <1>7, <2>1 DEF FilesTyped
  <2>3. /\ Typed(k, v) \in Skipped(k) \/ Form(k, v) \in Content'[k]
        /\ \A j \in Kinds : Content[j] \subseteq Content'[j]
    <3>1. Typed(k, v) \notin Skipped(k) => Form(k, v) \in Content'[k]
      BY <2>2, LinesOf, ContentNext DEF Form
    <3>2. ASSUME NEW j \in Kinds, NEW x \in Content[j]
          PROVE  x \in Content'[j]
      <4>1. PICK l \in Lines(j) : l \notin Skipped(j) /\ x = Norm(j, l)
        BY <3>2, ContentOf
      <4>2. l \in Lines(j)'
        BY <1>1, <2>2, LinesOf
      <4> QED BY <4>1, <4>2, ContentNext
    <3> QED BY <3>1, <3>2
  <2>4. PICK r : r = Loading(acts[a]) /\ Set(a, r)
    BY <1>7
  <2>5. /\ r \in ListAct /\ Busy(r) /\ r.pc = "read" /\ Len(r.got) = 0 /\ r.todo = acts[a].todo
        /\ r.req = acts[a].req /\ r.before = acts[a].before /\ r.alone = acts[a].alone
    BY <1>3, <2>4, LoadingTyped
  <2>6. ASSUME r.alone
        PROVE  /\ Readable' /\ r.before \in Parsed /\ Planned(r)
               /\ Fresh(r)' /\ Emptied(r)' /\ Lossless(r)' /\ Edited(r)'
    <3>1. /\ acts[a].before \in Parsed /\ Planned(acts[a]) /\ Lossless(acts[a]) /\ Readable'
      BY <1>1, <2>5, <2>6 DEF Solo, Readable
    <3>2. Planned(r) /\ Emptied(r)'
      BY <1>3, <2>5, <3>1, RestOf DEF Planned, Emptied
    <3>3. Fresh(r)'
      BY <2>5, ListConstants DEF Fresh
    <3>4. Lossless(r)'
      <4>1. \A j \in Kinds : Named(r, j)' = Named(acts[a], j) /\ Held(acts[a], j) = {}
        BY <1>1, <2>5, NamedSame DEF Named, Held
      <4>2. \A j \in Kinds : r.before[j] \ Named(acts[a], j) \subseteq Content'[j]
        BY <2>3, <2>5, <3>1, <4>1 DEF Lossless
      <4> QED BY <4>1, <4>2 DEF Lossless
    <3>5. Edited(r)'
      <4>1. Has(r.todo[1])' \/ Typed(k, v) \in Skipped(k)
        BY <1>2, <2>3, <2>5 DEF Has, Form, Norm, Typed
      <4> QED BY <1>2, <1>7, <2>5, <4>1 DEF Edited, Typed, Skipped
    <3> QED BY <2>5, <3>1, <3>2, <3>3, <3>4, <3>5
  <2> QED BY <2>2, <2>4, <2>5, <2>6, MovesOn
<1> QED BY <1>2, <1>4, <1>5, <1>6, <1>7 DEF AddEntry, Current

(* The record of a request that has emptied a file.                         *)
Emptying(a, r) ==
    /\ r \in ListAct /\ r.pc = "write" /\ r.todo = acts[a].todo /\ (r.at # 0 => r.at \in File)
    /\ r.req = acts[a].req /\ r.before = acts[a].before /\ r.alone = acts[a].alone

(* The other lists stay, and all lines but those taken out are in memory.   *)
Elsewhere(k) == \A j \in Kinds \ {k} : \A l \in Lines(j) : l \in Lines(j)'

Spared(r, k, v) ==
    /\ (IF r.at = 0 THEN overlay'[k] ELSE source'[k][r.at]) = {}
    /\ \A l \in Lines(k) : l \in Lines(k)' \/ l \in r.kept \/ l \in Skipped(k) \/ Norm(k, l) = Form(k, v)

(* A line that is taken out is listed as the line to be taken out is.       *)
LEMMA TakenOut ==
    ASSUME NEW k \in Kinds, NEW v \in Line, NEW l \in Line, l \notin Skipped(k),
           (k = "ip" /\ l = Typed(k, v)) \/ Norm(k, l) = Typed(k, v)
    PROVE  Norm(k, l) = Form(k, v)
<1>1. CASE Norm(k, l) = Typed(k, v)
  BY <1>1, LineForms DEF Form
<1>2. CASE l = Typed(k, v)
  BY <1>2 DEF Form
<1> QED BY <1>1, <1>2

(* A file is emptied, and the lines it is to keep are in memory: all but some
   that are listed as the line to be taken out is.                          *)
LEMMA EmptiesKeeps ==
    ASSUME KeepInv, NEW a \in Actor, acts[a].pc \in {"op", "source"}, acts[a].alone => acts[a].todo[1].op = "remove",
           NEW k \in Kinds, NEW v \in Line, k = acts[a].todo[1].k, v = acts[a].todo[1].v,
           NEW r, Emptying(a, r), Set(a, r), FilesTyped', faults' \in Nat, gone' = gone,
           Elsewhere(k), Spared(r, k, v)
    PROVE  KeepInv' /\ \A b \in Actor : Outcome(b)
<1>1. acts[a] \in ListAct /\ Len(acts[a].todo) > 0 /\ Solo(a)
  BY CurrentTyped DEF KeepInv
<1>3. /\ r \in ListAct /\ r.pc = "write" /\ r.todo = acts[a].todo /\ (r.at # 0 => r.at \in File)
      /\ r.req = acts[a].req /\ r.before = acts[a].before /\ r.alone = acts[a].alone
  BY DEF Emptying
<1>4. Busy(r) /\ r.pc # "idle"
  BY <1>1, <1>3 DEF Busy
<1>5. ASSUME r.alone
      PROVE  /\ Readable' /\ r.before \in Parsed /\ Planned(r)
             /\ Fresh(r)' /\ Emptied(r)' /\ Lossless(r)' /\ Edited(r)'
  <2>1. /\ acts[a].before \in Parsed /\ Planned(acts[a]) /\ Lossless(acts[a]) /\ Readable'
        /\ acts[a].todo[1].op = "remove"
    BY <1>1, <1>3, <1>5 DEF Solo, Readable
  <2>2. acts[a].todo[1] = acts[a].req[1] /\ Len(acts[a].req) > 0
    BY <1>1, <2>1, RestOf
  <2>3. Planned(r)
    BY <1>1, <1>3, <2>1, <2>2 DEF Planned
  <2>4. Fresh(r)' /\ Edited(r)' /\ Emptied(r)'
    BY <1>3 DEF Spared, Fresh, Edited, Emptied
  <2>5. \A j \in Kinds : Named(r, j) = Named(acts[a], j) /\ (j = k => Named(r, j) = {Form(k, v)})
    BY <1>3, <2>1, <2>2 DEF Named
  <2>6. ASSUME NEW j \in Kinds, NEW x \in r.before[j], x \notin Named(r, j)
        PROVE  x \in Content'[j] \cup Held(r, j)
    <3>1. x \in Content[j]
      <4>1. Held(acts[a], j) = {}
        BY DEF Held
      <4> QED BY <1>3, <2>1, <2>5, <2>6, <4>1 DEF Lossless
    <3>2. PICK l \in Lines(j) : l \notin Skipped(j) /\ x = Norm(j, l)
      BY <3>1, ContentOf
    <3>3. CASE l \in Lines(j)'
      BY <3>2, <3>3, ContentNext
    <3>4. CASE l \notin Lines(j)'
      <4>1. j = k /\ l \in r.kept
        BY <2>5, <2>6, <3>2, <3>4 DEF Elsewhere, Spared
      <4> QED BY <1>3, <3>2, <4>1 DEF Held
    <3> QED BY <3>3, <3>4
  <2>7. Lossless(r)'
    <3>1. \A j \in Kinds : Named(r, j)' = Named(r, j) /\ Held(r, j)' = Held(r, j)
      BY NamedSame
    <3> QED BY <2>6, <3>1 DEF Lossless
  <2> QED BY <1>3, <2>1, <2>3, <2>4, <2>7
<1> QED BY <1>3, <1>4, <1>5, MovesOn

(* The record with which a file's lines are written back.                   *)
LEMMA RewriteTyped ==
    ASSUME NEW a, acts[a] \in ListAct, NEW K \in SUBSET Line, NEW j \in Nat, j # 0 => j \in File, Rewrite(a, K, j)
    PROVE  \E r : Set(a, r) /\ Emptying(a, r) /\ r.kept = K \ Comment /\ r.at = j
<1>1. PICK r, M : M = K \ Comment /\ r = [acts[a] EXCEPT !.pc = "write", !.kept = M, !.at = j] /\ Set(a, r)
  BY DEF Rewrite
<1>2. M \in SUBSET Line
  BY <1>1
<1>3. Emptying(a, r) /\ r.kept = M /\ r.at = j
  BY <1>1, <1>2 DEF Emptying, ListAct
<1> QED BY <1>1, <1>3

(* A request that looks on, with the files as they are.                     *)
LEMMA LooksOn ==
    ASSUME KeepInv, NEW a \in Actor, acts[a].pc \in {"op", "source"}, acts[a].alone => acts[a].todo[1].op = "remove",
           acts[a].alone /\ acts[a].pc = "op" => ~acts[a].changed,
           NEW n \in Nat, Set(a, [acts[a] EXCEPT !.pc = "source", !.at = n]),
           overlay' = overlay, source' = source, gone' = gone, faults' \in Nat
    PROVE  KeepInv' /\ \A b \in Actor : Outcome(b)
<1>1. acts[a] \in ListAct /\ Len(acts[a].todo) > 0 /\ Solo(a) /\ FilesTyped'
  BY CurrentTyped DEF KeepInv, FilesTyped
<1>2. PICK r : r = [acts[a] EXCEPT !.pc = "source", !.at = n] /\ Set(a, r)
  OBVIOUS
<1>3. /\ r \in ListAct /\ r.pc = "source" /\ r.todo = acts[a].todo /\ r.changed = acts[a].changed
      /\ r.req = acts[a].req /\ r.before = acts[a].before /\ r.alone = acts[a].alone
  BY <1>1, <1>2 DEF ListAct
<1>4. Busy(r) /\ r.pc # "idle"
  BY <1>1, <1>3 DEF Busy
<1>5. ASSUME r.alone
      PROVE  /\ Readable' /\ r.before \in Parsed /\ Planned(r)
             /\ Fresh(r)' /\ Emptied(r)' /\ Lossless(r)' /\ Edited(r)'
  <2>1. /\ acts[a].before \in Parsed /\ Planned(acts[a]) /\ Lossless(acts[a]) /\ Edited(acts[a]) /\ Readable'
        /\ acts[a].todo[1].op = "remove"
    BY <1>1, <1>3, <1>5 DEF Solo, Readable
  <2>2. Len(acts[a].req) > 0
    BY <1>1, <2>1, RestOf
  <2>3. Planned(r) /\ Fresh(r)' /\ Emptied(r)'
    BY <1>1, <1>3, <2>1, <2>2 DEF Planned, Fresh, Emptied
  <2>4. Content' = Content /\ \A o : Has(o)' <=> Has(o)
    BY ContentSame
  <2>5. Lossless(r)'
    <3>1. \A k \in Kinds : Named(r, k)' = Named(acts[a], k) /\ Held(acts[a], k) = {}
      BY <1>3, NamedSame DEF Named, Held
    <3>2. \A k \in Kinds : r.before[k] \ Named(acts[a], k) \subseteq Content'[k]
      BY <1>3, <2>1, <2>4, <3>1 DEF Lossless
    <3> QED BY <3>1, <3>2 DEF Lossless
  <2>6. Edited(r)'
    <3>1. Len(r.todo) = 3 /\ ~r.changed /\ Form(r.todo[1].k, r.todo[1].v) \in r.before[r.todo[1].k] => Has(r.todo[1])'
      BY <1>3, <2>1, <2>4 DEF Edited
    <3> QED BY <1>3, <3>1 DEF Edited, Form, Typed, Norm
  <2> QED BY <1>3, <2>1, <2>3, <2>5, <2>6
<1> QED BY <1>1, <1>2, <1>3, <1>4, <1>5, MovesOn

(* RemoveEntry, as far as the overlay.                                      *)
LEMMA RemoveEntryKeeps ==
    ASSUME KeepInv, NEW a \in Actor, RemoveEntry(a)
    PROVE  KeepInv' /\ \A b \in Actor : Outcome(b)
<1>1. /\ acts[a].pc = "op" /\ gone' = gone /\ lists' = lists /\ acts[a].todo[1].op = "remove" /\ source' = source
      /\ faults \in Nat /\ FilesTyped /\ acts[a] \in ListAct /\ Solo(a)
  BY DEF RemoveEntry, At, Current, KeepInv, ActsTyped
<1>2. PICK k \in Kinds, v \in Line : k = acts[a].todo[1].k /\ v = acts[a].todo[1].v
  BY <1>1, CurrentTyped
<1>3. CASE Failed(a) /\ UNCHANGED overlay /\ faults' \in Nat
  <2>1. acts[a].alone /\ Edits(a) => Has(acts[a].todo[1])
    <3> SUFFICES ASSUME acts[a].alone, Edits(a)
                 PROVE  Has(acts[a].todo[1])
      OBVIOUS
    <3>1. Planned(acts[a]) /\ Edited(acts[a]) /\ Len(acts[a].todo) > 0
      BY <1>1, CurrentTyped DEF Solo
    <3>2. acts[a].todo[1] = acts[a].req[1] /\ Len(acts[a].todo) = 3
      BY <1>1, <3>1, RestOf DEF Edits
    <3> QED BY <1>1, <3>1, <3>2 DEF Edited, Edits
  <2> QED BY <1>1, <1>3, <2>1, FailsKeeps
<1>4. CASE /\ overlay' = [overlay EXCEPT ![k] = {}] /\ UNCHANGED faults
           /\ Rewrite(a, overlay[k] \ InOverlay(k, v), 0)
  <2> DEFINE K == overlay[k] \ InOverlay(k, v)
  <2>1. K \in SUBSET Line /\ Rewrite(a, K, 0)
    BY <1>1, <1>4 DEF FilesTyped
  <2>2. PICK r : Set(a, r) /\ Emptying(a, r) /\ r.kept = K \ Comment /\ r.at = 0
    <3> HIDE DEF K
    <3> QED BY <1>1, <2>1, RewriteTyped
  <2>3. FilesTyped' /\ overlay'[k] = {} /\ faults' \in Nat /\ \A j \in Kinds \ {k} : overlay'[j] = overlay[j]
    BY <1>1, <1>4 DEF FilesTyped
  <2>4. Elsewhere(k)
    BY <1>1, <2>3, LinesOf DEF Elsewhere
  <2>5. Spared(r, k, v)
    <3>1. ASSUME NEW l \in Lines(k), l \notin Lines(k)', l \notin r.kept, l \notin Skipped(k)
          PROVE  Norm(k, l) = Form(k, v)
      <4>1. l \in overlay[k] /\ l \in Line
        BY <1>1, <3>1, LinesOf DEF FilesTyped
      <4>2. l \in InOverlay(k, v)
        BY <2>2, <3>1, <4>1 DEF Skipped
      <4>3. (k = "ip" /\ l = Typed(k, v)) \/ Norm(k, l) = Typed(k, v)
        BY <4>2 DEF InOverlay
      <4> QED BY <3>1, <4>1, <4>3, TakenOut
    <3> QED BY <2>2, <2>3, <3>1 DEF Spared
  <2> QED BY <1>1, <1>2, <2>2, <2>3, <2>4, <2>5, EmptiesKeeps
<1>5. CASE Set(a, [acts[a] EXCEPT !.pc = "source", !.at = 1]) /\ UNCHANGED <<overlay, faults>>
  BY <1>1, <1>5, LooksOn DEF Solo, Planned
<1>6. Fault => faults' \in Nat
  BY <1>1 DEF Fault
<1> QED BY <1>1, <1>2, <1>3, <1>4, <1>5, <1>6 DEF RemoveEntry, Current

(* RemoveEntry, in the operator's files.                                    *)
LEMMA RemoveFromSourcesKeeps ==
    ASSUME KeepInv, NEW a \in Actor, removeFromSources(a)
    PROVE  KeepInv' /\ \A b \in Actor : Outcome(b)
<1>1. /\ acts[a].pc = "source" /\ gone' = gone /\ lists' = lists /\ overlay' = overlay
      /\ faults \in Nat /\ FilesTyped /\ acts[a] \in ListAct /\ Solo(a) /\ Len(acts[a].todo) > 0
  BY CurrentTyped DEF removeFromSources, At, KeepInv
<1>2. PICK k \in Kinds, v \in Line : k = acts[a].todo[1].k /\ v = acts[a].todo[1].v
  BY <1>1, CurrentTyped
<1>3. PICK j \in Nat : j = acts[a].at
  BY <1>1 DEF ListAct
<1>4. acts[a].alone => acts[a].todo[1].op = "remove"
  BY <1>1 DEF Solo, Planned
<1>5. ASSUME Failed(a), source' = source, faults' \in Nat,
             acts[a].alone /\ Edits(a) => Has(acts[a].todo[1])
      PROVE  KeepInv' /\ \A b \in Actor : Outcome(b)
  <2>1. CASE ~acts[a].alone
    <3>1. FilesTyped'
      BY <1>1, <1>5 DEF FilesTyped
    <3> QED BY <1>5, <2>1, <3>1, Crowded
  <2>2. CASE acts[a].alone
    BY <1>1, <1>4, <1>5, <2>2, FailsKeeps
  <2> QED BY <2>1, <2>2
<1>6. CASE Set(a, [acts[a] EXCEPT !.at = @ + 1]) /\ UNCHANGED <<source, faults>>
  <2>1. [acts[a] EXCEPT !.at = @ + 1] = [acts[a] EXCEPT !.pc = "source", !.at = j + 1]
    BY <1>1, <1>3 DEF ListAct
  <2>2. j + 1 \in Nat
    OBVIOUS
  <2>3. Set(a, [acts[a] EXCEPT !.pc = "source", !.at = j + 1])
    BY <1>6, <2>1
  <2> QED BY <1>1, <1>4, <1>6, <2>2, <2>3, LooksOn
<1>7. CASE /\ j \in File /\ InSource(k, j, v) # {} /\ source' = [source EXCEPT ![k][j] = {}] /\ UNCHANGED faults
           /\ Rewrite(a, source[k][j] \ InSource(k, j, v), j)
  <2> DEFINE K == source[k][j] \ InSource(k, j, v)
  <2>1. K \in SUBSET Line /\ Rewrite(a, K, j)
    BY <1>1, <1>7 DEF FilesTyped
  <2>2. PICK r : Set(a, r) /\ Emptying(a, r) /\ r.kept = K \ Comment /\ r.at = j
    <3> HIDE DEF K
    <3> QED BY <1>1, <1>7, <2>1, RewriteTyped
  <2>3. /\ FilesTyped' /\ source'[k][j] = {} /\ faults' \in Nat /\ \A i \in Kinds \ {k} : source'[i] = source[i]
        /\ \A i \in File \ {j} : source'[k][i] = source[k][i]
    BY <1>1, <1>7 DEF FilesTyped
  <2>4. Elsewhere(k)
    BY <1>1, <2>3, LinesOf DEF Elsewhere
  <2>5. Spared(r, k, v)
    <3>1. ASSUME NEW l \in Lines(k), l \notin Lines(k)', l \notin r.kept, l \notin Skipped(k)
          PROVE  Norm(k, l) = Form(k, v)
      <4>1. l \in source[k][j] /\ l \in Line
        BY <1>1, <2>3, <3>1, LinesOf
      <4>2. l \in InSource(k, j, v)
        BY <2>2, <3>1, <4>1 DEF Skipped
      <4>3. Norm(k, l) = Typed(k, v)
        BY <4>2 DEF InSource
      <4> QED BY <3>1, <4>1, <4>3, TakenOut
    <3>2. r.at # 0
      BY <1>7, <2>2, ListsAssumption DEF File
    <3> QED BY <2>2, <2>3, <3>1, <3>2 DEF Spared
  <2> QED BY <1>1, <1>2, <1>4, <2>2, <2>3, <2>4, <2>5, EmptiesKeeps
<1>8. CASE j \in File /\ InSource(k, j, v) # {} /\ Fault /\ Failed(a) /\ UNCHANGED source
  <2>1. faults' \in Nat
    BY <1>1, <1>8 DEF Fault
  <2>2. ASSUME acts[a].alone, Edits(a)
        PROVE  Has(acts[a].todo[1])
    <3>1. PICK l : l \in source[k][j] /\ Norm(k, l) = Typed(k, v)
      BY <1>8 DEF InSource
    <3>2. l \in Lines(k) /\ l \in Line
      BY <1>1, <1>8, <3>1, LinesOf
    <3>3. acts[a].todo[1] = acts[a].req[1] /\ acts[a].before \in Parsed
      BY <1>1, <1>4, <2>2, RestOf DEF Solo
    <3>4. Form(k, v) \notin Skipped(k)
      BY <1>2, <2>2, <3>3 DEF Edits, Parsed
    <3>5. l \notin Skipped(k)
      BY <3>1, <3>2, <3>4, LineForms
    <3>6. Norm(k, l) = Form(k, v)
      BY <3>1, <3>2, <3>5, TakenOut
    <3>7. Form(k, v) \in Content[k]
      BY <3>2, <3>5, <3>6, ContentOf
    <3> QED BY <1>2, <3>7 DEF Has
  <2> QED BY <1>5, <1>8, <2>1, <2>2
<1>9. CASE acts[a].changed /\ Set(a, Loading(acts[a])) /\ UNCHANGED <<source, faults>>
  <2>1. PICK r : r = Loading(acts[a]) /\ Set(a, r)
    BY <1>9
  <2>2. /\ r \in ListAct /\ Busy(r) /\ r.pc = "read" /\ Len(r.got) = 0 /\ r.todo = acts[a].todo
        /\ r.req = acts[a].req /\ r.before = acts[a].before /\ r.alone = acts[a].alone
    BY <1>1, <2>1, LoadingTyped
  <2>3. FilesTyped' /\ faults' \in Nat /\ Content' = Content
    BY <1>1, <1>9, ContentSame DEF FilesTyped
  <2>4. ASSUME r.alone
        PROVE  /\ Readable' /\ r.before \in Parsed /\ Planned(r)
               /\ Fresh(r)' /\ Emptied(r)' /\ Lossless(r)' /\ Edited(r)'
    <3>1. /\ acts[a].before \in Parsed /\ Planned(acts[a]) /\ Lossless(acts[a]) /\ Readable'
          /\ acts[a].todo[1].op = "remove"
      BY <1>1, <1>4, <2>2, <2>4 DEF Solo, Readable
    <3>2. Len(acts[a].req) > 0
      BY <1>1, <3>1, RestOf
    <3>3. Planned(r) /\ Emptied(r)' /\ Edited(r)'
      BY <1>1, <2>2, <3>1, <3>2 DEF Planned, Emptied, Edited
    <3>4. Fresh(r)'
      BY <2>2, ListConstants DEF Fresh
    <3>5. Lossless(r)'
      <4>1. \A i \in Kinds : Named(r, i)' = Named(acts[a], i) /\ Held(acts[a], i) = {}
        BY <1>1, <2>2, NamedSame DEF Named, Held
      <4>2. \A i \in Kinds : r.before[i] \ Named(acts[a], i) \subseteq Content'[i]
        BY <2>2, <2>3, <3>1, <4>1 DEF Lossless
      <4> QED BY <4>1, <4>2 DEF Lossless
    <3> QED BY <2>2, <3>1, <3>3, <3>4, <3>5
  <2>5. r.pc # "idle"
    BY <2>2
  <2> QED BY <2>1, <2>2, <2>3, <2>4, <2>5, MovesOn
<1>10. CASE ~acts[a].changed /\ Failed(a) /\ UNCHANGED <<source, faults>>
  <2>1. ASSUME acts[a].alone, Edits(a)
        PROVE  Has(acts[a].todo[1])
    <3>1. Planned(acts[a]) /\ Edited(acts[a])
      BY <1>1, <2>1 DEF Solo
    <3>2. acts[a].todo[1] = acts[a].req[1] /\ Len(acts[a].todo) = 3
      BY <1>1, <1>4, <2>1, <3>1, RestOf DEF Edits
    <3> QED BY <1>1, <1>10, <2>1, <3>1, <3>2 DEF Edited, Edits
  <2>2. faults' \in Nat
    BY <1>1, <1>10
  <2> QED BY <1>5, <1>10, <2>1, <2>2
<1>11. \/ Set(a, [acts[a] EXCEPT !.at = @ + 1]) /\ UNCHANGED <<source, faults>>
       \/ /\ j \in File /\ InSource(k, j, v) # {} /\ source' = [source EXCEPT ![k][j] = {}] /\ UNCHANGED faults
          /\ Rewrite(a, source[k][j] \ InSource(k, j, v), j)
       \/ j \in File /\ InSource(k, j, v) # {} /\ Fault /\ Failed(a) /\ UNCHANGED source
       \/ acts[a].changed /\ Set(a, Loading(acts[a])) /\ UNCHANGED <<source, faults>>
       \/ ~acts[a].changed /\ Failed(a) /\ UNCHANGED <<source, faults>>
  BY <1>2, <1>3 DEF removeFromSources, Current
<1> QED BY <1>6, <1>7, <1>8, <1>9, <1>10, <1>11

(* The lines kept are written back, into a file that is empty unless others
   have been at it.                                                         *)
LEMMA WriteFileKeeps ==
    ASSUME KeepInv, NEW a \in Actor, WriteFile(a)
    PROVE  KeepInv' /\ \A b \in Actor : Outcome(b)
<1>1. /\ acts[a].pc = "write" /\ gone' = gone /\ faults' \in Nat /\ FilesTyped
      /\ acts[a] \in ListAct /\ Len(acts[a].todo) > 0 /\ Solo(a) /\ acts[a].kept \in SUBSET Line
      /\ acts[a].at \in Nat /\ (acts[a].at # 0 => acts[a].at \in File)
  BY CurrentTyped, ActFields DEF WriteFile, At, KeepInv, bounds, ActsTyped, Busy, ListAct
<1>2. PICK k \in Kinds : k = acts[a].todo[1].k
  BY <1>1, CurrentTyped
<1>3. PICK j \in Nat : j = acts[a].at /\ (j # 0 => j \in File)
  BY <1>1
<1>4. \/ /\ j = 0 /\ source' = source /\ Set(a, Loading(acts[a]))
          /\ \E more \in SUBSET overlay[k] : overlay' = [overlay EXCEPT ![k] = acts[a].kept \cup more]
       \/ /\ j # 0 /\ overlay' = overlay /\ source' = [source EXCEPT ![k][j] = acts[a].kept]
          /\ Set(a, [acts[a] EXCEPT !.pc = "source", !.kept = {}, !.at = j + 1, !.changed = TRUE])
  BY <1>2, <1>3 DEF WriteFile, Current
<1>5. /\ FilesTyped'
      /\ \A i \in Kinds \ {k} : overlay'[i] = overlay[i] /\ source'[i] = source[i]
      /\ IF j = 0 THEN source'[k] = source[k] /\ acts[a].kept \subseteq overlay'[k]
         ELSE /\ overlay'[k] = overlay[k] /\ acts[a].kept = source'[k][j]
              /\ \A i \in File \ {j} : source'[k][i] = source[k][i]
  <2>1. CASE j = 0
    BY <1>1, <1>4, <2>1 DEF FilesTyped
  <2>2. CASE j # 0
    <3>1. /\ j \in File /\ overlay' = overlay /\ source' = [source EXCEPT ![k][j] = acts[a].kept]
          /\ source \in [Kinds -> [File -> SUBSET Line]] /\ source[k] \in [File -> SUBSET Line]
      BY <1>1, <1>3, <1>4, <2>2 DEF FilesTyped
    <3>2. source'[k] = [source[k] EXCEPT ![j] = acts[a].kept] /\ \A i \in Kinds \ {k} : source'[i] = source[i]
      BY <3>1
    <3>3. /\ source'[k] \in [File -> SUBSET Line] /\ source'[k][j] = acts[a].kept
          /\ \A i \in File \ {j} : source'[k][i] = source[k][i]
      BY <1>1, <3>1, <3>2
    <3>4. source' \in [Kinds -> [File -> SUBSET Line]]
      BY <3>1, <3>2, <3>3
    <3> QED BY <1>1, <2>2, <3>1, <3>2, <3>3, <3>4 DEF FilesTyped
  <2> QED BY <2>1, <2>2
<1>6. PICK r : /\ Set(a, r) /\ r \in ListAct /\ Busy(r) /\ r.todo = acts[a].todo
               /\ r.req = acts[a].req /\ r.before = acts[a].before /\ r.alone = acts[a].alone
               /\ (r.pc = "read" /\ Len(r.got) = 0) \/ (r.pc = "source" /\ r.changed)
  <2>1. CASE j = 0
    BY <1>1, <1>4, <2>1, LoadingTyped
  <2>2. CASE j # 0
    <3>1. PICK r : r = [acts[a] EXCEPT !.pc = "source", !.kept = {}, !.at = j + 1, !.changed = TRUE] /\ Set(a, r)
      BY <1>4, <2>2
    <3>2. {} \in SUBSET Line /\ j + 1 \in Nat
      OBVIOUS
    <3>3. /\ r \in ListAct /\ r.pc = "source" /\ r.changed /\ r.todo = acts[a].todo
          /\ r.req = acts[a].req /\ r.before = acts[a].before /\ r.alone = acts[a].alone
      BY <1>1, <3>1, <3>2 DEF ListAct
    <3>4. Busy(r)
      BY <1>1, <3>3 DEF Busy
    <3> QED BY <3>1, <3>3, <3>4
  <2> QED BY <2>1, <2>2
<1>7. ASSUME r.alone
      PROVE  /\ Readable' /\ r.before \in Parsed /\ Planned(r)
             /\ Fresh(r)' /\ Emptied(r)' /\ Lossless(r)' /\ Edited(r)'
  <2>1. /\ acts[a].before \in Parsed /\ Planned(acts[a]) /\ Lossless(acts[a]) /\ Readable'
        /\ Emptied(acts[a]) /\ acts[a].todo[1].op = "remove"
    BY <1>1, <1>6, <1>7 DEF Solo, Planned, Readable
  <2>2. Len(acts[a].req) > 0
    BY <1>1, <2>1, RestOf
  <2>3. Planned(r) /\ Emptied(r)' /\ Edited(r)'
    BY <1>1, <1>6, <2>1, <2>2 DEF Planned, Emptied, Edited
  <2>4. Fresh(r)'
    BY <1>6, ListConstants DEF Fresh
  <2>5. ASSUME NEW i \in Kinds, NEW x \in Content[i] \cup Held(acts[a], i)
        PROVE  x \in Content'[i]
    <3>1. CASE x \in Content[i]
      <4>1. PICK l \in Lines(i) : l \notin Skipped(i) /\ x = Norm(i, l)
        BY <3>1, ContentOf
      <4>2. l \in Lines(i)'
        BY <1>2, <1>3, <1>5, <2>1, LinesOf, <1>1 DEF Emptied
      <4> QED BY <4>1, <4>2, ContentNext
    <3>2. CASE x \in Held(acts[a], i)
      <4>1. i = k /\ \E l \in acts[a].kept \ Skipped(k) : x = Norm(k, l)
        BY <1>2, <3>2 DEF Held
      <4>2. PICK l \in acts[a].kept : l \notin Skipped(k) /\ x = Norm(k, l)
        BY <4>1
      <4>3. l \in Lines(k)'
        BY <1>3, <1>5, <4>2, LinesOf
      <4> QED BY <4>1, <4>2, <4>3, ContentNext
    <3> QED BY <2>5, <3>1, <3>2
  <2>6. Lossless(r)'
    <3>1. \A i \in Kinds : Named(r, i)' = Named(acts[a], i)
      BY <1>6, NamedSame DEF Named
    <3>2. \A i \in Kinds : r.before[i] \ Named(acts[a], i) \subseteq Content'[i]
      BY <1>6, <2>1, <2>5 DEF Lossless
    <3> QED BY <3>1, <3>2 DEF Lossless
  <2> QED BY <1>6, <2>1, <2>3, <2>4, <2>6
<1>8. r.pc # "idle"
  BY <1>6
<1> QED BY <1>1, <1>5, <1>6, <1>7, <1>8, MovesOn

-----------------------------------------------------------------------------
(* Lists: requests, the timer and the operator                              *)

(* What a request has to do: reload, one operation, or the three of an edit. *)
Errand(pc, todo) ==
    /\ todo \in Plans
    /\ \/ pc = "read" /\ Len(todo) = 0
       \/ pc = "op" /\ Len(todo) = 1
       \/ /\ pc = "op" /\ Len(todo) = 3
          /\ todo[1].op = "remove" /\ todo[2].op = "add" /\ todo[3].op = "add"
          /\ todo[2].k = todo[1].k /\ todo[3].k = todo[1].k /\ todo[3].v = todo[1].v

(* All of a request is a rest of it.                                        *)
LEMMA WholeRest ==
    ASSUME NEW pc, NEW todo, Errand(pc, todo)
    PROVE  Rest(todo, todo)
<1>1. todo \in Seq(EntryOp) /\ Len(todo) \in Nat
  BY DEF Errand, Plans
<1>2. Len(todo) = 0 \/ Len(todo) = 1 \/ Len(todo) = 3
  BY DEF Errand
<1> DEFINE n == Len(todo)
<1>3. n \in Nat
  BY <1>1
<1> HIDE DEF n
<1>4. n <= n /\ \A i \in 1..n : todo[i] = todo[n - n + i]
  BY <1>3
<1> QED BY <1>2, <1>4 DEF Rest, n

(* An admin request begins, alone or not.                                   *)
LEMMA BeginKeeps ==
    ASSUME KeepInv, NEW a \in Worker, NEW pc, NEW todo, Errand(pc, todo), Begin(a, pc, todo)
    PROVE  KeepInv' /\ \A b \in Actor : Outcome(b)
<1>1. /\ a \in Actor /\ FilesTyped' /\ faults' \in Nat /\ overlay' = overlay /\ source' = source
      /\ gone' = gone /\ lists' = lists
  BY ListConstants DEF KeepInv, FilesTyped, Begin, files
<1>2. Content' = Content /\ Content \in Parsed
  BY <1>1, ContentSame, ContentTyped DEF KeepInv
<1>3. /\ Idle \in ListAct /\ todo \in Plans /\ pc \in {"op", "read"} /\ Content \in Starts
      /\ pc = "op" => Len(todo) > 0
  <2>1. Content \in Starts
    BY <1>2 DEF Starts, Parsed
  <2>2. pc = "op" => Len(todo) > 0
    <3> DEFINE n == Len(todo)
    <3>1. pc = "op" => n = 1 \/ n = 3
      BY DEF Errand
    <3> HIDE DEF n
    <3>2. pc = "op" => n > 0
      BY <3>1
    <3> QED BY <3>2 DEF n
  <2> QED BY <2>1, <2>2, IdleTyped DEF Errand
<1>4. CASE Set(a, [Idle EXCEPT !.pc = pc, !.todo = todo])
  <2>1. PICK r : r = [Idle EXCEPT !.pc = pc, !.todo = todo] /\ Set(a, r)
    BY <1>4
  <2>2. r \in ListAct /\ r.pc = pc /\ r.todo = todo /\ ~r.alone
    BY <1>3, <2>1, IdleTyped DEF ListAct
  <2>3. Busy(r) /\ r.pc # "idle"
    BY <1>3, <2>2 DEF Busy
  <2> QED BY <1>1, <2>1, <2>2, <2>3, MovesOn
<1>5. CASE /\ Set(a, [Idle EXCEPT !.pc = pc, !.todo = todo, !.req = todo, !.before = Content, !.alone = TRUE])
           /\ lists = Content /\ Readable
  <2>1. PICK r : /\ r = [Idle EXCEPT !.pc = pc, !.todo = todo, !.req = todo, !.before = Content, !.alone = TRUE]
                 /\ Set(a, r)
    BY <1>5
  <2>2. /\ r \in ListAct /\ r.pc = pc /\ r.todo = todo /\ r.req = todo /\ r.before = Content /\ r.got = <<>>
        /\ ~r.changed
    BY <1>3, <2>1 DEF ListAct, Idle
  <2>3. Busy(r) /\ r.pc # "idle" /\ Len(r.got) = 0
    BY <1>3, <2>2 DEF Busy
  <2>4. Planned(r)
    <3>1. Rest(todo, todo)
      BY WholeRest
    <3>2. /\ IF Len(todo) = 0 THEN pc = "read" ELSE Len(todo) > 0
          /\ Len(todo) = 3 =>
               /\ todo[1].op = "remove" /\ todo[2].op = "add" /\ todo[3].op = "add"
               /\ todo[2].k = todo[1].k /\ todo[3].k = todo[1].k /\ todo[3].v = todo[1].v
          /\ pc # "write" /\ pc # "source"
      BY DEF Errand
    <3> QED BY <2>2, <3>1, <3>2 DEF Planned
  <2>5. Fresh(r)' /\ Emptied(r)'
    BY <1>1, <1>2, <1>3, <1>5, <2>2, <2>3, ListConstants DEF Fresh, Emptied
  <2>6. Lossless(r)'
    BY <1>2, <2>2 DEF Lossless
  <2>7. Edited(r)'
    <3>1. ~(pc = "read" /\ Len(todo) > 0) /\ pc # "source"
      BY DEF Errand
    <3>2. \A o : Has(o)' <=> Form(o.k, o.v) \in Content[o.k]
      BY <1>2 DEF Has, Form, Norm, Typed
    <3> QED BY <2>2, <3>1, <3>2 DEF Edited, Form, Norm, Typed
  <2>8. Readable'
    BY <1>1, <1>5 DEF Readable
  <2> QED BY <1>1, <1>2, <2>1, <2>2, <2>3, <2>4, <2>5, <2>6, <2>7, <2>8, MovesOn
<1> QED BY <1>4, <1>5 DEF Begin

(* The handlers of the panel.                                               *)
LEMMA HandlersKeep ==
    ASSUME KeepInv, NEW a \in Worker, NEW k \in Kinds, NEW v \in Line, NEW w \in Line,
           \/ handleBlocklistReload(a) \/ handleEntriesPost(a, k, v)
           \/ handleEntriesDelete(a, k, v) \/ handleEntriesPut(a, k, v, w)
    PROVE  KeepInv' /\ \A b \in Actor : Outcome(b)
<1>1. \A o \in {"add", "remove"}, x \in Line :
         Op(o, k, x) \in EntryOp /\ Op(o, k, x).op = o /\ Op(o, k, x).k = k /\ Op(o, k, x).v = x
  BY DEF Op, EntryOp
<1>2. CASE handleEntriesPost(a, k, v)
  <2>1. PICK s : s = Op("add", k, v) /\ s \in EntryOp
    BY <1>1
  <2>2. Errand("op", <<s>>)
    BY <2>1 DEF Errand, Plans
  <2> QED BY <1>2, <2>1, <2>2, BeginKeeps DEF handleEntriesPost
<1>3. CASE handleEntriesDelete(a, k, v)
  <2>1. PICK s : s = Op("remove", k, v) /\ s \in EntryOp
    BY <1>1
  <2>2. Errand("op", <<s>>)
    BY <2>1 DEF Errand, Plans
  <2> QED BY <1>3, <2>1, <2>2, BeginKeeps DEF handleEntriesDelete
<1>4. CASE handleEntriesPut(a, k, v, w)
  <2>1. PICK s \in EntryOp : s = Op("remove", k, v) /\ s.op = "remove" /\ s.k = k /\ s.v = v
    BY <1>1
  <2>2. PICK t \in EntryOp : t = Op("add", k, w) /\ t.op = "add" /\ t.k = k
    BY <1>1
  <2>3. PICK u \in EntryOp : u = Op("add", k, v) /\ u.op = "add" /\ u.k = k /\ u.v = v
    BY <1>1
  <2>4. Errand("op", <<s, t, u>>)
    BY <2>1, <2>2, <2>3 DEF Errand, Plans
  <2> QED BY <1>4, <2>1, <2>2, <2>3, <2>4, BeginKeeps DEF handleEntriesPut
<1>5. CASE handleBlocklistReload(a)
  <2>1. Errand("read", <<>>)
    BY DEF Errand, Plans
  <2> QED BY <1>5, <2>1, BeginKeeps DEF handleBlocklistReload
<1> QED BY <1>2, <1>3, <1>4, <1>5

(* The timer begins to load.                                                *)
LEMMA StartReloadKeeps ==
    ASSUME KeepInv, StartReload
    PROVE  KeepInv' /\ \A b \in Actor : Outcome(b)
<1>1. PICK r : r = Loading(Idle) /\ Set(Ticker, r)
  BY DEF StartReload
<1>2. r \in ListAct /\ Busy(r) /\ r.pc # "idle" /\ ~r.alone
  BY <1>1, LoadingTyped, IdleTyped
<1>3. Ticker \in Actor /\ FilesTyped' /\ faults' \in Nat
  BY ListConstants DEF KeepInv, FilesTyped, StartReload, files, bounds
<1> QED BY <1>1, <1>2, <1>3, MovesOn

(* The operator changes a file: nobody is alone any more.                   *)
LEMMA EditSourceKeeps ==
    ASSUME KeepInv, EditSource
    PROVE  KeepInv' /\ \A b \in Actor : Outcome(b)
<1>1. FilesTyped' /\ faults' \in Nat
  <2>1. CASE \E k \in Kinds, j \in File, s \in {{}, First} : source' = [source EXCEPT ![k][j] = s]
    BY <2>1, ListConstants DEF KeepInv, FilesTyped, EditSource
  <2>2. CASE source' = source
    BY <2>2 DEF KeepInv, FilesTyped, EditSource
  <2> QED BY <2>1, <2>2 DEF EditSource
<1>2. ActsTyped' /\ \A b \in Actor : ~acts'[b].alone /\ acts'[b].pc = acts[b].pc
  <2>1. Set(NoActor, Idle)
    BY DEF EditSource
  <2> QED BY <2>1, ActsMove, IdleTyped, ListConstants DEF KeepInv
<1>3. ASSUME NEW b \in Actor
      PROVE  Solo(b)' /\ Outcome(b)
  <2>1. acts[b].alone => acts[b].pc # "idle"
    BY DEF KeepInv, Solo
  <2> QED BY <1>2, <2>1, IdleTyped DEF Solo, Outcome
<1> QED BY <1>1, <1>2, <1>3 DEF KeepInv

(* Nothing happens.                                                         *)
LEMMA ListsIdle ==
    ASSUME KeepInv, UNCHANGED listVars
    PROVE  KeepInv'
<1>1. /\ overlay' = overlay /\ source' = source /\ gone' = gone /\ lists' = lists /\ acts' = acts /\ faults' = faults
  BY DEF listVars
<1>2. Content' = Content /\ \A k : loadFiles(k)' = loadFiles(k)
  BY <1>1, ContentSame
<1>3. ASSUME NEW a \in Actor
      PROVE  Solo(a)'
  <2>1. Solo(a)
    BY DEF KeepInv
  <2> QED BY <1>1, <1>2, <2>1
          DEF Solo, Planned, Rest, Fresh, Emptied, Lossless, Held, Named, Edited, Norm, Has, Form, Typed, Skipped,
              Readable
<1> QED BY <1>1, <1>3 DEF KeepInv, FilesTyped, ActsTyped, Busy

(* Nobody is in a request at the start.                                     *)
LEMMA ListsInitInv ==
    ASSUME ListsInit
    PROVE  KeepInv
<1>1. FilesTyped
  <2>1. {{}, First} \subseteq SUBSET Line /\ source \in [Kinds -> [File -> {{}, First}]]
    BY ListConstants DEF ListsInit
  <2>2. \A k \in Kinds : source[k] \in [File -> SUBSET Line]
    BY <2>1
  <2>3. source \in [Kinds -> [File -> SUBSET Line]]
    BY <2>1, <2>2
  <2> QED BY <2>3 DEF ListsInit, FilesTyped
<1>2. ActsTyped /\ \A a \in Actor : ~acts[a].alone
  BY IdleTyped DEF ListsInit, ActsTyped
<1> QED BY <1>1, <1>2 DEF KeepInv, Solo, ListsInit

(* Every step keeps the invariant and what a request promises.              *)
LEMMA ListsNextInv ==
    ASSUME KeepInv, ListsNext
    PROVE  KeepInv' /\ \A b \in Actor : Outcome(b)
<1>1. CASE StartReload
  BY <1>1, StartReloadKeeps
<1>2. CASE EditSource
  BY <1>2, EditSourceKeeps
<1>3. ASSUME NEW a \in Actor, Step(a)
      PROVE  KeepInv' /\ \A b \in Actor : Outcome(b)
  BY <1>3, LoadReadKeeps, LoadStoreKeeps, AddEntryKeeps, RemoveEntryKeeps, RemoveFromSourcesKeeps, WriteFileKeeps
     DEF Step
<1>4. ASSUME NEW a \in Worker, handleBlocklistReload(a)
      PROVE  KeepInv' /\ \A b \in Actor : Outcome(b)
  <2>1. Errand("read", <<>>)
    BY DEF Errand, Plans
  <2> QED BY <1>4, <2>1, BeginKeeps DEF handleBlocklistReload
<1>5. ASSUME NEW a \in Worker, NEW k \in Kinds, NEW v \in Line,
             handleEntriesPost(a, k, v) \/ handleEntriesDelete(a, k, v)
      PROVE  KeepInv' /\ \A b \in Actor : Outcome(b)
  BY <1>5, HandlersKeep
<1>6. ASSUME NEW a \in Worker, NEW k \in Kinds, NEW v \in Line, NEW w \in Line, handleEntriesPut(a, k, v, w)
      PROVE  KeepInv' /\ \A b \in Actor : Outcome(b)
  BY <1>6, HandlersKeep
<1> QED BY <1>1, <1>2, <1>3, <1>4, <1>5, <1>6 DEF ListsNext

-----------------------------------------------------------------------------
(* Lists: the theorems                                                      *)

(* In every state of the lists a request that has run alone so far has lost
   nothing but the line it takes out.                                       *)
THEOREM ListInvariance ==
    ListsSpec => []KeepInv
<1>1. ListsInit => KeepInv
  BY ListsInitInv
<1>2. KeepInv /\ [ListsNext]_(listVars) => KeepInv'
  BY ListsNextInv, ListsIdle
<1> QED BY <1>1, <1>2, PTL DEF ListsSpec

(* An admin request that finds the block lists up to date and runs alone loses
   no line it does not take out, and an edit keeps the old line or the new
   one, whatever is refused or cannot be written, for any lists, lines and
   source files; only a new value that AddEntry accepts and Load never reads,
   and an old line that cannot be written back, leave it with neither.      *)
THEOREM RequestsKeep ==
    ListsSpec => RequestKeeps
<1> DEFINE Keeps == \A a \in Worker : Outcome(a)
<1>1. KeepInv /\ [ListsNext]_(listVars) => [Keeps]_(listVars)
  BY ListsNextInv, ListConstants
<1>2. [Keeps]_(listVars) => [\A a \in Worker : acts[a].alone /\ acts'[a] = Idle /\ ~UndoFails(a) =>
          \A k \in Kinds :
            /\ acts[a].before[k] \ Names(a, k) \subseteq Content'[k]
            /\ Len(acts[a].req) > 1 /\ acts[a].req[1].k = k /\ Names(a, k) \subseteq acts[a].before[k]
                 /\ ~Unread(a, k) =>
                 {Form(k, acts[a].req[i].v) : i \in DOMAIN acts[a].req} \cap Content'[k] # {}]_(listVars)
  BY DEF Outcome
<1> QED BY <1>1, <1>2, ListInvariance, PTL DEF ListsSpec, RequestKeeps
=============================================================================
