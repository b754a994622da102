------------------------------ MODULE Routing ------------------------------
(***************************************************************************)
(* The routing configuration and its live copies.  Admin handlers write    *)
(* upstreams, routes, access policies and OpenAPI schemas to the SQLite    *)
(* store (admin/api/routes_handlers.go, admin/store) and then reload: the  *)
(* closure of cmd/ravenguard/main.go lists the four tables one statement   *)
(* after the other and swaps the schema manager, the route table and the   *)
(* policy manager, in this order.  Nothing locks a reload: the handlers of *)
(* two administrators interleave between any two statements and swaps.     *)
(* A request reads the live copies three times: for its access policy, for *)
(* its schema and for the proxy that serves it.                            *)
(***************************************************************************)
EXTENDS Naturals, FiniteSets

CONSTANTS
    Upstream, Route, Policy, Schema,  \* row ids
    Admin,                            \* admin requests in flight
    MaxWrites,                        \* bound on the admin writes
    PolicyRows, SchemaRows,           \* the rows administrators write
    Seeded,                           \* tables that may hold rows at start-up
    None                              \* no row, no reference

(* A policy's rules as the modelled client meets them: a password or PIN
   ("auth"), an IP, header or agent rule it satisfies ("pass") or not.      *)
PolicyRow == [mode : {"all", "any"}, rules : SUBSET {"auth", "pass", "fail"}]

(* A schema accepts the modelled request, blocks it, or only detects.        *)
SchemaRow == [mode : {"accepts", "blocks", "detects"}]

ASSUME RoutingAssumption ==
    /\ MaxWrites \in Nat /\ IsFiniteSet(Admin)
    /\ Seeded \subseteq {"ups", "routes", "pols", "schs"}
    /\ None \notin Upstream \cup Policy \cup Schema
    /\ PolicyRows \subseteq PolicyRow
    /\ SchemaRows \subseteq SchemaRow

VARIABLES
    db,       \* the four tables of the store
    live,     \* route table, policies and schemas the proxy uses
    checker,  \* health checkers of each generation of the route table
    task,     \* what each admin request is doing
    writes,   \* admin writes received so far
    calm,     \* no two reloads overlapped and the last one succeeded
    req       \* one proxied request

routingVars == <<db, live, checker, task, writes, calm, req>>

-----------------------------------------------------------------------------
(* Rows.  An upstream is "ok" or "bad": stored as it was sent, but its URL
   does not parse or its TLS files cannot be read when a proxy is built.    *)
UpstreamRow == {None} \cup [url : {"ok", "bad"}]
RouteRow == {None} \cup [up : Upstream, pol : Policy \cup {None}, sch : Schema \cup {None}, on : BOOLEAN]

Tables == [ups : [Upstream -> UpstreamRow], routes : [Route -> RouteRow],
           pols : [Policy -> PolicyRows \cup {None}], schs : [Schema -> SchemaRows \cup {None}]]

Gen == 0..MaxWrites
NoSnap == [ups |-> None, routes |-> None, pols |-> None, schs |-> None]
Task(pc, op, create) == [pc |-> pc, op |-> op, create |-> create, snap |-> NoSnap, old |-> 0, new |-> 0]
NoTask == Task("idle", None, FALSE)

-----------------------------------------------------------------------------
(* The proxies the table would serve: enabled routes whose upstream row was
   in the same listing.                                                     *)
Compile(ups, routes) ==
    [r \in Route |->
        IF routes[r] # None /\ routes[r].on /\ ups[routes[r].up] # None THEN routes[r] ELSE None]

(* buildProxy fails on one upstream: Replace gives up on all of them.       *)
Builds(ups, routes) ==
    \A r \in Route : Compile(ups, routes)[r] # None => ups[routes[r].up].url = "ok"

(* References of a route row that exist: GetUpstream, validateAccessPolicyRef,
   validateAPISchemaRef; the same three are foreign keys of the table.      *)
RefsExist(row) ==
    /\ db.ups[row.up] # None
    /\ row.pol # None => db.pols[row.pol] # None
    /\ row.sch # None => db.schs[row.sch] # None

(* After start-up: main loaded whatever the store held (it exits when that
   fails) and the checkers of generation 0 run.                             *)
RoutingInit ==
    /\ db \in Tables
    /\ \A t \in DOMAIN db \ Seeded : \A i \in DOMAIN db[t] : db[t][i] = None
    /\ \A r \in Route : db.routes[r] # None => RefsExist(db.routes[r])
    /\ Builds(db.ups, db.routes)
    /\ live = [routes |-> Compile(db.ups, db.routes), gen |-> 0, pols |-> db.pols, schs |-> db.schs]
    /\ checker = [g \in Gen |-> [running |-> g = 0, stopped |-> FALSE]]
    /\ task = [h \in Admin |-> NoTask]
    /\ writes = 0
    /\ calm = TRUE
    /\ req = [pc |-> "new", cookies |-> {}, pol |-> None, sch |-> None, loaded |-> None]

-----------------------------------------------------------------------------
(* Admin handlers                                                           *)
InUse(u) == \E r \in Route : db.routes[r] # None /\ db.routes[r].up = u

(* What CreateX, UpdateX and DeleteX test in statements of their own before
   the one that writes; row None is a delete, an absent id a create.        *)
UpstreamWritable(u, row) == row = None => db.ups[u] # None /\ ~InUse(u)
RouteWritable(r, row) == IF row = None THEN db.routes[r] # None ELSE RefsExist(row)
PolicyWritable(p, row) == row = None => db.pols[p] # None
SchemaWritable(s, row) == row = None => db.schs[s] # None

(* A handler that got past the role, CSRF and decoding tests and the Store
   method's reads.  A create has a fresh id: nobody else is creating it.    *)
Receive(h, table, id, row) ==
    /\ task[h].pc = "idle" /\ writes < MaxWrites
    /\ db[table][id] = None => \A k \in Admin : task[k].create => task[k].op.id # id
    /\ task' = [task EXCEPT ![h] = Task("write", [table |-> table, id |-> id, row |-> row],
                                        db[table][id] = None)]
    /\ writes' = writes + 1
    /\ UNCHANGED <<db, live, checker, calm, req>>

handleUpstreams(h) ==
    \E u \in Upstream, row \in UpstreamRow : UpstreamWritable(u, row) /\ Receive(h, "ups", u, row)
handleRoutes(h) ==
    \E r \in Route, row \in RouteRow : RouteWritable(r, row) /\ Receive(h, "routes", r, row)
handleAccessPolicies(h) ==
    \E p \in Policy, row \in PolicyRows \cup {None} :
        PolicyWritable(p, row) /\ Receive(h, "pols", p, row)
handleAPISchemas(h) ==
    \E s \in Schema, row \in SchemaRows \cup {None} :
        SchemaWritable(s, row) /\ Receive(h, "schs", s, row)

\* Fault: foreign keys are not enforced.
ForeignKeys_Off(op) == TRUE

(* Foreign keys of the routes table, as SQLite enforces them on a write.    *)
ForeignKeys(op) ==
    /\ op.table = "routes" /\ op.row # None => RefsExist(op.row)
    /\ op.table = "ups" /\ op.row = None => ~InUse(op.id)

(* ON DELETE SET NULL: the routes of a deleted policy or schema lose it.    *)
SetNull(routes, op) ==
    [r \in Route |->
        IF routes[r] = None \/ op.row # None THEN routes[r]
        ELSE IF op.table = "pols" /\ routes[r].pol = op.id THEN [routes[r] EXCEPT !.pol = None]
        ELSE IF op.table = "schs" /\ routes[r].sch = op.id THEN [routes[r] EXCEPT !.sch = None]
        ELSE routes[r]]

Written(table, op) ==
    IF op.table = table THEN [db[table] EXCEPT ![op.id] = op.row] ELSE db[table]

Reloading(h) == task[h].pc \notin {"idle", "write"}
NoReload == \A h \in Admin : ~Reloading(h)

(* The INSERT, UPDATE or DELETE.  An UPDATE or DELETE of a row that is gone
   by now (Receive saw it) is ErrNotFound; nothing is reloaded then.        *)
Exec(h) ==
    LET op == task[h].op IN
    /\ task[h].pc = "write"
    /\ IF ForeignKeys(op) /\ (task[h].create \/ db[op.table][op.id] # None)
       THEN /\ db' = [ups |-> Written("ups", op), routes |-> SetNull(Written("routes", op), op),
                      pols |-> Written("pols", op), schs |-> Written("schs", op)]
            /\ task' = [task EXCEPT ![h] = Task("listUps", None, FALSE)]
            /\ calm' = NoReload
       ELSE /\ task' = [task EXCEPT ![h] = NoTask]
            /\ UNCHANGED <<db, calm>>
    /\ UNCHANGED <<live, checker, writes, req>>

(* reloadRouting: ListUpstreams, ListRoutes, ListAccessPolicies and
   ListAPISchemas, one statement each.                                      *)
List(h, pc, next, snap) ==
    /\ task[h].pc = pc
    /\ task' = [task EXCEPT ![h] = [@ EXCEPT !.pc = next, !.snap = snap]]
    /\ UNCHANGED <<db, live, checker, writes, calm, req>>

ListUpstreams(h) == List(h, "listUps", "listRoutes", [task[h].snap EXCEPT !.ups = db.ups])
ListRoutes(h) == List(h, "listRoutes", "listPols", [task[h].snap EXCEPT !.routes = db.routes])
ListAccessPolicies(h) == List(h, "listPols", "listSchs", [task[h].snap EXCEPT !.pols = db.pols])
ListAPISchemas(h) == List(h, "listSchs", "schemas", [task[h].snap EXCEPT !.schs = db.schs])

(* schemaMgr.Replace; every stored schema compiled when it was saved.       *)
ReplaceSchemas(h) ==
    /\ task[h].pc = "schemas"
    /\ live' = [live EXCEPT !.schs = task[h].snap.schs]
    /\ task' = [task EXCEPT ![h].pc = "table"]
    /\ UNCHANGED <<db, checker, writes, calm, req>>

(* routeTable.Replace: build, then swap under the table's lock.  When a
   proxy cannot be built the reload ends here and the handler ignores it.   *)
ReplaceTable(h) ==
    LET s == task[h].snap
        g == live.gen + 1 IN
    /\ task[h].pc = "table"
    /\ IF Builds(s.ups, s.routes)
       THEN /\ live' = [live EXCEPT !.routes = Compile(s.ups, s.routes), !.gen = g]
            /\ task' = [task EXCEPT ![h] = [@ EXCEPT !.pc = "stopOld", !.old = live.gen, !.new = g]]
            /\ UNCHANGED calm
       ELSE /\ task' = [task EXCEPT ![h] = NoTask]
            /\ calm' = FALSE
            /\ UNCHANGED live
    /\ UNCHANGED <<db, checker, writes, req>>

(* Stop closes a checker's stop channel, started or not.                    *)
StopOld(h) ==
    /\ task[h].pc = "stopOld"
    /\ checker' = [checker EXCEPT ![task[h].old].stopped = TRUE]
    /\ task' = [task EXCEPT ![h].pc = "startNew"]
    /\ UNCHANGED <<db, live, writes, calm, req>>

\* Fault: Start makes a new stop channel.
StartNew_Reopens(h) ==
    /\ task[h].pc = "startNew"
    /\ checker' = [checker EXCEPT ![task[h].new] = [running |-> TRUE, stopped |-> FALSE]]
    /\ task' = [task EXCEPT ![h].pc = "policies"]
    /\ UNCHANGED <<db, live, writes, calm, req>>

(* Start probes once and starts the loop, which ends on a closed channel.   *)
StartNew(h) ==
    /\ task[h].pc = "startNew"
    /\ checker' = [checker EXCEPT ![task[h].new].running = TRUE]
    /\ task' = [task EXCEPT ![h].pc = "policies"]
    /\ UNCHANGED <<db, live, writes, calm, req>>

\* Fault: the loop does not watch the stop channel.
LoopEnds_Deaf(g) == FALSE /\ UNCHANGED routingVars

LoopEnds(g) ==
    /\ checker[g].running /\ checker[g].stopped
    /\ checker' = [checker EXCEPT ![g].running = FALSE]
    /\ UNCHANGED <<db, live, task, writes, calm, req>>

\* Fault: the reload ends with the route table.
ReplacePolicies_Skipped(h) ==
    /\ task[h].pc = "policies"
    /\ task' = [task EXCEPT ![h] = NoTask]
    /\ UNCHANGED <<db, live, checker, writes, calm, req>>

(* accessMgr.Replace, the last swap of a reload.                            *)
ReplacePolicies(h) ==
    /\ task[h].pc = "policies"
    /\ live' = [live EXCEPT !.pols = task[h].snap.pols]
    /\ task' = [task EXCEPT ![h] = NoTask]
    /\ UNCHANGED <<db, checker, writes, calm, req>>

-----------------------------------------------------------------------------
(* The request, sent to one route at a time: Lookup of its access policy
   (checkAccess), the policy's verdict, Lookup of its schema (checkOpenAPI),
   the schema's verdict, and the proxy (Table.ServeHTTP).                   *)
LookupPolicy(r) ==
    /\ req.pc = "new" /\ live.routes[r] # None
    /\ req' = [req EXCEPT !.pc = "policy", !.pol = live.routes[r].pol]
    /\ UNCHANGED <<db, live, checker, task, writes, calm>>

(* checkAll and checkAny: an unmet rule denies or does not count, a secret
   asks for the form, a policy without rules allows.                        *)
checkAll(pol) == pol.rules \cap {"auth", "fail"} = {}
checkAny(pol) == pol.rules = {} \/ "pass" \in pol.rules

\* Fault: a policy the manager does not know admits.
Check_Unknown(p) == p = None \/ live.pols[p] = None \/ p \in req.cookies \/ checkAny(live.pols[p])

(* Manager.Check: no policy allows, an unknown one denies, then the client's
   clearance cookie for this policy counts before its rules.                *)
Check(p) ==
    \/ p = None
    \/ /\ live.pols[p] # None
       /\ \/ p \in req.cookies
          \/ IF live.pols[p].mode = "any" THEN checkAny(live.pols[p]) ELSE checkAll(live.pols[p])

CheckAccess ==
    /\ req.pc = "policy"
    /\ req' = [req EXCEPT !.pc = IF Check(req.pol) THEN "access" ELSE "denied",
                          !.loaded = IF req.pol = None THEN None ELSE live.pols[req.pol]]
    /\ UNCHANGED <<db, live, checker, task, writes, calm>>

(* VerifyForm looks at the secrets of the policy only; the modelled client
   knows them.                                                              *)
VerifyForm(p) == p # None /\ live.pols[p] # None /\ "auth" \in live.pols[p].rules

(* handleAccessPOST: a client that was turned away sends a secret and is given
   a cookie for the policy the table names by then; it asks again.          *)
handleAccessPOST(r) ==
    /\ req.pc = "denied"
    /\ live.routes[r] # None /\ VerifyForm(live.routes[r].pol)
    /\ req' = [req EXCEPT !.pc = "new", !.cookies = @ \cup {live.routes[r].pol}, !.pol = None, !.loaded = None]
    /\ UNCHANGED <<db, live, checker, task, writes, calm>>

LookupSchema(r) ==
    /\ req.pc = "access"
    /\ req' = [req EXCEPT !.pc = "schema",
                          !.sch = IF live.routes[r] = None THEN None ELSE live.routes[r].sch]
    /\ UNCHANGED <<db, live, checker, task, writes, calm>>

(* Manager.Validate: no schema accepts, a schema that is not loaded blocks. *)
ValidateBody(s) == s = None \/ (live.schs[s] # None /\ live.schs[s].mode \in {"accepts", "detects"})

CheckOpenAPI ==
    /\ req.pc = "schema"
    /\ req' = [req EXCEPT !.pc = IF ValidateBody(req.sch) THEN "openapi" ELSE "denied"]
    /\ UNCHANGED <<db, live, checker, task, writes, calm>>

(* The proxy of the route as the table has it now (or the fallback).        *)
ServeHTTP(r) ==
    /\ req.pc = "openapi"
    /\ req' = [req EXCEPT !.pc = "served"]
    /\ UNCHANGED <<db, live, checker, task, writes, calm>>

HandlerStep(h) ==
    \/ Exec(h)
    \/ ListUpstreams(h) \/ ListRoutes(h) \/ ListAccessPolicies(h) \/ ListAPISchemas(h)
    \/ ReplaceSchemas(h) \/ ReplaceTable(h) \/ StopOld(h) \/ StartNew(h) \/ ReplacePolicies(h)

Request(r) ==
    LookupPolicy(r) \/ CheckAccess \/ handleAccessPOST(r) \/ LookupSchema(r) \/ CheckOpenAPI \/ ServeHTTP(r)

RoutingNext ==
    \/ \E h \in Admin :
          \/ handleUpstreams(h) \/ handleRoutes(h) \/ handleAccessPolicies(h) \/ handleAPISchemas(h)
          \/ HandlerStep(h)
    \/ \E g \in Gen : LoopEnds(g)
    \/ \E r \in Route : Request(r)

(* An admin handler runs to its end and a checker's loop notices its closed
   channel; administrators and clients need not come.                       *)
RoutingSpec ==
    /\ RoutingInit /\ [][RoutingNext]_routingVars
    /\ \A h \in Admin : WF_routingVars(HandlerStep(h))
    /\ \A g \in Gen : WF_routingVars(LoopEnds(g))

-----------------------------------------------------------------------------
(* An admin write that was received: which table, row and new contents.     *)
Ops ==
    [table : {"ups"}, id : Upstream, row : UpstreamRow]
      \cup [table : {"routes"}, id : Route, row : RouteRow]
      \cup [table : {"pols"}, id : Policy, row : PolicyRows \cup {None}]
      \cup [table : {"schs"}, id : Schema, row : SchemaRows \cup {None}]

Phases ==
    {"idle", "write", "listUps", "listRoutes", "listPols", "listSchs", "schemas", "table", "stopOld",
     "startNew", "policies"}

Snap == [ups : [Upstream -> UpstreamRow] \cup {None}, routes : [Route -> RouteRow] \cup {None},
         pols : [Policy -> PolicyRows \cup {None}] \cup {None},
         schs : [Schema -> SchemaRows \cup {None}] \cup {None}]

RoutingTyped ==
    /\ db \in Tables
    /\ live \in [routes : [Route -> RouteRow], gen : Gen, pols : [Policy -> PolicyRows \cup {None}],
                 schs : [Schema -> SchemaRows \cup {None}]]
    /\ checker \in [Gen -> [running : BOOLEAN, stopped : BOOLEAN]]
    /\ task \in [Admin -> [pc : Phases, op : Ops \cup {None}, create : BOOLEAN, snap : Snap,
                             old : Gen, new : Gen]]
    /\ writes \in 0..MaxWrites
    /\ calm \in BOOLEAN
    /\ req \in [pc : {"new", "policy", "access", "schema", "openapi", "served", "denied"},
                cookies : SUBSET Policy, pol : Policy \cup {None}, sch : Schema \cup {None},
                loaded : PolicyRows \cup {None}]

(* A route never refers to an upstream, policy or schema that is gone, though
   the Store methods test the references in statements of their own and
   another administrator may delete the row between test and write.         *)
RefsIntact == \A r \in Route : db.routes[r] # None => RefsExist(db.routes[r])

(* Once every handler is done the proxy runs what the store holds, provided
   the last reload did not overlap another one and did not fail: the three
   swaps of one reload leave table, policies and schemas of one listing.    *)
SettledLive ==
    calm /\ NoReload =>
        /\ live.routes = Compile(db.ups, db.routes)
        /\ live.pols = db.pols
        /\ live.schs = db.schs

(* Between Replaces exactly the live table's health checkers run: however two
   Replaces interleave, a checker that was stopped before it was started does
   not stay, and the table in use is not left without its checkers.         *)
CheckersLive ==
    (\A h \in Admin : task[h].pc \notin {"stopOld", "startNew"}) =>
        \A g \in Gen : checker[g].running /\ ~checker[g].stopped <=> g = live.gen

(* A request is never served because its policy was not loaded: the table
   names a new policy before the policy manager has it, and keeps naming it
   when a reload fails half-way.                                            *)
FailClosed ==
    req.pc = "served" /\ req.pol # None =>
        /\ req.loaded # None
        /\ \/ req.pol \in req.cookies
           \/ req.loaded.rules = {}
           \/ "pass" \in req.loaded.rules

(* The checkers of superseded tables end.                                   *)
SupersededCheckersEnd == <>[](\A g \in Gen : checker[g].running => g = live.gen)
=============================================================================
