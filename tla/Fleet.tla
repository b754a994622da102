------------------------------- MODULE Fleet --------------------------------
(***************************************************************************)
(* The desired state of the fleet's proxies: how the hub builds, numbers,  *)
(* stores and pushes it (admin/api, admin/store), how an agent receives,   *)
(* saves and applies it (agentprotocol, cmd/ravenguard), and the migration *)
(* of routes from one proxy to another.                                    *)
(*                                                                         *)
(* An admin request is a list of steps, one per statement of the store or  *)
(* call to an agent.  An agent handles every request in a goroutine of its *)
(* own and compares no revisions.  A session is either up or gone: how it  *)
(* is made and replaced is AgentHub's business.                            *)
(***************************************************************************)
EXTENDS Naturals, Sequences, SequencesExt

CONSTANTS
    Proxy,      \* enrolled proxies
    From, To,   \* source and destination of the migration
    Route,      \* the routes it moves
    Worker,     \* admin requests in flight
    MaxOps,     \* bound on the admin requests
    MaxCfg,     \* bound on the saves of the fleet's defaults
    MaxFaults,  \* bound on faults: crashes, dropped links, time-outs, failed statements, writes and applies
    None

ASSUME FleetAssumption == {From, To} \subseteq Proxy /\ From # To /\ None \notin Worker /\ IsFiniteSet(Route)

VARIABLES
    defaults,   \* fleet_defaults.safe_config; 0 is an empty one
    owner,      \* routes.proxy_id
    row,        \* proxies.desired_revision and desired_json
    phase,      \* service_migrations.phase
    task,       \* the admin requests
    link,       \* proxies with a session in the registry
    ready,      \* the hub's OnReady goroutine for a new session
    jobs,       \* requests under way to an agent or being handled by it
    saved,      \* desired_state.json in the agent's data directory
    live,       \* what the agent runs with
    ops, faults, \* bounded counters
    overlap,    \* history: two admin requests have run at the same time
    pushed,     \* history: a proxy was pushed in the midst of a migration
    slipped,    \* history: a statement of the store failed and the request went on
    tangled,    \* history: since a state last went through by itself, one met another at
                \* the agent, was old, was not sent or failed to apply
    unsaved     \* history: the agent's last write of its file failed

hub == <<defaults, owner, row, phase>>
agent == <<saved, live, unsaved>>
history == <<overlap, pushed, slipped, tangled>>
vars == <<hub, task, link, ready, jobs, agent, ops, faults, history>>

DesiredState == [rev : Nat, cfg : Nat, routes : SUBSET Route]
NoState == [rev |-> 0, cfg |-> 0, routes |-> {}]

Idle == [todo |-> <<>>, s |-> NoState, waits |-> FALSE]
NotReady == [pc |-> "none", s |-> NoState]

(* A connected fleet: the source has been pushed its routes, the destination
   nothing yet.                                                             *)
First == [rev |-> 1, cfg |-> 0, routes |-> Route]

Init ==
    /\ defaults = 0
    /\ owner = [r \in Route |-> From]
    /\ row = [p \in Proxy |-> IF p = From THEN First ELSE NoState]
    /\ phase = "none"
    /\ task = [w \in Worker |-> Idle]
    /\ link = Proxy
    /\ ready = [p \in Proxy |-> NotReady]
    /\ jobs = [p \in Proxy |-> {}]
    /\ saved = row
    /\ live = [p \in Proxy |-> [cfg |-> 0, routes |-> row[p].routes]]
    /\ ops = 0 /\ faults = 0
    /\ overlap = FALSE /\ pushed = FALSE /\ slipped = FALSE
    /\ tangled = [p \in Proxy |-> FALSE]
    /\ unsaved = [p \in Proxy |-> FALSE]

-----------------------------------------------------------------------------
(* The admin requests as lists of steps                                     *)

(* Whether an error of the step ends the request or is ignored.             *)
Step(do, p, must) == [do |-> do, p |-> p, must |-> must]

pushDesired(p, must) ==
    <<Step("build", p, must), Step("set", p, must), Step("send", p, must)>>

Moves(p, must) ==
    [i \in 1..Len(SetToSeq(Route)) |-> [do |-> "move", p |-> p, r |-> SetToSeq(Route)[i], must |-> must]]

(* The destination's state with the migrating routes added, while the store
   assigns them to the source.                                              *)
stageRoutesOnDest ==
    <<Step("build", To, TRUE), Step("add", To, TRUE), Step("set", To, TRUE), Step("send", To, TRUE)>>

migrationPrep ==
    Moves(To, TRUE) \o pushDesired(To, TRUE) \o pushDesired(From, FALSE)
      \o Moves(From, FALSE) \o stageRoutesOnDest \o <<Step("prepared", None, TRUE)>>

migrationComplete ==
    Moves(To, TRUE) \o pushDesired(To, TRUE) \o pushDesired(From, TRUE) \o <<Step("completed", None, TRUE)>>

\* Fault: the source is not pushed again.
migrationAbort_NoSource ==
    Moves(From, FALSE) \o pushDesired(To, FALSE) \o <<Step("aborted", None, TRUE)>>

migrationAbort ==
    Moves(From, FALSE) \o pushDesired(From, FALSE) \o pushDesired(To, FALSE) \o <<Step("aborted", None, TRUE)>>

Fault == faults < MaxFaults /\ faults' = faults + 1

Busy(w) == task[w].todo # <<>>

Begin(w, program) ==
    /\ ~Busy(w) /\ ops < MaxOps
    /\ ops' = ops + 1
    /\ task' = [task EXCEPT ![w] = [Idle EXCEPT !.todo = program]]
    /\ overlap' = (overlap \/ \E v \in Worker : Busy(v))
    /\ UNCHANGED <<link, ready, jobs, agent, faults, slipped, tangled>>

(* Bound: a migration's request has the admin API for itself, pushes overlap
   one another.                                                             *)
Alone == \A w \in Worker : ~Busy(w)
Migrating(w) == Busy(w) /\ Last(task[w].todo).do # "send"

(* POST /proxies/ID/push.                                                   *)
handleProxyPush(w, p) ==
    /\ \A v \in Worker : ~Migrating(v)
    /\ Begin(w, pushDesired(p, TRUE))
    /\ pushed' = (pushed \/ phase \notin {"none", "completed"})
    /\ UNCHANGED hub

CreateServiceMigration == phase = "none" /\ phase' = "created"

(* POST /migrations.                                                        *)
handleMigrations ==
    /\ Alone
    /\ CreateServiceMigration
    /\ UNCHANGED <<defaults, owner, row, task, link, ready, jobs, agent, ops, faults, history>>

(* POST /migrations/ID/ACTION: the phase is read once, at the start.        *)
handleMigrationID(w) ==
    /\ Alone
    /\ \/ phase \in {"created", "aborted"} /\ Begin(w, migrationPrep)
       \/ phase = "prepared" /\ Begin(w, migrationComplete)
       \/ phase \notin {"none", "completed"} /\ Begin(w, migrationAbort)
    /\ UNCHANGED <<hub, pushed>>

(* PUT /config stores the fleet's new defaults.                             *)
SetFleetDefaults ==
    /\ defaults < MaxCfg
    /\ defaults' = defaults + 1
    /\ UNCHANGED <<owner, row, phase, task, link, ready, jobs, agent, ops, faults, history>>

-----------------------------------------------------------------------------
(* The steps of a request                                                   *)
At(w, do) == Busy(w) /\ Head(task[w].todo).do = do /\ ~task[w].waits

(* The proxy the request is dealing with.                                   *)
Dest(w) == Head(task[w].todo).p

Resume(w, todo, s) ==
    [task EXCEPT ![w] = IF todo = <<>> THEN Idle ELSE [todo |-> todo, s |-> s, waits |-> FALSE]]

Continue(w, s) == Resume(w, Tail(task[w].todo), s)

(* What is left to do after the call that the next step belongs to.         *)
AfterCall(todo) ==
    CASE Head(todo).do = "build" -> Tail(Tail(Tail(todo)))
      [] Head(todo).do = "set" -> Tail(Tail(todo))
      [] OTHER -> Tail(todo)

(* A step that failed ends the request, unless its error is ignored: then it
   ends the call.                                                           *)
Failed(w) ==
    IF Head(task[w].todo).must THEN [task EXCEPT ![w] = Idle]
    ELSE Resume(w, AfterCall(task[w].todo), task[w].s)

\* Fault: the revision that is stored is used again.
NextDesiredRevision_Same(p) == row[p].rev

NextDesiredRevision(p) == row[p].rev + 1

ListRoutesForProxy(p) == {r \in Route : owner[r] = p}

(* The fleet's defaults, or none when they cannot be read: the error is
   ignored.                                                                 *)
GetFleetDefaults(cfg) ==
    \/ cfg = defaults /\ UNCHANGED faults
    \/ cfg = 0 /\ Fault

(* The queries of one build are taken as one: what lies between them is an
   admin's edit that the next push picks up.                                *)
BuildDesiredState(w) ==
    /\ At(w, "build")
    /\ \E cfg \in {defaults, 0} :
        /\ GetFleetDefaults(cfg)
        /\ task' = Continue(w, [rev |-> NextDesiredRevision(Dest(w)), cfg |-> cfg,
                                routes |-> ListRoutesForProxy(Dest(w))])
    /\ UNCHANGED <<hub, link, ready, jobs, agent, ops, history>>

(* stageRoutesOnDest puts the migrating routes in and takes the next revision
   again.                                                                   *)
AddExtra(w) ==
    /\ At(w, "add")
    /\ task' = Continue(w, [task[w].s EXCEPT !.routes = Route, !.rev = NextDesiredRevision(Dest(w))])
    /\ UNCHANGED <<hub, link, ready, jobs, agent, ops, faults, history>>

(* The UPDATE compares no revision with the one the row has.                *)
SetDesiredState(w) ==
    /\ At(w, "set")
    /\ row' = [row EXCEPT ![Dest(w)] = task[w].s]
    /\ task' = Continue(w, task[w].s)
    /\ UNCHANGED <<defaults, owner, phase, link, ready, jobs, agent, ops, faults, history>>

Met(js) == {[j EXCEPT !.met = TRUE] : j \in js}

(* A request goes out on the session of p.                                  *)
Sent(p, s, by) ==
    /\ LET met == jobs[p] # {} \/ s # row[p]
       IN  /\ jobs' = [jobs EXCEPT ![p] = Met(@) \cup {[pc |-> "wire", s |-> s, by |-> by, met |-> met]}]
           /\ tangled' = [tangled EXCEPT ![p] = @ \/ met]

(* A proxy without a session is offline, and never taken for the hub itself. *)
targetFor(p) == IF p \in link THEN "remote" ELSE "offline"

ApplyDesired(w) ==
    /\ At(w, "send")
    /\ \/ /\ targetFor(Dest(w)) = "remote"
          /\ Sent(Dest(w), task[w].s, w)
          /\ task' = [task EXCEPT ![w].waits = TRUE]
       \/ /\ targetFor(Dest(w)) = "offline"
          /\ task' = Failed(w)
          /\ UNCHANGED <<jobs, tangled>>
    /\ UNCHANGED <<hub, link, ready, agent, ops, faults, overlap, pushed, slipped>>

(* The call's session has closed, or it times out and what was sent goes its
   way.                                                                     *)
CallFails(w) ==
    /\ task[w].waits
    /\ task' = Failed(w)
    /\ \/ /\ \A j \in jobs[Dest(w)] : j.by # w
          /\ UNCHANGED <<jobs, faults>>
       \/ /\ \E j \in jobs[Dest(w)] : j.by = w
          /\ jobs' = [jobs EXCEPT ![Dest(w)] = {IF j.by = w THEN [j EXCEPT !.by = None] ELSE j : j \in @}]
          /\ Fault
    /\ UNCHANGED <<hub, link, ready, agent, ops, history>>

SetRouteProxy(w) ==
    /\ At(w, "move")
    /\ owner' = [owner EXCEPT ![Head(task[w].todo).r] = Dest(w)]
    /\ task' = Continue(w, task[w].s)
    /\ UNCHANGED <<defaults, row, phase, link, ready, jobs, agent, ops, faults, history>>

UpdateServiceMigration(w) ==
    /\ \E ph \in {"prepared", "completed", "aborted"} : At(w, ph) /\ phase' = ph
    /\ task' = Continue(w, task[w].s)
    /\ UNCHANGED <<defaults, owner, row, link, ready, jobs, agent, ops, faults, history>>

(* A statement of the store fails: a query of the build, an UPDATE of the
   row, of a route or of the migration.                                     *)
StoreFails(w) ==
    /\ \E do \in {"build", "set", "move", "prepared", "completed", "aborted"} : At(w, do)
    /\ task' = Failed(w)
    /\ slipped' = (slipped \/ ~Head(task[w].todo).must)
    /\ Fault
    /\ UNCHANGED <<hub, link, ready, jobs, agent, ops, overlap, pushed, tangled>>

-----------------------------------------------------------------------------
(* Sessions                                                                 *)

(* connectOnce on the agent's side, Put and go OnReady on the hub's.        *)
connectOnce(p) ==
    /\ p \notin link
    /\ link' = link \cup {p}
    /\ ready' = [ready EXCEPT ![p] = [pc |-> "read", s |-> NoState]]
    /\ UNCHANGED <<hub, task, jobs, agent, ops, faults, history>>

\* Fault: only a proxy that has been pushed more than once is told.
OnReady_Late(p) ==
    /\ ready[p].pc = "read"
    /\ ready' = [ready EXCEPT ![p] = IF row[p].rev < 2 THEN NotReady ELSE [pc |-> "send", s |-> row[p]]]
    /\ UNCHANGED <<hub, task, link, jobs, agent, ops, faults, history>>

(* The hub reads the row, and sends nothing when it cannot.                 *)
OnReady(p) ==
    /\ ready[p].pc = "read"
    /\ \/ /\ ready' = [ready EXCEPT ![p] = IF row[p].rev = 0 THEN NotReady ELSE [pc |-> "send", s |-> row[p]]]
          /\ UNCHANGED <<jobs, faults, tangled>>
       \/ /\ ready' = [ready EXCEPT ![p] = NotReady]
          /\ jobs' = [jobs EXCEPT ![p] = Met(@)]
          /\ tangled' = [tangled EXCEPT ![p] = TRUE]
          /\ Fault
    /\ UNCHANGED <<hub, task, link, agent, ops, overlap, pushed, slipped>>

OnReadyCall(p) ==
    /\ ready[p].pc = "send"
    /\ Sent(p, ready[p].s, None)
    /\ ready' = [ready EXCEPT ![p] = NotReady]
    /\ UNCHANGED <<hub, task, link, agent, ops, faults, overlap, pushed, slipped>>

(* The agent's heartbeat; the hub changes nothing.                          *)
Heartbeat(p) == p \in link /\ UNCHANGED vars

(* What an agent has not read is lost with the connection, and what it has
   read is answered to nobody.                                              *)
Unanswered(js) == {[j EXCEPT !.by = None] : j \in {i \in js : i.pc # "wire"}}

LinkDown(p) ==
    /\ p \in link /\ Fault
    /\ link' = link \ {p}
    /\ ready' = [ready EXCEPT ![p] = NotReady]
    /\ jobs' = [jobs EXCEPT ![p] = Unanswered(@)]
    /\ UNCHANGED <<hub, task, agent, ops, history>>

HubCrash ==
    /\ Fault
    /\ task' = [w \in Worker |-> Idle]
    /\ link' = {}
    /\ ready' = [p \in Proxy |-> NotReady]
    /\ jobs' = [p \in Proxy |-> Unanswered(jobs[p])]
    /\ UNCHANGED <<hub, agent, ops, history>>

-----------------------------------------------------------------------------
(* The agent                                                                *)
Advance(p, j, pc) == jobs' = [jobs EXCEPT ![p] = (@ \ {j}) \cup {[j EXCEPT !.pc = pc]}]

(* The read loop starts a goroutine for the request.                        *)
handleRequest(p, j) ==
    /\ j.pc = "wire" /\ p \in link
    /\ Advance(p, j, "save")
    /\ UNCHANGED <<hub, task, link, ready, agent, ops, faults, history>>

\* Fault: a file that exists already is left as it is.
SaveDesiredState_Once(p, j) ==
    /\ j.pc = "save"
    /\ saved' = IF saved[p].rev = 0 THEN [saved EXCEPT ![p] = j.s] ELSE saved
    /\ unsaved' = [unsaved EXCEPT ![p] = FALSE]
    /\ Advance(p, j, "apply")
    /\ UNCHANGED <<hub, task, link, ready, live, ops, faults, history>>

(* Written beside the old file and renamed over it; two goroutines use the
   same name, and the file may come out unreadable.  An error is logged.    *)
SaveDesiredState(p, j) ==
    /\ j.pc = "save"
    /\ \/ saved' = [saved EXCEPT ![p] = j.s] /\ unsaved' = [unsaved EXCEPT ![p] = FALSE] /\ UNCHANGED faults
       \/ UNCHANGED saved /\ unsaved' = [unsaved EXCEPT ![p] = TRUE] /\ Fault
       \/ /\ \E i \in jobs[p] \ {j} : i.pc = "save"
          /\ saved' = [saved EXCEPT ![p] = NoState] /\ unsaved' = [unsaved EXCEPT ![p] = TRUE] /\ UNCHANGED faults
    /\ Advance(p, j, "apply")
    /\ UNCHANGED <<hub, task, link, ready, live, ops, history>>

ApplySafeConfig(l, s) == IF s.cfg = 0 THEN l ELSE [l EXCEPT !.cfg = s.cfg]

applyRoutingSnapshot(l, s) == [l EXCEPT !.routes = s.routes]

Applied(l, s) == applyRoutingSnapshot(ApplySafeConfig(l, s), s)

(* What a state that fails to apply leaves: the configuration is refused, or
   the routes cannot be built here (a missing CA file).                     *)
Refused(l, s) == {l, ApplySafeConfig(l, s)}

(* The answer finds the call that waits for it, or nobody.                  *)
deliver(j, ok) ==
    CASE j.by = None -> task
      [] j.by # None /\ ok -> Continue(j.by, task[j.by].s)
      [] j.by # None /\ ~ok -> Failed(j.by)

(* The configuration, then the routes; the goroutine is done, and a caller
   that still waits gets its answer.  The file has been written by now.     *)
applyDesired(p, j) ==
    /\ j.pc = "apply"
    /\ \/ /\ live' = [live EXCEPT ![p] = Applied(@, j.s)]
          /\ tangled' = [tangled EXCEPT ![p] = @ /\ j.met]
          /\ task' = deliver(j, TRUE)
          /\ UNCHANGED faults
       \/ /\ \E l \in Refused(live[p], j.s) : live' = [live EXCEPT ![p] = l]
          /\ tangled' = [tangled EXCEPT ![p] = TRUE]
          /\ task' = deliver(j, FALSE)
          /\ Fault
    /\ jobs' = [jobs EXCEPT ![p] = @ \ {j}]
    /\ UNCHANGED <<hub, link, ready, saved, unsaved, ops, overlap, pushed, slipped>>

(* Without a file (or with one that cannot be read) nothing is applied.     *)
NoLive == [cfg |-> 0, routes |-> {}]
LoadDesiredStateOptional(s) == Applied(NoLive, s)

(* The agent's process starts again with what it saved, if that applies.    *)
AgentCrash(p) ==
    /\ Fault
    /\ link' = link \ {p}
    /\ ready' = [ready EXCEPT ![p] = NotReady]
    /\ jobs' = [jobs EXCEPT ![p] = {}]
    /\ \/ /\ live' = [live EXCEPT ![p] = LoadDesiredStateOptional(saved[p])]
          /\ UNCHANGED tangled
       \/ /\ \E l \in Refused(NoLive, saved[p]) : live' = [live EXCEPT ![p] = l]
          /\ tangled' = [tangled EXCEPT ![p] = TRUE]
    /\ UNCHANGED <<hub, task, saved, unsaved, ops, overlap, pushed, slipped>>

-----------------------------------------------------------------------------
Request(w) ==
    \/ \E p \in Proxy : handleProxyPush(w, p)
    \/ handleMigrationID(w)
    \/ BuildDesiredState(w) \/ AddExtra(w) \/ SetDesiredState(w)
    \/ ApplyDesired(w) \/ CallFails(w)
    \/ SetRouteProxy(w) \/ UpdateServiceMigration(w) \/ StoreFails(w)

Agent(p) ==
    \/ connectOnce(p) \/ OnReady(p) \/ OnReadyCall(p) \/ Heartbeat(p)
    \/ LinkDown(p) \/ AgentCrash(p)
    \/ \E j \in jobs[p] :
        handleRequest(p, j) \/ SaveDesiredState(p, j) \/ applyDesired(p, j)

Next ==
    \/ handleMigrations \/ SetFleetDefaults \/ HubCrash
    \/ \E w \in Worker : Request(w)
    \/ \E p \in Proxy : Agent(p)

Spec == Init /\ [][Next]_vars

-----------------------------------------------------------------------------
(* A state without a configuration leaves the agent's alone.                *)
Same(l, s) == (s.cfg # 0 => l.cfg = s.cfg) /\ l.routes = s.routes

Underway(p) ==
    \/ jobs[p] # {} \/ ready[p].pc # "none"
    \/ \E w \in Worker : Busy(w) /\ Head(task[w].todo).do = "send" /\ Dest(w) = p

(* A connected proxy to which nothing is under way runs the state in its row,
   after crashes, lost links, failed calls and failed statements, unless a
   state sent to it met another one there, was no longer the row's (the agent
   compares no revisions), could not be read for it or failed to apply, until
   the next one that goes through by itself.                                *)
Converged ==
    \A p \in Proxy : p \in link /\ ~Underway(p) /\ ~tangled[p] => Same(live[p], row[p])

(* The file of a proxy is what it runs, however requests overlapped, so that
   it comes up with that without the hub; unless the file could not be
   written or the last state did not go through by itself.                  *)
ColdStart ==
    \A p \in Proxy : jobs[p] = {} /\ ~tangled[p] /\ ~unsaved[p] => Same(live[p], saved[p])

(* While requests do not overlap, a revision names one state wherever it is:
   in the row, on the way, in a goroutine or in the agent's file.           *)
Known(p) == {row[p], saved[p]} \cup {j.s : j \in jobs[p]} \cup (IF ready[p].pc = "send" THEN {ready[p].s} ELSE {})

RevisionNamesState ==
    ~overlap => \A p \in Proxy : \A s, t \in Known(p) : s.rev = t.rev => s = t

(* A migration that fails, is aborted or dies with the hub at any step leaves
   every route in some proxy's state; when it has completed, in that of the
   destination alone.  A push in its midst, a second request or an error of
   the store that it ignores can take a route out of both.                  *)
RouteKept ==
    ~overlap /\ ~pushed /\ ~slipped => \A r \in Route :
        /\ \E p \in Proxy : r \in row[p].routes
        /\ phase = "completed" /\ (\A w \in Worker : ~Busy(w)) =>
               r \in row[To].routes /\ r \notin row[From].routes /\ owner[r] = To
=============================================================================
