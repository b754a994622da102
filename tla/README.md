# RavenGuard in TLA+

RavenGuard is a reverse proxy and web application firewall written in Go. This
directory holds TLA+ models of its core, TLC configurations that check them on
small instances, and TLAPS proofs of the properties that matter most.
`PROJECT.json` lists components, runs, theorems, hazards and the source lines
behind every definition.

    tlc -config GuardSlots_race.cfg MCGuardSlots      # one run
    tlapm GuardProofs.tla                             # one module's proofs

## 1. The system

A request is served by `pipeline.Handler.guard`. It resolves the client to a
*bind key* (a privacy hash of its address), then goes through a fixed sequence of
checks, most of which may answer and return: size limits, ban, concurrency slot,
block lists, fleet overlay and feeds, trap paths, upstream health, Coraza, attack
signatures, semantic and ML engines, three token buckets, the clearance an upgrade
needs, behaviour and heuristics, missing-page and penalty trackers, the browser
challenge, the access policy, the OpenAPI gate, the upstream.

| Component | State | Operations | Interacts with | What makes it correct |
|---|---|---|---|---|
| protect: ledger | per key: strikes, bans, banned-until; a pool of entries; live settings | Strike, Banned, BanNow, BanUntil, Unban, Sweep, UpdateConfig | every check of guard, honeypots, fleet threats, admin | a ban lasts; strikes and bans agree; no client inherits another's entry; repeat offenders are remembered |
| protect: slots | a global count, a map of counters per client | Acquire, Release, Sweep | guard (deferred Release) | counts are exact, limits hold, nothing leaks |
| ratelimit | buckets per client and path | AllowN, Sweep, Update | guard (client, subnet, global) | no client spends more than burst plus refill |
| challenge | used nonces, risk cache, settings | IssueChallenge, VerifyPayload, ConsumeNonce, Remember/TakeChallenge, sweeps, ClearanceCookie | four handlers of the pipeline, captcha providers | a token is redeemed once; failures escalate |
| pipeline | settings, pointers to everything else | guard and the challenge handlers, ApplyConfig | all of the above | what a gate refuses does not reach an upstream; what is denied is on record |
| router, health | compiled routes, a health bit per upstream | Replace, Lookup, ServeHTTP, Start/Stop | pipeline, admin | one consistent route per question |
| detect trackers | per key: windows of missing pages, penalties, behaviour | Record, Exceeded, Score, Sweep | guard, proxy | a window counts what happened in it |
| requestlog | a ring of events, an index, counters, a database | Record, GetByID, TakeInterval, purge | every denial, admin | every denial can be looked up |
| agentprotocol | sessions, pending calls, connection state | connect, handshake, RPC, Replace, Close | hub and proxies of a fleet | one live session per proxy; no answer for the wrong call |
| threatshare | overlay, queue of reports, ledger revisions | Report, Apply, Pull, Sweep | hub, proxies, ledger of bans | what one proxy bans, the others learn |
| admin store and API | SQLite tables | sessions, tokens, desired state, threats | fleet, UI | revocation is final; revisions grow |
| admin ops | the live configuration | ApplySafeConfig | protect, limiter, challenge, engines, pipeline | settings arrive everywhere |
| access | policies, cookies | Check, VerifyForm, IssueCookie | pipeline | a policy cannot be passed by |
| notify, qfeeds, block lists | queue, snapshot, sets | Notify, reload, ApplyConfig | pipeline | nothing is lost or blocked for ever |
| the rest | (see `PROJECT.json`) | start-up, rendering, parsing, crypto | | |

### What is hard here

* Almost every operation reads the clock and the live settings *before* it takes
  the lock of the shard it changes, so updates are applied out of order.
* The slots use no lock at all: an atomic count and a `sync.Map` of atomic
  counters that a sweeper unlinks while requests hold pointers to them.
* The challenge handlers read a cache, decide, and write it back in another
  critical section.
* `guard` works with a copy of the configuration made at the start, with fields it
  reads when it gets to them, and with a route it looks up four times; an operator
  may change any of them in between.
* Ban escalation multiplies a 64-bit duration by a power of two.
* In a fleet, connections are replaced, answers are late, reports are lost, and an
  agent handles every request in a goroutine of its own without comparing revisions.
* The admin API locks nothing: a handler is one SQL statement after another and then a
  reload of live copies, and the handlers of two administrators interleave.
* Configuration lives in a file, in the environment, in an overrides blob of the store
  and in several live components, each with its own idea of what a zero means.

Each of these is listed in `PROJECT.json` under `hazards`, at its line, with the
properties that would catch it going wrong.

## 2. Modules

| Module | Models | Checked by | Proofs |
|---|---|---|---|
| `BanLedger` | `internal/protect`: the ledger | `MCBanLedger` | `GuardProofs` |
| `BanDuration` | `banTTLWithEscalation` in 64-bit arithmetic | `MCBanLedger` | |
| `GuardSlots` | `internal/protect`: Acquire, Release, counters | `MCGuardSlots` | `GuardProofs` |
| `RateLimiter` | `internal/ratelimit` | `MCRateLimiter` | `RateLimiterProofs` |
| `Challenge` | `internal/challenge` and its handlers | `MCChallenge` | `ChallengeProofs` |
| `Trackers` | `internal/detect`: missing pages, penalties, behaviour | `MCLiveConfig` | `ChallengeProofs` |
| `RequestGuard` | `pipeline.Handler.guard`, live reconfiguration, route table | `MCRequestGuard` | `RequestGuardProofs` |
| `Routing` | routes, upstreams, policies and schemas: store, reload, live copies, health checkers, a request's three look-ups | `MCRouting` | `RoutingProofs` |
| `AdminAuth` | users, roles, sessions, API tokens, login lockout | `MCAdminAuth` | `AdminProofs` |
| `LiveConfig` | layered loading, what start-up builds, live changes, overrides across restarts | `MCLiveConfig` | `AdminProofs` |
| `Lists` | `internal/blocklist`: overlay and source files, edits, reload | `MCLists` | `RoutingProofs` |
| `AgentHub` | `internal/agentprotocol`: the hub's handlers and registry; `internal/admin/store`: tokens and fingerprints | `MCAgentHub` | `HubProofs` |
| `SessionRegistry` | what the registry of sessions promises (abstract) | as a property of `AgentHub` | refinement in `HubProofs` |
| `Fleet` | desired state from hub to agent, calls and answers, migration of routes | `MCFleet` | `FleetProofs` |
| `ThreatShare` | the hub's threat ledger, fan-out and pull, overlay and reporter of a proxy | `MCThreatShare` | `HubProofs` |

Operators whose name ends in `_Something` and whose comment starts with "Fault:"
are mutated forms of the definition that follows them. No specification uses them;
they show that each property would notice that bug.

**BanLedger.** `ents` is the map of a shard, `pool` the `sync.Pool` of entries (what
they were left holding), `call` the operation each goroutine is in. A call is
two or three steps: load the settings, read the clock, then the part under the
mutex. The 64 shards serialise calls on the same key; a key stands for its
shard. Time 0 is Go's zero time.

**BanDuration.** The product `BanTTL * (1 << shift)` as mantissa and exponent, wrapped
to 64 bits. It has no state; `MCBanLedger` checks it beside the ledger.

**GuardSlots.** One step per atomic operation. A counter is a heap cell, so a
goroutine can hold a pointer to one that is no longer in the map.

**RateLimiter.** Tokens are integers in units in which the refill is whole. A
goroutine may wait up to `MaxLag` between its clock and the mutex, so `elapsed` may
be negative. The charge of the client's bucket and of the path's bucket are one
critical section, as in the code.

**Challenge.** Tokens with nonce, owner, expiry and gate; the used-nonce map and the
risk cache with a lock each. Signatures and proofs of work are abstracted to a
right solution, a wrong one, or a forgery.

**Trackers.** One entry per client and tracker, for a window that begins with the first
event. Every method reads the clock before it waits for the mutex and so carries a time up
to `MaxLate` old. A request asks the trackers, is let through or refused, and its answer is
recorded when it comes. `log` is a history variable: what each tracker let through in the
window it had begun. `MCLiveConfig` runs either `LiveConfig` or `Trackers` (`focus`):
no save reaches what the trackers were built with, so nothing is lost by not interleaving them.

**RequestGuard.** A request is a record of what it is (client, transport, what it
matches, its own score); one action per check of `guard`, in the order of the code.
`conf` is the copy guard makes, `cfg` what fields and components hold now, `mgr`
whether the process started with a challenge manager. What belongs to other modules
(is there a slot, is the bucket empty, did a tracker trip, is the upstream healthy)
is a free choice, so every combination is covered. `ApplySafeConfig` and `ApplyConfig`
are the two halves of a live change: guard and engines first, the pipeline last.

**Routing.** `db` holds the four tables, `live` the three copies the proxy uses, `checker`
the health checkers of every generation of the route table. An admin request tests its
references, writes, lists the four tables one statement after the other, and swaps
schemas, routes and policies in this order; stopping the old checkers and starting the new
ones are steps of their own. `req` asks for its policy, its schema and its proxy at three
moments. `calm` remembers that reloads neither overlapped nor failed.

**AdminAuth.** Three tables and the lockout's counts. A handler resolves its actor once,
then runs one statement after another; a login checks the lock, hashes, and counts or
clears. `granted` and `raced` are history: who was made owner by an owner, and whether two
changes of users overlapped.

**LiveConfig.** `source` is file, environment and flags; `proc` the running process (the
configuration shown by the API and what guard, limiter, manager, engines, pipeline and feeds
were last told) or none; `overrides` and `defaults` the stored blobs. Each setting stands for
the many that are treated alike, see the head of the module. A save replaces the live
configuration and writes the blobs in separate steps, and the process may stop between any
two of them.

**Lists.** Overlay files belong to the panel, source files to the operator. An admin request
is a list of edits, each a read, a write and a reload; the reload timer does the last part
alone. Opening a file for writing empties it, so a reader may meet an empty file.

**AgentHub.** A connection, its handler goroutine and its session share one name, used
again after the handler has returned. `pc` walks through `HandleConnect`: token look-up,
handshake, the SELECT and the UPDATE of `BindFingerprint`, `Registry.Put` under the mutex
with the two steps of `Session.Close` on the session it replaces, the read loop, and the
deferred `Remove` and `Close`. `closes` counts how often a session's channel was closed
(twice is a panic); `holders` is a history variable. An error of the store ends the
handler as a refusal does. What travels over an established connection is in `Fleet` and
`ThreatShare`.

**SessionRegistry.** Three variables: the session of each proxy, the closed sessions, the
sessions whose connection is down. A session joins over nothing or over a closed one and
leaves only when its connection is down.

**Fleet.** An admin request is a list of steps, one per statement or call. `row` is what the
hub stored for a proxy, `jobs` what is on its way to the agent or being handled there,
`saved` the agent's file, `live` what it runs with. Faults are crashes of hub or agent,
dropped links, calls that time out although the agent carries on, and failed writes.

**ThreatShare.** Entries with a revision, a key and an expiry. `stored`, `calls` and `wire`
are the three stages of a fan-out, which nothing orders; `pull` is the one request with
which a connection catches up. A proxy forgets everything in a restart, the hub nothing.
The queue of reports, the ids a proxy remembers, the ledger and the size of a pull have
their limits.

How the modules meet. `RequestGuard` leaves to free choice what `BanLedger`, `GuardSlots`,
`RateLimiter`, `Trackers` and `Challenge` decide. `LiveConfig` decides which settings they get.
`Fleet` and `ThreatShare` see a session as up or gone, which is what `SessionRegistry`
promises them of `AgentHub`. `Fleet` hands an agent the routes that `Routing` then serves.

## 3. Runs

| Run | Question | What it shows |
|---|---|---|
| `ban_race` | Two goroutines strike, ban and query one client with stale clocks and settings while the operator unbans and reconfigures and the sweeper runs. | Strikes and bans agree; a running ban ends early only by an unban or a newer ban or strike on the same client; an entry from the pool starts clean; the number of bans is remembered. Ban times in Go's 64-bit arithmetic are those of the integers up to 23 doublings of ten minutes. |
| `slots_race` | Three requests of two clients in `Acquire` and `Release`, with a sweep. | The global count is exact and within its limit at every step; a client's counter too, until the first sweep; no counter ever serves two clients. |
| `limiter_race` | Two goroutines charge one client with clocks applied out of order; per-path mode is switched on and off; a sweep drops buckets. | Nobody spends more than burst plus refill, and a bucket's debt is bounded by the lag. |
| `challenge_tokens` | Two handlers of one client issue, redeem and fail in every mode while the sweeper drops expired nonces and risks. | A token is redeemed once, if a goroutine reaches the lock within the second in which it read the clock; a failed attempt makes the following challenges interactive while handlers do not overlap. |
| `guard_live` | Every kind of request in `guard` while configurations and two route tables alternate. | What clearance, access policy, lists, traps and signatures refuse reaches no upstream as long as the setting has held since the request came; every denial is on record. |
| `routing_live` | Two administrators write rows and reload while a request is routed. | References stay intact; an undisturbed reload leaves the live copies equal to the store; exactly the live table's health checkers run and superseded ones end; a policy that is not loaded admits nobody. |
| `auth_users` | Logins, sessions, tokens and changes of users by two admin requests. | Only owners make owners; an owner remains while changes do not overlap; guesses at a locked name are bounded by the lock and the logins in flight; a new password revokes the sessions of the old one. |
| `config_restart` | Overlapping saves of settings, feeds and appearance over crashes, restarts and edited files. Apart from that, one client against the trackers. | Components run with the configuration shown unless an upload put back an old one; an edge behind a proxy has proxies; saves that did not overlap come up again; a tracker that refuses lets through at most its threshold and what was in flight when the window began and, for behaviour, when it ended. |
| `lists_reload` | Two admin requests, the reload timer and an operator on the same files, with refused lines, failed opens and a file that is moved away. | The live list comes to agree with the files; a request that ran alone loses no line. |
| `hub_sessions` | Two connections of two machines dial in, bind, replace each other and drop, while the operator enrols, rotates and deletes two proxies. | No session is closed twice; a session over a live connection is the one the registry finds, and it finds no closed one; one machine per token; `SessionRegistry` is implemented; a dead session leaves. |
| `fleet_desired` | A migration and overlapping pushes over a dropped link, a crash, a call that times out or a failed write. | A connected proxy that is left alone runs its row; it restarts with what it ran; a revision names one state; no step of a migration loses a route. |
| `threat_share` | Reports, bans of an administrator and feeds are stored and fanned out while a proxy connects, pulls, drops or restarts, with every limit in reach. | No entry falls between pull and fan-out; a lifted ban is not brought back by a second delivery. |

Several properties carry a history variable as a premise (`raced`, `calm`, `clean`, `lost`,
`overlap`, `pushed`, `tangled`, `missed`, `short`). Each marks the overlap or fault after
which the code does *not* keep the promise; the hazard at that line says so.

### Disagreements met while modelling

These sentences of the repository are not what the code does in every execution of the
models. The properties are stated for the executions in which the promise is kept; each
disagreement is a hazard in `PROJECT.json`.

| Sentence | What the code does |
|---|---|
| `internal/protect/protect.go:290` "Cap at 1 << 30 to avoid overflow of the time.Duration multiplication." | A `ban_escalation` of 24 or more overflows the duration of a later ban of ten minutes; the cap is too high to prevent it. |
| `internal/protect/protect.go:360` "Acquire re-Stores if a race still lands." | A sweep between `LoadOrStore` and `Add` leaves two counters for one client, and two requests are admitted under a limit of one. |
| `docs/docs/configuration.md:391` "High risk and failed invisible attempts escalate to interactive." | A challenge page rendered while a POST of the same client fails writes the old risk back over the failure. |
| `docs/docs/architecture.md:69` "When challenge is enabled, upgrades need an existing clearance cookie or they receive 403" | Enabling the challenge at run time has no effect in a process that started without it. |
| `docs/docs/admin.md:49` "The last remaining owner cannot be deleted or demoted." | Two concurrent changes each find two owners, take one away, and leave none. |
| `docs/docs/admin.md:141` "merged into the same overrides blob so other live fields are not replaced" | A save of Q-Feeds (`handlers.go:809`) with no stored overrides writes a blob whose other flags are all false, and the next start applies them. |
| `docs/docs/admin.md:192` "Fingerprints cannot be reused across proxies." | Two handlers that both look before either writes bind one machine to two proxies. |

Other behaviours contradict no document: a strike on a client under a long honeypot ban
replaces it by a shorter one; a strike after a ban has run out, with no `Banned` call in
between, bans at once; `BanNow` is never escalated; a guard disabled between a request's
`Acquire` and `Release` never gets its slot back; a goroutine delayed past a token's expiry
between clock and lock can redeem a swept nonce; the access check and the proxy look the
route up separately; two overlapping reloads may leave old copies live until the next one.

### Bounds

Clocks, strikes, bans, sweeps, writes, operations and faults are capped by constants named
in the modules (`MaxTime`, `MaxStrikes`, `MaxBans`, `MaxSweeps`, `MaxWrites`, `MaxOps`,
`MaxSaves`, `MaxEdits`, `MaxFaults`, `MaxRev`, `MaxEvents`). The instances have two goroutines
(three for the slots, with enough heap cells that an allocation never blocks), one or two
keys and a horizon a few times the longest duration: long enough for an entry to be banned,
expire, be swept and be created anew, and for the sweeper to meet every intermediate state
of the others. Interference is pairwise in this code (one shared entry, cell, row or file at
a time), which is why two show it; the theorems have no such bound.

* `RequestGuard` has one request, since requests meet only through the ledger and settings,
  which change freely around it. `held` remembers which settings have been in force ever
  since the request came, so that the enforcement properties also speak of requests that
  live through a change.
* `Trackers`: five events (three where answers are counted), two at a time, a window of 1,
  retention of 2 and clocks up to 1 late, so that a window ends between a question and the
  record of the answer. Where only behaviour is a limit a request is followed up to its score,
  the last thing it does to that tracker.
* `Routing`: two administrators, two writes, one row per table, upstream and route present or
  absent at the start: a delete can meet a write that refers to the row.
* `AdminAuth`: two users, two handlers, two operations, a lock after two failures: two owners
  can change each other, and a login can be hashing when the lock comes.
* `LiveConfig`: two handlers, three saves, four files that differ in what they leave out.
* `Lists`: two requests, one edit by the operator, one failed open, a line that is refused and
  one that is listed in another form than it was written in.
* `Fleet`: two proxies, one route, two admin requests, one fault anywhere.
* `ThreatShare`: one proxy, because proxies meet only in the hub's ledger, where the other
  writers (administrator, feed) stand in for them; three entries against a ledger of two, a
  pull of one, a memory of two ids and a queue of one report, so every limit is met; entries
  live for one tick or two, so that some expire in the ledger, on the way and at the proxy.

The runs of `Routing` and `ThreatShare` do not check for deadlock: their bounded systems stop
when all writes are made. The others always have a next step.

### Fairness

* `AgentHub` (`LostLeaves`): a handler which waits for nobody takes its next step (weak
  fairness: the Go scheduler runs every goroutine, and closing a websocket is bounded by its
  own time-outs), and a handler waiting for the registry's mutex gets it if it is free again
  and again (strong fairness: `sync.Mutex`, on which a writer of `sync.RWMutex` queues, hands
  over in order once a waiter starves).
* `Routing` (`SupersededCheckersEnd`): a handler goes on to its next statement, and a checker's
  loop sees the closed channel (weak fairness: `select` returns once the channel is closed).
* `Lists` (`Heals`): a request goes on with its next step, and the ticker of `StartReload` fires
  again (weak fairness).

Agents, the network, administrators and the operator owe nothing. The other specifications
have no fairness.

## 4. Proofs

All theorems hold for every value of the constants that satisfies the named
assumptions of the modules: `BanConstants`, `Doublings`, `SlotConstants`, `HubConstants`,
`LimiterConstants`, `ChallengeConstants`, `TrackerConstants`, `GuardConstants`,
`RoutingAssumption`, `ListsAssumption`, `AdminAuthAssumption`, `NoneIsNoRow`, `InputAssumption`,
`AbsentIsNoValue`, `ShareAssumption` and `FleetAssumption`. They type the parameters, say that
there is something to configure, that there are finitely many handlers or routes (where a proof
counts or lists them), that the value for "nothing" is not a value, and that a line which does
not parse does not parse in the form it is listed in either. So the bounds of section 3 are no premise: clocks, counters
and numbers of goroutines are arbitrary. Every proof has the same shape: an inductive invariant,
stated where possible of one goroutine or one entry at a time; a lemma that frames what a step
of one goroutine leaves alone; one lemma per action; and the theorems, each a consequence of the
invariant. All inductive invariants were also checked with TLC on the instances of section 3.

Five proof modules hold the proofs of two modules each and extend both, first the proofs of one
and then those of the other: `GuardSlots` and `BanLedger`, `Challenge` and `Trackers`, `Routing`
and `Lists`, `AdminAuth` and `LiveConfig`, `AgentHub` and `ThreatShare`. The second of each pair
has names of its own for its specification (`LedgerSpec`, `TrackersSpec`, `ListsSpec`,
`ConfigSpec`, `ShareSpec`), its state and its parameters, so nothing is shared between the two.

**GuardProofs, the ledger.** `LedgerTypes`; `StrikesAndBansAgree`; `FreshEntriesAreClean`;
`BansLast` and `BansAreRemembered` (action properties). The invariant is inductive
with type correctness: the steps under the mutex are the only ones that change an
entry, and each of them re-establishes it from the entry alone, whatever stale
settings and clock the call carries. One lemma per operation states what it leaves
in the entry; the theorems cite them.

**GuardProofs, the slots.** `GlobalCountExact` says that the atomic count is the number of
goroutines that own a unit of it. It needs to know *which* program counters own one,
so the inductive invariant equates the count with the cardinality of that set; each
step moves at most one goroutine in or out of it, and the lemmas on cardinality
turn that into plus or minus one. `GlobalLimitHolds` follows: a goroutine only
reaches the served states after its own increment was within the limit it had
loaded. `CountersAreNotShared` rests on every held pointer, published entry and
swept entry belonging to one key. `ClientCountExact` and `ClientLimitHolds` are the
same argument per client; they hold until the sweeper has found a counter idle for the
first time, and not longer (section 3, the second disagreement). `SlotCountsExact` and
`SlotLimitsHold` put them together as the two invariants of the run.

**HubProofs, the sessions.** `SessionsCloseOnce`, `LiveSessionsAreReachable`, `FoundSessionsAreOpen`
(together `RegistryIsSound`), `OneMachinePerToken` and `HubImplementsRegistry`, all from one
inductive invariant, with one lemma per action. Its core is who may still close a session: a
`Put` only what is registered (`Registered`, `Mutex`), the handler only after `Remove`, so
never both; and that a closed session stays registered only while its successor stands
between closing and storing (`OpenOrReplaced`). For the refinement, `Connect` is `Renew`,
`PutEvict` and `ByeClose` are `Close`, `PutStore` is `Join`, `Remove` is `Leave` or nothing,
the ends of handlers are `Lose`, and everything else stutters.

**RateLimiterProofs.** `SpendIsBounded`, `DebtIsBounded` and both as `LimitsAreKept`. "No client
spends more than burst plus refill" is not inductive, for a bucket's `last` may go backwards and
its tokens below zero. Three facts make it so: what is spent and what is left are at most the
largest burst plus the refill up to the bucket's *own* `last` (`Paid`); the debt of a bucket is at
most the refill of the time for which its `last` is old, hence that of `MaxLag` when it is charged
(`Solvent`); and a client without a bucket has spent nothing, or no more than the refill up to
`MaxLag` ago, so that it may start with a full one whatever clock it comes with. The last fact is
where `RetentionCoversRefill` is needed: `DroppedPaid` shows that a bucket old enough to be
dropped had refilled. Products of rate and time are handled by `Monotone` and `Distribute`.

**ChallengeProofs, the challenges.** `ChallengesAreSingleUse`, `FailuresAreRemembered` and `FailuresEscalate` (an
action property). For the first the invariant says that the used map holds issued nonces with
their token's expiry, that a sweep's cutoff lies in the past, and that a handler on its way to the
lock has found its token unexpired at most `MaxLag` ago (`Timely`): with no lag a nonce that is
missing from the map was then never consumed. That a clearance is bought once also needs that no
two handlers hold one consumed nonce (`Once`). For the others it follows the memory of a failure
through the handlers: the cache has it, *and* every handler that has read the cache since carries
it (`Passed`), because such a handler overwrites the cache when it ends.

**ChallengeProofs, the trackers.** `WindowsAreKept`, for any clients, paths, thresholds and lags,
from `TrackerInv`: types; the history of a window goes with its entry (`Begun`); and the quota of
a window, which is not the bound itself but the bound with the requests still on their way
(`Between`). For the trackers of answers (`Answered`) what was let through and what has asked and
is not yet recorded stay together within threshold and number of requests. The behaviour tracker
counts a request before it asks about it (`Behaved`): then a request that was counted when its
window ended, but asks after, is let through as well. The attempt to prove the smaller bound
showed this; `Slack` states the bound the code has, twice the number of requests in flight.

**RequestGuardProofs.** `ClearanceIsEnforced`, `AccessIsEnforced`, `HostileIsNotServed` and
`DenialsAreRecorded`, for any number of requests and any settings. The invariant (`Sound`) is a
statement about one request: which checks lie behind its stage, under the settings that have held
ever since it came (`held`), what guard's copy of the settings still says of them (`Copied`,
`Current`), and which events go with its answer. A check that passes a request on to a stage that
promises no more needs no argument of its own (`PassInv`); the others have a lemma each.

**RoutingProofs, the routes.** `RefsStayIntact`, `SettledIsLive`, `CheckersAreLive` and `AccessFailsClosed`, for
any rows, administrators and writes. References stay intact because the tests of the Store
methods are backed by foreign keys in the very statement. For the live copies the invariant says
what an undisturbed reload has listed and swapped so far (`Accurate`). For the health checkers it
orders the generations of the table: a superseded one is stopped or about to be, the live one
runs or is about to, later ones are untouched, and there are never more of them than writes
(`Generation`, `Numbered`).

**RoutingProofs, the lists.** `RequestsKeep` (an action property), for any files, lines and
requests. Since a request is a program of edits, each a read, a write that empties the file first
and a reload, `KeepInv` follows one that runs alone through its program: it stands at a step of
its plan (`Planned`); when an operation begins the live lists are what the files say (`Fresh`);
the lines of an emptied file are in its writer's memory (`Held`, `Emptied`); nothing is missing
but the line the operation names (`Lossless`); and an edit, which removes the old line, adds the
new one and puts the old one back if that fails, has its old line until it removes it and a new
one from the moment it has added it (`Edited`). Whether a line parses must not depend on the
form it is listed in (`ListsAssumption`): otherwise a reload could refuse what the same request
had added.

**AdminProofs, the accounts.** `OwnersAreSafe`, `GuessesAreBounded` and `PasswordChangeRevokes`, for any users,
tokens and handlers. Between its statements a handler relies on what it has read; `Entitled` says
that whoever is about to make an owner is one, `Exact` and `Spare` that while changes do not
overlap the row read is the row there and another owner remains. The bound on guesses counts the
handlers that are hashing, one less than all while one of them is counting.

**AdminProofs, the configuration.** `BehindKnowsProxies`, `WhatRunsFollows` and `SavesSurvive`, for
any files, bodies and handlers. That a running edge behind a proxy has proxies is not inductive:
an upload puts back a configuration it read earlier, so the invariant says of whatever a handler
holds that it is as sound as what runs (`Trusted`), and that a process with live changes has the
administration on (`Rooted`), since the checks of a start depend on it. `Following` is the
statement that what runs agrees with what is shown, with the one gap between the two halves of an
upload. For restarts the invariant follows a save through its steps: `Pending` says what the
stored blob will be once the handler at work is done, and `Remembered` that the live configuration
carries every setting the last save named. The lemmas it rests on say that the overlay of a blob
on any valid file sets exactly those settings, and that merging a feed or an upload into a blob
changes nothing else.

**HubProofs, the threats.** `LedgerCovers` and `LiftedBansStay` (an action property). `Covered`
needs that an entry a proxy remembers is in force or about to be written (`Kept`), because a
second delivery of it is dropped; that in turn needs that a revision names one entry wherever it
is (`Numbered`), since the ledger trims and re-sends, and that every connection which is up is
registered (`Routed`), so that the fan-out of an entry stored after the pull finds it. `Lifts`
says that the ids of a lifted ban are remembered and none of their entries is about to be written.

**FleetProofs.** `ProxiesConverge`, `AgentsStartCold`, `RevisionsNameStates` and `RoutesStay`. A
request is a list of steps, so the invariant first says which step may follow which (`Chained`) and
that a call waits for the one job that carries its name (`Calls`). `Fresh` is the core of
convergence: a state at an agent that met no other is alone there, and is the row's unless a newer
one is still to be sent. For revisions and cold starts, while requests do not overlap: revisions
grow (`Numbered`), an empty configuration comes before any other (`Empties`: an agent skips an
empty one, so it must never follow another), and the file holds what runs or is about to
(`Filed`). `RoutesStay` needs more than any statement about rows, for whether a step may empty a
row depends on the steps before it: its invariant (`Kept`) says at which step of which program a
request stands and what that step has established, so that the destination's row holds all routes
before the source's is rebuilt without them, whatever fails in between.

What is only model-checked, and why: `BanTimeExact` (powers of two with a variable exponent and
their overflow, which need induction over the exponent: out of the prover's reach); the liveness
properties `LostLeaves`, `SupersededCheckersEnd` and `Heals` (fairness and ENABLED: out of its
reach). Every other property of the runs is stated by a theorem.

## 5. Not modelled

Cryptography, regular expressions and string heuristics, HTML and templates, TOML
and document formats, TLS issuance, sandboxing, the Coraza and OpenAPI libraries and
the reverse proxy's I/O: pure functions of their input or third-party code behind a
call. Where they decide something, the modules choose the outcome freely. The
components list in `PROJECT.json` gives the reason for each.

Left out of components that are modelled: certificates an agent copies with its desired
state; a crash inside a single file write; the hub's own guard as a receiver of fleet bans;
the reporter's last flush at shutdown; the rate limit of `connect`; the challenge page
without scripts and the lifetime of the clearance cookie; the verdict caches of crawlers and
web bots; the request log's ring and the notifier's queue; the audit log; schema migrations
of the store.

## 6. Plan

1. *Done*: ledger, slots, buckets, challenge, trackers, the request's way through `guard`,
   the hub's sessions; routing, administration, configuration, lists; desired state and
   threat sharing of a fleet.
2. *Done*: proofs of ledger, slots, buckets, challenge, guard, routing, administration and the
   hub's sessions; of live configuration, desired state, threat sharing, trackers and lists.
3. Left: only what the prover cannot reach (end of section 4).
