---------------------------- MODULE RateLimiter ----------------------------
(***************************************************************************)
(* The token buckets of ratelimit.Limiter (internal/ratelimit), as the     *)
(* pipeline uses three of: per client, per subnet and global.              *)
(*                                                                         *)
(* AllowN loads the live configuration and reads the clock before it takes *)
(* the shard's mutex, so buckets are refilled with clocks that may go      *)
(* backwards: elapsed is then negative, and tokens may be too.  A bucket   *)
(* that has been quiet for MaxAge is dropped by the sweeper and starts     *)
(* full when its client comes back.                                        *)
(*                                                                         *)
(* Tokens are integers, in units in which the refill per tick is whole.    *)
(***************************************************************************)
EXTENDS Integers

CONSTANTS
    Clients,   \* keys of the limiter
    Paths,     \* request paths other than ""
    Callers,   \* goroutines that may be inside AllowN at once
    Rates,     \* configurable refill per tick
    Bursts,    \* configurable burst sizes
    PerPaths,  \* configurable values of perPath
    Costs,     \* costs of a request: 1, or the write cost
    MaxAge,    \* retention passed to Sweep
    MaxLag,    \* how long a goroutine waits between its clock and the mutex
    MaxTime    \* bound: the clock stops here

NoPath == ""
RootPath == "/"

ASSUME LimiterConstants ==
    /\ RootPath \in Paths /\ NoPath \notin Paths
    /\ Rates \subseteq Nat /\ Rates # {}
    /\ Bursts \subseteq Nat /\ Bursts # {}
    /\ PerPaths \subseteq BOOLEAN /\ PerPaths # {}
    /\ Costs \subseteq Nat \ {0}
    /\ MaxAge \in Nat /\ MaxLag \in Nat /\ MaxTime \in Nat

VARIABLES
    now,        \* the wall clock
    cfg,        \* Limiter.live
    bucket,     \* shard.ents: tokens and last of the clients present
    path,       \* clientBucket.paths of every client present
    call,       \* for each goroutine, the AllowN it is in
    sweep,      \* the sweeper: its cutoff, its mode and the clients to visit
    spent       \* history: cost of the requests allowed to each client

vars == <<now, cfg, bucket, path, call, sweep, spent>>

Config == [rate : Rates, burst : Bursts, perPath : PerPaths]

Idle == [stage |-> "idle"]

Full(cf, at) == [tokens |-> cf.burst, last |-> at]

Least(a, b) == IF a < b THEN a ELSE b

----------------------------------------------------------------------------
\* Fault: a clock that went backwards refills nothing and still sets last.
Refilled_NoNegative(b, at, cf) ==
    [tokens |-> Least(b.tokens + (IF at > b.last THEN at - b.last ELSE 0) * cf.rate, cf.burst),
     last |-> at]

\* refillAllow: refill up to the burst, whatever the sign of elapsed ...
Refilled(b, at, cf) ==
    [tokens |-> Least(b.tokens + (at - b.last) * cf.rate, cf.burst), last |-> at]

\* ... then take the cost, if it is there.
Enough(b, at, cf, cost) == Refilled(b, at, cf).tokens >= cost

Charged(b, at, cf, cost) ==
    LET r == Refilled(b, at, cf) IN
    IF r.tokens < cost THEN r ELSE [r EXCEPT !.tokens = r.tokens - cost]

----------------------------------------------------------------------------
Init ==
    /\ now = 1
    /\ cfg \in Config
    /\ bucket = [c \in {} |-> Full(cfg, 0)]
    /\ path = [c \in {} |-> Full(cfg, 0)]
    /\ call = [g \in Callers |-> Idle]
    /\ sweep = [cutoff |-> 0, perPath |-> FALSE, todo |-> {}]
    /\ spent = [c \in Clients |-> 0]

DefaultPath(p) == IF p = NoPath THEN RootPath ELSE p

\* AllowN is called: it loads the configuration ...
AllowN(g, c, p, cost) ==
    /\ call[g] = Idle
    /\ call' = [call EXCEPT ![g] = [stage |-> "clock", client |-> c, path |-> DefaultPath(p),
                                    cost |-> cost, cfg |-> cfg, at |-> 0]]
    /\ UNCHANGED <<now, cfg, bucket, path, sweep, spent>>

\* ... and reads the clock.
ReadClock(g) ==
    /\ call[g].stage = "clock"
    /\ call' = [call EXCEPT ![g] = [stage |-> "lock", client |-> call[g].client,
                                    path |-> call[g].path, cost |-> call[g].cost,
                                    cfg |-> call[g].cfg, at |-> now]]
    /\ UNCHANGED <<now, cfg, bucket, path, sweep, spent>>

\* The bucket a charge starts from: the one in the map, or a full one.
Found(f, x, cf, at) == IF x \in DOMAIN f THEN f[x] ELSE Full(cf, at)

Store(f, x, b) == [y \in DOMAIN f \cup {x} |-> IF y = x THEN b ELSE f[y]]

\* The part under the mutex.  The client's bucket is charged in every mode, the
\* path's on top of it in per-path mode, each whatever the other answers.
Commit(g) ==
    LET q == call[g]  c == q.client  cp == <<q.client, q.path>>
        b == Found(bucket, c, q.cfg, q.at)  e == Found(path, cp, q.cfg, q.at)
        ok == /\ Enough(b, q.at, q.cfg, q.cost)
              /\ q.cfg.perPath => Enough(e, q.at, q.cfg, q.cost) IN
    /\ q.stage = "lock"
    /\ bucket' = Store(bucket, c, Charged(b, q.at, q.cfg, q.cost))
    /\ path' = IF q.cfg.perPath THEN Store(path, cp, Charged(e, q.at, q.cfg, q.cost)) ELSE path
    /\ spent' = [spent EXCEPT ![c] = spent[c] + (IF ok THEN q.cost ELSE 0)]
    /\ call' = [call EXCEPT ![g] = Idle]
    /\ UNCHANGED <<now, cfg, sweep>>

----------------------------------------------------------------------------
SweepStart ==
    /\ sweep.todo = {}
    /\ sweep' = [cutoff |-> now - MaxAge, perPath |-> cfg.perPath, todo |-> Clients]
    /\ UNCHANGED <<now, cfg, bucket, path, call, spent>>

Without(f, S) == [y \in DOMAIN f \ S |-> f[y]]

PathsOf(c) == {cp \in DOMAIN path : cp[1] = c}

\* One client of the sweep.  In per-path mode its old paths go first, and the
\* client only when no path is left; otherwise it goes with all its paths.
SweepClient(c) ==
    LET old == {cp \in PathsOf(c) : path[cp].last < sweep.cutoff}
        quiet == c \in DOMAIN bucket /\ bucket[c].last < sweep.cutoff IN
    /\ c \in sweep.todo
    /\ sweep' = [sweep EXCEPT !.todo = sweep.todo \ {c}]
    /\ IF sweep.perPath
         THEN /\ path' = Without(path, old)
              /\ bucket' = IF quiet /\ PathsOf(c) = old THEN Without(bucket, {c}) ELSE bucket
         ELSE /\ path' = IF quiet THEN Without(path, PathsOf(c)) ELSE path
              /\ bucket' = IF quiet THEN Without(bucket, {c}) ELSE bucket
    /\ UNCHANGED <<now, cfg, call, spent>>

Update ==
    /\ cfg' \in Config
    /\ UNCHANGED <<now, bucket, path, call, sweep, spent>>

\* The clock moves on, but no goroutine is kept from the mutex for longer than
\* MaxLag after it has read the clock.
Tick ==
    /\ now < MaxTime
    /\ \A g \in Callers : call[g].stage = "lock" => now < call[g].at + MaxLag
    /\ now' = now + 1
    /\ UNCHANGED <<cfg, bucket, path, call, sweep, spent>>

Next ==
    \/ \E g \in Callers, c \in Clients, p \in Paths \cup {NoPath}, cost \in Costs : AllowN(g, c, p, cost)
    \/ \E g \in Callers : ReadClock(g) \/ Commit(g)
    \/ \E c \in Clients : SweepClient(c)
    \/ SweepStart \/ Update \/ Tick

Spec == Init /\ [][Next]_vars

----------------------------------------------------------------------------
Bucket == [tokens : Int, last : Int]

\* What a goroutine keeps between the steps of AllowN.
Calls ==
    {Idle} \cup [stage : {"clock", "lock"}, client : Clients, path : Paths, cost : Costs,
                 cfg : Config, at : Nat]

TypeOK ==
    /\ now \in Nat /\ cfg \in Config
    /\ DOMAIN bucket \subseteq Clients /\ bucket \in [DOMAIN bucket -> Bucket]
    /\ DOMAIN path \subseteq Clients \X Paths /\ path \in [DOMAIN path -> Bucket]
    /\ call \in [Callers -> Calls]
    /\ sweep \in [cutoff : Int, perPath : BOOLEAN, todo : SUBSET Clients]
    /\ spent \in [Clients -> Nat]

\* The retention is long enough for a bucket to refill before it is dropped,
\* goroutines that are late to the mutex included.  Nothing in the code
\* enforces it: the default retention is 30 minutes.
RetentionCoversRefill ==
    \A r \in Rates, b \in Bursts : MaxAge * r >= b + 2 * MaxLag * r

\* The limit itself.  Under one rate, a client is never allowed more than the
\* burst and the refill since the limiter started: not by racing goroutines
\* whose clocks are applied out of order, not by being swept and starting over
\* with a full bucket, not by switching paths.
SpendBound ==
    \A r \in Rates, b \in Bursts :
      Rates = {r} /\ (\A x \in Bursts : x <= b) /\ RetentionCoversRefill =>
        \A c \in Clients : spent[c] <= b + r * (now - 1)

\* Clocks applied out of order leave a bucket in debt, but never by more than
\* the refill of MaxLag: a client that waits that much longer is served again.
DebtBound ==
    \A r \in Rates : Rates = {r} =>
      /\ \A c \in DOMAIN bucket : bucket[c].tokens >= -r * MaxLag
      /\ \A cp \in DOMAIN path : path[cp].tokens >= -r * MaxLag

\* What the limiter promises: neither more than the limit, nor much less.
SpendBounded == SpendBound /\ DebtBound
============================================================================
