------------------------- MODULE RateLimiterProofs -------------------------
(***************************************************************************)
(* Proofs about RateLimiter, for any clients, paths and number of          *)
(* goroutines, any costs, retention and lag.                               *)
(***************************************************************************)
EXTENDS RateLimiter, TLAPS

----------------------------------------------------------------------------
(* The inductive invariant *)

\* A call on its way to the mutex carries a clock of the last MaxLag, and the
\* sweeper a cutoff that is MaxAge old.
Prompt(g) == call[g].stage = "lock" => 1 <= call[g].at /\ call[g].at <= now /\ now <= call[g].at + MaxLag

Clock ==
    /\ now >= 1 /\ (sweep.todo # {} => sweep.cutoff <= now - MaxAge)
    /\ \A g \in Callers : Prompt(g)

\* A bucket's debt is the refill of the time for which its last is old, and no
\* more than that of MaxLag.
Solvent(e, r) ==
    /\ e.last <= now
    /\ 0 <= e.tokens + r * (now - e.last)
    /\ 0 <= e.tokens + r * MaxLag

Solvency(r) ==
    /\ \A c \in DOMAIN bucket : Solvent(bucket[c], r)
    /\ \A cp \in DOMAIN path : Solvent(path[cp], r)

\* What a client has spent and what is left in its bucket come from the burst
\* and from the refill up to the bucket's last.  A client without a bucket has
\* spent nothing, or little enough to start with a full one whatever clock of
\* the last MaxLag its next request carries.
Paid(c, r, b) ==
    /\ c \in DOMAIN bucket => spent[c] + bucket[c].tokens <= b + r * (bucket[c].last - 1)
    /\ c \notin DOMAIN bucket => spent[c] = 0 \/ spent[c] <= r * (now - 1 - MaxLag)

\* The rate r is the only one, b the largest burst, and the retention covers a refill.
Governs(r, b) == Rates = {r} /\ (\A x \in Bursts : x <= b) /\ RetentionCoversRefill

Inv ==
    /\ TypeOK /\ Clock
    /\ \A r \in Rates : Rates = {r} => Solvency(r)
    /\ \A r \in Rates, b \in Bursts : Governs(r, b) => \A c \in Clients : Paid(c, r, b)
----------------------------------------------------------------------------
(* Arithmetic and buckets *)

\* More time, more refill.
LEMMA Monotone ==
    ASSUME NEW r \in Nat, NEW x \in Int, NEW y \in Int, x <= y
    PROVE  r * x <= r * y
<1>1. PICK d \in Nat : y = x + d  BY y - x \in Nat
<1>2. r * y = r * x + r * d  BY <1>1
<1>3. r * d \in Nat  OBVIOUS
<1> QED  BY <1>2, <1>3

\* The refill of a difference of times.
LEMMA Distribute ==
    ASSUME NEW r \in Int, NEW x \in Int, NEW y \in Int
    PROVE  r * (x - y) = r * x - r * y /\ (x - y) * r = r * x - r * y
OBVIOUS

\* What a goroutine keeps at each stage.
LEMMA CallFields ==
    ASSUME NEW t \in Calls
    PROVE  /\ t.stage \in {"idle", "clock", "lock"}
           /\ t.stage # "idle" => t \in [stage : {"clock", "lock"}, client : Clients, path : Paths,
                                         cost : Costs, cfg : Config, at : Nat]
BY DEF Calls, Idle

\* An idle goroutine.
LEMMA IdleCall == Idle \in Calls /\ Idle.stage = "idle"
BY DEF Calls, Idle

\* refillAllow leaves a bucket of the call's clock that holds no more than what
\* was there, the refill and the charge allow, and that is in debt only as the
\* refill left it.
LEMMA ChargedFacts ==
    ASSUME NEW e \in Bucket, NEW at \in Int, NEW cf \in Config, NEW cost \in Nat
    PROVE  /\ Charged(e, at, cf, cost) \in Bucket
           /\ Charged(e, at, cf, cost).last = at
           /\ Charged(e, at, cf, cost).tokens <= e.tokens + (at - e.last) * cf.rate
           /\ Enough(e, at, cf, cost) =>
                Charged(e, at, cf, cost).tokens + cost <= e.tokens + (at - e.last) * cf.rate
           /\ \/ 0 <= Charged(e, at, cf, cost).tokens
              \/ Charged(e, at, cf, cost).tokens = e.tokens + (at - e.last) * cf.rate
<1> DEFINE level == e.tokens + (at - e.last) * cf.rate
           left == Least(level, cf.burst)
           r == [tokens |-> left, last |-> at]
           s == [tokens |-> left - cost, last |-> at]
<1>1. cf.rate \in Nat /\ cf.burst \in Nat /\ e.tokens \in Int /\ e.last \in Int
  BY LimiterConstants DEF Config, Bucket
<1>2. level \in Int  BY <1>1
<1>3. Refilled(e, at, cf) = r  BY DEF Refilled
<1> HIDE DEF level
<1>4. left \in Int /\ left <= level /\ (left = level \/ left = cf.burst)
  BY <1>1, <1>2 DEF Least
<1> HIDE DEF left
<1>5. r \in Bucket /\ r.tokens = left /\ r.last = at /\ s \in Bucket /\ s.tokens = left - cost /\ s.last = at
      /\ [r EXCEPT !.tokens = left - cost] = s
  BY <1>4 DEF Bucket
<1> HIDE DEF r, s
<1>6. Enough(e, at, cf, cost) <=> left >= cost  BY <1>3, <1>5 DEF Enough
<1>7. Charged(e, at, cf, cost) = IF left < cost THEN r ELSE s
  BY <1>3, <1>5 DEF Charged
<1>8. CASE left < cost
  <2>1. Charged(e, at, cf, cost) = r /\ ~Enough(e, at, cf, cost)  BY <1>4, <1>6, <1>7, <1>8
  <2> QED  BY <1>1, <1>4, <1>5, <2>1 DEF level
<1>9. CASE ~(left < cost)
  <2>1. Charged(e, at, cf, cost) = s  BY <1>7, <1>9
  <2>2. left - cost <= level /\ left - cost + cost <= level /\ 0 <= left - cost  BY <1>2, <1>4, <1>9
  <2> QED  BY <1>5, <2>1, <2>2 DEF level
<1> QED  BY <1>8, <1>9

\* A full bucket.
LEMMA FullFacts ==
    ASSUME NEW cf \in Config, NEW at \in Int
    PROVE  Full(cf, at) \in Bucket /\ Full(cf, at).tokens = cf.burst /\ Full(cf, at).last = at /\ cf.burst \in Nat
<1> DEFINE n == cf.burst
           e == [tokens |-> n, last |-> at]
<1>1. n \in Nat  BY LimiterConstants DEF Config
<1>2. Full(cf, at) = e  BY DEF Full
<1> HIDE DEF n
<1>3. e \in Bucket /\ e.tokens = n /\ e.last = at  BY <1>1 DEF Bucket
<1> HIDE DEF e
<1>4. Full(cf, at) \in Bucket /\ Full(cf, at).tokens = n /\ Full(cf, at).last = at  BY <1>2, <1>3
<1> QED  BY <1>1, <1>4 DEF n

\* A map in which a bucket was stored is one of buckets.
LEMMA StoreTyped ==
    ASSUME NEW S, NEW f, DOMAIN f \subseteq S, f \in [DOMAIN f -> Bucket], NEW x \in S, NEW v \in Bucket
    PROVE  DOMAIN Store(f, x, v) \subseteq S /\ Store(f, x, v) \in [DOMAIN Store(f, x, v) -> Bucket]
<1> DEFINE g == Store(f, x, v)
<1>1. g = [y \in DOMAIN f \cup {x} |-> IF y = x THEN v ELSE f[y]]  BY DEF Store
<1>2. \A y \in DOMAIN f \cup {x} : (IF y = x THEN v ELSE f[y]) \in Bucket  OBVIOUS
<1> HIDE DEF g
<1>3. g \in [DOMAIN g -> Bucket]  BY <1>1, <1>2
<1> QED  BY <1>1, <1>3 DEF g

\* A map with fewer buckets.
LEMMA WithoutFacts ==
    ASSUME NEW f, NEW S, f \in [DOMAIN f -> Bucket]
    PROVE  /\ DOMAIN Without(f, S) = DOMAIN f \ S
           /\ \A y \in DOMAIN f \ S : Without(f, S)[y] = f[y]
           /\ Without(f, S) \in [DOMAIN Without(f, S) -> Bucket]
BY DEF Without

\* The bucket a charge starts from.
LEMMA FoundTyped ==
    ASSUME NEW f, f \in [DOMAIN f -> Bucket], NEW x, NEW cf \in Config, NEW at \in Int
    PROVE  Found(f, x, cf, at) \in Bucket
BY FullFacts DEF Found

----------------------------------------------------------------------------
(* What a charge leaves *)

\* A charged bucket is no deeper in debt than its clock is late.
LEMMA SolventCharged ==
    ASSUME NEW e \in Bucket, NEW t \in Bucket, NEW r \in Nat, NEW at \in Nat,
           now \in Nat, at <= now, now <= at + MaxLag, Solvent(e, r), t.last = at,
           0 <= t.tokens \/ t.tokens = e.tokens + (at - e.last) * r
    PROVE  Solvent(t, r)
<1>2. e.tokens \in Int /\ e.last \in Int /\ t.tokens \in Int /\ MaxLag \in Nat  BY LimiterConstants DEF Bucket
<1>3. 0 <= r * (now - at) /\ r * (now - at) <= r * MaxLag
  <2>1. r * 0 <= r * (now - at)  BY Monotone
  <2>2. r * (now - at) <= r * MaxLag  BY <1>2, Monotone
  <2> QED  BY <2>1, <2>2
<1>4. r * (now - at) \in Int /\ r * MaxLag \in Int  BY <1>2
<1>5. CASE 0 <= t.tokens
  BY <1>2, <1>3, <1>4, <1>5 DEF Solvent
<1>6. CASE t.tokens = e.tokens + (at - e.last) * r
  <2>1. t.tokens + r * (now - at) = e.tokens + r * (now - e.last)
    <3>1. r * (now - at) = r * now - r * at  BY Distribute
    <3>2. r * (now - e.last) = r * now - r * e.last  BY <1>2, Distribute
    <3>3. (at - e.last) * r = r * at - r * e.last  BY <1>2, Distribute
    <3>4. r * now \in Int /\ r * at \in Int /\ r * e.last \in Int  BY <1>2
    <3> QED  BY <1>2, <1>6, <3>1, <3>2, <3>3, <3>4
  <2>2. 0 <= t.tokens + r * (now - at)  BY <2>1 DEF Solvent
  <2> QED  BY <1>2, <1>3, <1>4, <2>2 DEF Solvent
<1> QED  BY <1>5, <1>6

\* A full bucket is in no debt.
LEMMA SolventFull ==
    ASSUME NEW r \in Nat, NEW cf \in Config, NEW at \in Nat, now \in Nat, at <= now
    PROVE  Solvent(Full(cf, at), r)
<1> DEFINE e == Full(cf, at)
<1>1. e.last = at /\ e.tokens \in Nat  BY FullFacts
<1> HIDE DEF e
<1>2. r * (now - at) \in Nat /\ r * MaxLag \in Nat  BY LimiterConstants
<1>3. Solvent(e, r)  BY <1>1, <1>2 DEF Solvent
<1> QED  BY <1>3 DEF e

\* A charge is paid by what the bucket held and the refill up to its clock.
LEMMA PaidCharged ==
    ASSUME NEW e \in Bucket, NEW r \in Nat, NEW cf \in Config, cf.rate = r, NEW cost \in Nat, NEW at \in Nat,
           NEW b \in Int, NEW s \in Int, NEW d \in Int, d <= (IF Enough(e, at, cf, cost) THEN cost ELSE 0),
           s + e.tokens <= b + r * (e.last - 1)
    PROVE  s + d + Charged(e, at, cf, cost).tokens <= b + r * (at - 1)
<1> DEFINE t == Charged(e, at, cf, cost)
<1>1. t \in Bucket /\ t.tokens + d <= e.tokens + (at - e.last) * r
  <2>1. t \in Bucket /\ t.tokens <= e.tokens + (at - e.last) * r
        /\ (Enough(e, at, cf, cost) => t.tokens + cost <= e.tokens + (at - e.last) * r)
    <3>1. at \in Int  OBVIOUS
    <3>2. t \in Bucket /\ t.tokens <= e.tokens + (at - e.last) * cf.rate
          /\ (Enough(e, at, cf, cost) => t.tokens + cost <= e.tokens + (at - e.last) * cf.rate)
      BY <3>1, ChargedFacts
    <3> HIDE DEF t
    <3> QED  BY <3>2
  <2>2. t.tokens \in Int /\ e.tokens + (at - e.last) * r \in Int
    <3> HIDE DEF t
    <3> QED  BY <2>1 DEF Bucket
  <2> HIDE DEF t
  <2> QED  BY <2>1, <2>2
<1> HIDE DEF t
<1>2. e.tokens \in Int /\ e.last \in Int /\ t.tokens \in Int  BY <1>1 DEF Bucket
<1>3. r * (e.last - 1) = r * e.last - r * 1  BY <1>2, Distribute
<1>4. r * (at - 1) = r * at - r * 1  BY Distribute
<1>5. (at - e.last) * r = r * at - r * e.last  BY <1>2, Distribute
<1>6. r * e.last \in Int /\ r * at \in Int /\ r * 1 \in Int  BY <1>2
<1>7. s + d + t.tokens <= b + r * (at - 1)  BY <1>1, <1>2, <1>3, <1>4, <1>5, <1>6
<1> QED  BY <1>7 DEF t
----------------------------------------------------------------------------
(* The steps that leave the buckets alone *)

\* A goroutine that takes a step leaves the others alone.
LEMMA OneMoves ==
    ASSUME TypeOK, NEW g \in Callers, NEW t \in Calls, call' = [call EXCEPT ![g] = t]
    PROVE  call'[g] = t /\ (\A h \in Callers \ {g} : call'[h] = call[h]) /\ call' \in [Callers -> Calls]
BY DEF TypeOK

\* Neither clock nor buckets change.
LEMMA BucketsSame ==
    ASSUME Inv, UNCHANGED <<now, bucket, path, spent>>, TypeOK', Clock'
    PROVE  Inv'
<1>1. ASSUME NEW r \in Rates, Rates = {r} PROVE Solvency(r)'
  BY <1>1 DEF Inv, Solvency, Solvent
<1>2. ASSUME NEW r \in Rates, NEW b \in Bursts, Governs(r, b), NEW c \in Clients PROVE Paid(c, r, b)'
  BY <1>2 DEF Inv, Paid
<1> QED  BY <1>1, <1>2 DEF Inv

\* AllowN loads the configuration.
LEMMA AllowNInv ==
    ASSUME Inv, NEW g \in Callers, NEW c \in Clients, NEW p \in Paths \cup {NoPath}, NEW cost \in Costs,
           AllowN(g, c, p, cost)
    PROVE  Inv'
<1> DEFINE q == DefaultPath(p)
           t == [stage |-> "clock", client |-> c, path |-> q, cost |-> cost, cfg |-> cfg, at |-> 0]
<1>1. TypeOK /\ Clock /\ call' = [call EXCEPT ![g] = t] /\ UNCHANGED <<now, cfg, bucket, path, sweep, spent>>
  BY DEF Inv, AllowN
<1>2. q \in Paths  BY LimiterConstants DEF DefaultPath
<1> HIDE DEF q
<1>3. t \in Calls /\ t.stage = "clock"  BY <1>1, <1>2 DEF Calls, TypeOK
<1> HIDE DEF t
<1>4. TypeOK'  BY <1>1, <1>3, OneMoves DEF TypeOK
<1>5. Clock'
  <2>1. \A h \in Callers : Prompt(h)'  BY <1>1, <1>3, OneMoves DEF Clock, Prompt
  <2> QED  BY <1>1, <2>1 DEF Clock
<1> QED  BY <1>1, <1>4, <1>5, BucketsSame

\* AllowN reads the clock: it is not late yet.
LEMMA ReadClockInv ==
    ASSUME Inv, NEW g \in Callers, ReadClock(g)
    PROVE  Inv'
<1> DEFINE t == [stage |-> "lock", client |-> call[g].client, path |-> call[g].path, cost |-> call[g].cost,
                 cfg |-> call[g].cfg, at |-> now]
<1>1. /\ TypeOK /\ Clock /\ call' = [call EXCEPT ![g] = t] /\ call[g].stage = "clock"
      /\ UNCHANGED <<now, cfg, bucket, path, sweep, spent>>
  BY DEF Inv, ReadClock
<1>2. call[g] \in [stage : {"clock", "lock"}, client : Clients, path : Paths, cost : Costs, cfg : Config, at : Nat]
  BY <1>1, CallFields DEF TypeOK
<1>3. t \in Calls /\ t.stage = "lock" /\ t.at = now  BY <1>1, <1>2 DEF Calls, TypeOK
<1> HIDE DEF t
<1>4. TypeOK'  BY <1>1, <1>3, OneMoves DEF TypeOK
<1>5. Clock'
  <2>1. \A h \in Callers : Prompt(h)'
    BY <1>1, <1>3, OneMoves, LimiterConstants DEF Clock, Prompt, TypeOK
  <2> QED  BY <1>1, <2>1 DEF Clock
<1> QED  BY <1>1, <1>4, <1>5, BucketsSame

\* A sweep begins with a cutoff that is MaxAge old.
LEMMA SweepStartInv ==
    ASSUME Inv, SweepStart
    PROVE  Inv'
<1> DEFINE mode == cfg.perPath
           s == [cutoff |-> now - MaxAge, perPath |-> mode, todo |-> Clients]
<1>1. TypeOK /\ Clock /\ sweep' = s /\ UNCHANGED <<now, cfg, bucket, path, call, spent>>
  BY DEF Inv, SweepStart
<1>2. mode \in BOOLEAN  BY <1>1, LimiterConstants DEF TypeOK, Config
<1> HIDE DEF mode
<1>3. s \in [cutoff : Int, perPath : BOOLEAN, todo : SUBSET Clients] /\ s.cutoff = now - MaxAge
  BY <1>1, <1>2, LimiterConstants DEF TypeOK
<1> HIDE DEF s
<1>4. TypeOK'  BY <1>1, <1>3 DEF TypeOK
<1>5. Clock'  BY <1>1, <1>3, LimiterConstants DEF Clock, Prompt, TypeOK
<1> QED  BY <1>1, <1>4, <1>5, BucketsSame

\* A new configuration changes no bucket.
LEMMA UpdateInv ==
    ASSUME Inv, Update
    PROVE  Inv'
<1>1. TypeOK /\ Clock /\ cfg' \in Config /\ UNCHANGED <<now, bucket, path, call, sweep, spent>>
  BY DEF Inv, Update
<1>2. TypeOK'  BY <1>1 DEF TypeOK
<1>3. Clock'  BY <1>1 DEF Clock, Prompt
<1> QED  BY <1>1, <1>2, <1>3, BucketsSame

\* A tick later every debt is older and every refill larger.
LEMMA TickInv ==
    ASSUME Inv, Tick
    PROVE  Inv'
<1>1. /\ TypeOK /\ Clock /\ now \in Nat /\ now' = now + 1 /\ MaxLag \in Nat /\ MaxAge \in Nat
      /\ \A g \in Callers : call[g].stage = "lock" => now < call[g].at + MaxLag
      /\ UNCHANGED <<cfg, bucket, path, call, sweep, spent>>
  BY LimiterConstants DEF Inv, Tick, TypeOK
<1>2. TypeOK'  BY <1>1 DEF TypeOK
<1>3. Clock'
  <2>1. ASSUME NEW g \in Callers PROVE Prompt(g)'
    <3>1. call[g].stage = "lock" => call[g].at \in Nat  BY <1>1, CallFields DEF TypeOK
    <3> QED  BY <1>1, <3>1 DEF Clock, Prompt
  <2>2. sweep.cutoff \in Int  BY <1>1 DEF TypeOK
  <2> QED  BY <1>1, <2>1, <2>2 DEF Clock
<1>4. ASSUME NEW r \in Nat, NEW e \in Bucket, Solvent(e, r) PROVE Solvent(e, r)'
  <2>1. e.last \in Int /\ e.tokens \in Int  BY DEF Bucket
  <2>2. r * (now - e.last) <= r * (now + 1 - e.last)  BY <1>1, <2>1, Monotone
  <2>3. r * (now - e.last) \in Int /\ r * (now + 1 - e.last) \in Int  BY <1>1, <2>1
  <2> QED  BY <1>1, <1>4, <2>1, <2>2, <2>3 DEF Solvent
<1>5. ASSUME NEW r \in Rates, Rates = {r} PROVE Solvency(r)'
  <2>1. r \in Nat /\ Solvency(r)  BY <1>5, LimiterConstants DEF Inv
  <2>2. \A c \in DOMAIN bucket : bucket[c] \in Bucket  BY <1>1 DEF TypeOK
  <2>3. \A cp \in DOMAIN path : path[cp] \in Bucket  BY <1>1 DEF TypeOK
  <2>4. \A e \in Bucket : Solvent(e, r) => Solvent(e, r)'  BY <1>4, <2>1
  <2> QED  BY <1>1, <2>1, <2>2, <2>3, <2>4 DEF Solvency, Solvent
<1>6. ASSUME NEW r \in Rates, NEW b \in Bursts, Governs(r, b), NEW c \in Clients PROVE Paid(c, r, b)'
  <2>1. r \in Nat /\ Paid(c, r, b) /\ spent[c] \in Nat  BY <1>1, <1>6, LimiterConstants DEF Inv, TypeOK
  <2>2. r * (now - 1 - MaxLag) <= r * (now + 1 - 1 - MaxLag)  BY <1>1, <2>1, Monotone
  <2>3. r * (now - 1 - MaxLag) \in Int /\ r * (now + 1 - 1 - MaxLag) \in Int  BY <1>1, <2>1
  <2> QED  BY <1>1, <2>1, <2>2, <2>3 DEF Paid
<1> QED  BY <1>2, <1>3, <1>5, <1>6 DEF Inv
----------------------------------------------------------------------------
(* The sweeper *)

\* What a client may have spent whose bucket is old enough to be dropped.
LEMMA DroppedPaid ==
    ASSUME NEW r \in Nat, NEW b \in Int, NEW s \in Int, NEW e \in Bucket, now \in Nat, Solvent(e, r),
           s + e.tokens <= b + r * (e.last - 1), e.last < now - MaxAge, MaxAge * r >= b + 2 * MaxLag * r
    PROVE  s <= r * (now - 1 - MaxLag)
<1>1. MaxLag \in Nat /\ MaxAge \in Nat /\ e.tokens \in Int /\ e.last \in Int  BY LimiterConstants DEF Bucket
<1>2. r * (e.last - 1) <= r * (now - 1 - MaxAge)  BY <1>1, Monotone
<1>3. r * (now - 1 - MaxAge) = r * (now - 1) - r * MaxAge  BY <1>1, Distribute
<1>4. r * (now - 1 - MaxLag) = r * (now - 1) - r * MaxLag  BY <1>1, Distribute
<1>5. MaxAge * r = r * MaxAge /\ 2 * MaxLag * r = r * MaxLag + r * MaxLag  BY <1>1
<1>6. 0 <= e.tokens + r * MaxLag  BY DEF Solvent
<1>7. r * (e.last - 1) \in Int /\ r * (now - 1) \in Int /\ r * MaxAge \in Int /\ r * MaxLag \in Int  BY <1>1
<1> QED  BY <1>1, <1>2, <1>3, <1>4, <1>5, <1>6, <1>7

\* A client is dropped only after its debt and its burst have been refilled.
LEMMA SweepClientInv ==
    ASSUME Inv, NEW c \in Clients, SweepClient(c)
    PROVE  Inv'
<1> DEFINE quiet == c \in DOMAIN bucket /\ bucket[c].last < sweep.cutoff
           old == {cp \in PathsOf(c) : path[cp].last < sweep.cutoff}
<1>1. /\ TypeOK /\ Clock /\ c \in sweep.todo /\ sweep' = [sweep EXCEPT !.todo = sweep.todo \ {c}]
      /\ UNCHANGED <<now, cfg, call, spent>>
  BY DEF Inv, SweepClient
<1>2. bucket' = bucket \/ (quiet /\ bucket' = Without(bucket, {c}))
  <2>1. CASE sweep.perPath  BY <2>1 DEF SweepClient
  <2>2. CASE ~sweep.perPath  BY <2>2 DEF SweepClient
  <2> QED  BY <2>1, <2>2
<1>3. path' = path \/ path' = Without(path, old) \/ path' = Without(path, PathsOf(c))
  <2>1. CASE sweep.perPath  BY <2>1 DEF SweepClient
  <2>2. CASE ~sweep.perPath
    <3>1. path' = IF quiet THEN Without(path, PathsOf(c)) ELSE path  BY <2>2 DEF SweepClient
    <3> HIDE DEF quiet
    <3> QED  BY <3>1
  <2> QED  BY <2>1, <2>2
<1>4. /\ sweep' \in [cutoff : Int, perPath : BOOLEAN, todo : SUBSET Clients]
      /\ sweep'.cutoff = sweep.cutoff /\ sweep.cutoff <= now - MaxAge
      /\ sweep'.todo \subseteq sweep.todo /\ sweep.cutoff \in Int
  BY <1>1 DEF TypeOK, Clock
<1>5. /\ DOMAIN bucket' \subseteq DOMAIN bucket /\ bucket' \in [DOMAIN bucket' -> Bucket]
      /\ \A d \in DOMAIN bucket' : bucket'[d] = bucket[d]
  <2>1. CASE bucket' = bucket  BY <1>1, <2>1 DEF TypeOK
  <2>2. CASE bucket' = Without(bucket, {c})
    <3>1. bucket \in [DOMAIN bucket -> Bucket]  BY <1>1 DEF TypeOK
    <3>2. /\ DOMAIN Without(bucket, {c}) = DOMAIN bucket \ {c}
          /\ \A d \in DOMAIN bucket \ {c} : Without(bucket, {c})[d] = bucket[d]
          /\ Without(bucket, {c}) \in [DOMAIN Without(bucket, {c}) -> Bucket]
      BY <3>1, WithoutFacts
    <3> QED  BY <2>2, <3>2
  <2> QED  BY <1>2, <2>1, <2>2
<1>6. /\ DOMAIN path' \subseteq DOMAIN path /\ path' \in [DOMAIN path' -> Bucket]
      /\ \A cp \in DOMAIN path' : path'[cp] = path[cp]
  <2>1. CASE path' = path  BY <1>1, <2>1 DEF TypeOK
  <2>2. ASSUME NEW S, path' = Without(path, S) PROVE <1>6!:
    <3>1. path \in [DOMAIN path -> Bucket]  BY <1>1 DEF TypeOK
    <3>2. /\ DOMAIN Without(path, S) = DOMAIN path \ S
          /\ \A cp \in DOMAIN path \ S : Without(path, S)[cp] = path[cp]
          /\ Without(path, S) \in [DOMAIN Without(path, S) -> Bucket]
      BY <3>1, WithoutFacts
    <3> QED  BY <2>2, <3>2
  <2> HIDE DEF old
  <2> QED  BY <1>3, <2>1, <2>2
<1>7. TypeOK'  BY <1>1, <1>4, <1>5, <1>6 DEF TypeOK
<1>8. Clock'  BY <1>1, <1>4 DEF Clock, Prompt
<1>9. ASSUME NEW r \in Rates, Rates = {r} PROVE Solvency(r)'
  BY <1>1, <1>5, <1>6, <1>9 DEF Inv, Solvency, Solvent
<1>10. ASSUME NEW r \in Rates, NEW b \in Bursts, Governs(r, b), NEW d \in Clients PROVE Paid(d, r, b)'
  <2>1. /\ r \in Nat /\ b \in Int /\ Paid(d, r, b) /\ Solvency(r) /\ MaxAge * r >= b + 2 * MaxLag * r
        /\ spent[d] \in Int /\ now \in Nat
    BY <1>1, <1>10, LimiterConstants DEF Inv, Governs, RetentionCoversRefill, TypeOK
  <2>2. CASE d \in DOMAIN bucket <=> d \in DOMAIN bucket'
    BY <1>1, <1>5, <2>1, <2>2 DEF Paid
  <2>3. CASE d \in DOMAIN bucket /\ d \notin DOMAIN bucket'
    <3>1. d = c /\ bucket[d].last < sweep.cutoff
      <4>1. quiet /\ bucket' = Without(bucket, {c})  BY <1>2, <2>3
      <4>2. DOMAIN Without(bucket, {c}) = DOMAIN bucket \ {c}  BY DEF Without
      <4> QED  BY <2>3, <4>1, <4>2
    <3>2. bucket[d] \in Bucket /\ Solvent(bucket[d], r)  BY <1>1, <2>1, <2>3 DEF TypeOK, Solvency
    <3>3. spent[d] + bucket[d].tokens <= b + r * (bucket[d].last - 1)  BY <2>1, <2>3 DEF Paid
    <3>4. bucket[d].last < now - MaxAge
      BY <1>4, <2>1, <3>1, <3>2, LimiterConstants DEF Bucket
    <3>5. spent[d] <= r * (now - 1 - MaxLag)
      <4> DEFINE e == bucket[d]
                 s == spent[d]
      <4>1. e \in Bucket /\ Solvent(e, r) /\ s + e.tokens <= b + r * (e.last - 1) /\ e.last < now - MaxAge /\ s \in Int
        BY <2>1, <3>2, <3>3, <3>4
      <4> HIDE DEF e, s
      <4>2. s <= r * (now - 1 - MaxLag)  BY <2>1, <4>1, DroppedPaid
      <4> QED  BY <4>2 DEF s
    <3> QED  BY <1>1, <2>3, <3>5 DEF Paid
  <2> QED  BY <1>5, <2>2, <2>3
<1> QED  BY <1>7, <1>8, <1>9, <1>10 DEF Inv

----------------------------------------------------------------------------
(* The part of AllowN under the mutex *)

\* The charge: what is spent was in the bucket, or came with a full one.
LEMMA CommitInv ==
    ASSUME Inv, NEW g \in Callers, Commit(g)
    PROVE  Inv'
<1>1. /\ TypeOK /\ Clock /\ call[g].stage = "lock" /\ call' = [call EXCEPT ![g] = Idle]
      /\ UNCHANGED <<now, cfg, sweep>>
  BY DEF Inv, Commit
<1>2. call[g] \in [stage : {"clock", "lock"}, client : Clients, path : Paths, cost : Costs, cfg : Config, at : Nat]
  BY <1>1, CallFields DEF TypeOK
<1>3. PICK c \in Clients, p \in Paths, cost \in Nat, cf \in Config, at \in Nat :
        /\ c = call[g].client /\ p = call[g].path /\ cost = call[g].cost /\ cf = call[g].cfg /\ at = call[g].at
  BY <1>2, LimiterConstants
<1> DEFINE cp == <<c, p>>
           e == Found(bucket, c, cf, at)
           f == Found(path, cp, cf, at)
           ok == Enough(e, at, cf, cost) /\ (cf.perPath => Enough(f, at, cf, cost))
           d == IF ok THEN cost ELSE 0
           x == Charged(e, at, cf, cost)
           y == Charged(f, at, cf, cost)
<1>4. /\ bucket' = Store(bucket, c, x)
      /\ path' = path \/ path' = Store(path, cp, y)
      /\ spent' = [spent EXCEPT ![c] = spent[c] + d]
  BY <1>3 DEF Commit
<1>5. 1 <= at /\ at <= now /\ now <= at + MaxLag /\ now \in Nat  BY <1>1, <1>3 DEF Clock, Prompt, TypeOK
<1>6. at \in Int /\ e \in Bucket /\ f \in Bucket  BY <1>1, FoundTyped DEF TypeOK
<1>7. d \in Nat /\ d <= (IF Enough(e, at, cf, cost) THEN cost ELSE 0)  OBVIOUS
<1> HIDE DEF d, ok
<1>8. /\ x \in Bucket /\ x.last = at /\ y \in Bucket /\ y.last = at
      /\ 0 <= x.tokens \/ x.tokens = e.tokens + (at - e.last) * cf.rate
      /\ 0 <= y.tokens \/ y.tokens = f.tokens + (at - f.last) * cf.rate
  <2> HIDE DEF e, f
  <2>1. x \in Bucket /\ x.last = at  BY <1>6, ChargedFacts
  <2>2. y \in Bucket /\ y.last = at  BY <1>6, ChargedFacts
  <2>3. 0 <= x.tokens \/ x.tokens = e.tokens + (at - e.last) * cf.rate  BY <1>6, ChargedFacts
  <2>4. 0 <= y.tokens \/ y.tokens = f.tokens + (at - f.last) * cf.rate  BY <1>6, ChargedFacts
  <2> QED  BY <2>1, <2>2, <2>3, <2>4
<1>9. ASSUME NEW r \in Rates, Rates = {r} PROVE Solvent(x, r) /\ Solvent(y, r)
  <2>1. r \in Nat /\ cf.rate = r  BY <1>9, LimiterConstants DEF Config
  <2>2. Solvent(e, r) /\ Solvent(f, r)
    <3>1. Solvent(Full(cf, at), r)  BY <1>5, <2>1, SolventFull
    <3>2. Solvency(r)  BY <1>9 DEF Inv
    <3> QED  BY <3>1, <3>2 DEF Solvency, Found
  <2> HIDE DEF e, f, x, y
  <2>3. Solvent(x, r)  BY <1>5, <1>6, <1>8, <2>1, <2>2, SolventCharged
  <2>4. Solvent(y, r)  BY <1>5, <1>6, <1>8, <2>1, <2>2, SolventCharged
  <2> QED  BY <2>3, <2>4
<1>10. ASSUME NEW r \in Rates, NEW b \in Bursts, Governs(r, b)
       PROVE  spent[c] + d + x.tokens <= b + r * (at - 1)
  <2>1. /\ r \in Nat /\ b \in Int /\ Rates = {r} /\ cf.rate = r /\ Paid(c, r, b) /\ spent[c] \in Int
        /\ cf.burst <= b /\ cf.burst \in Nat /\ MaxLag \in Nat
    BY <1>1, <1>10, LimiterConstants DEF Inv, Governs, TypeOK, Config
  <2>2. spent[c] + e.tokens <= b + r * (e.last - 1)
    <3>1. CASE c \in DOMAIN bucket
      <4>1. e = bucket[c]  BY <3>1 DEF Found
      <4> HIDE DEF e
      <4> QED  BY <2>1, <3>1, <4>1 DEF Paid
    <3>2. CASE c \notin DOMAIN bucket
      <4>1. e = Full(cf, at)  BY <3>2 DEF Found
      <4>2. e.tokens = cf.burst /\ e.last = at
        <5>1. Full(cf, at).tokens = cf.burst /\ Full(cf, at).last = at  BY <1>6, FullFacts
        <5> HIDE DEF e
        <5> QED  BY <4>1, <5>1
      <4> HIDE DEF e
      <4>3. r * 0 <= r * (at - 1)  BY <1>5, <2>1, Monotone
      <4>4. r * (now - 1 - MaxLag) <= r * (at - 1)  BY <1>5, <2>1, Monotone
      <4>5. r * (at - 1) \in Int /\ r * (now - 1 - MaxLag) \in Int /\ r * 0 = 0  BY <1>5, <2>1
      <4>6. spent[c] <= r * (at - 1)  BY <2>1, <3>2, <4>3, <4>4, <4>5 DEF Paid
      <4> QED  BY <2>1, <4>2, <4>5, <4>6
    <3> QED  BY <3>1, <3>2
  <2> DEFINE s == spent[c]
  <2>3. s \in Int /\ s + e.tokens <= b + r * (e.last - 1) /\ d \in Int  BY <1>7, <2>1, <2>2
  <2>4. e \in Bucket /\ d <= (IF Enough(e, at, cf, cost) THEN cost ELSE 0)  BY <1>6, <1>7
  <2> HIDE DEF s, e
  <2>5. s + d + x.tokens <= b + r * (at - 1)  BY <2>1, <2>3, <2>4, PaidCharged
  <2> QED  BY <2>5 DEF s
<1> HIDE DEF e, f, x, y
<1>11. /\ DOMAIN bucket' = DOMAIN bucket \cup {c} /\ bucket'[c] = x
       /\ \A k \in DOMAIN bucket : k # c => bucket'[k] = bucket[k]
  BY <1>4 DEF Store
<1>12. \A k \in DOMAIN path' : path'[k] = y \/ (k \in DOMAIN path /\ path'[k] = path[k])
  <2>1. CASE path' = path  BY <2>1
  <2>2. CASE path' = Store(path, cp, y)
    <3> HIDE DEF cp
    <3> QED  BY <2>2 DEF Store
  <2> QED  BY <1>4, <2>1, <2>2
<1>13. /\ spent' \in [Clients -> Nat] /\ spent'[c] = spent[c] + d
       /\ \A k \in Clients \ {c} : spent'[k] = spent[k]
  BY <1>1, <1>4, <1>7 DEF TypeOK
<1>14. TypeOK'
  <2>1. DOMAIN bucket' \subseteq Clients /\ bucket' \in [DOMAIN bucket' -> Bucket]
    BY <1>1, <1>4, <1>8, StoreTyped DEF TypeOK
  <2>2. DOMAIN path' \subseteq Clients \X Paths /\ path' \in [DOMAIN path' -> Bucket]
    <3>1. cp \in Clients \X Paths  OBVIOUS
    <3> HIDE DEF cp
    <3>2. DOMAIN path \subseteq Clients \X Paths /\ path \in [DOMAIN path -> Bucket]  BY <1>1 DEF TypeOK
    <3> DEFINE S == Clients \X Paths
    <3>3. DOMAIN path \subseteq S /\ cp \in S  BY <3>1, <3>2
    <3> HIDE DEF S
    <3>4. DOMAIN path' \subseteq S /\ path' \in [DOMAIN path' -> Bucket]
      <4>1. CASE path' = path  BY <3>2, <3>3, <4>1
      <4>2. CASE path' = Store(path, cp, y)  BY <1>8, <3>2, <3>3, <4>2, StoreTyped
      <4> QED  BY <1>4, <4>1, <4>2
    <3> QED  BY <3>4 DEF S
  <2>3. call' \in [Callers -> Calls]  BY <1>1, IdleCall, OneMoves
  <2> QED  BY <1>1, <1>13, <2>1, <2>2, <2>3 DEF TypeOK
<1>15. Clock'
  <2>1. call'[g].stage = "idle" /\ \A h \in Callers \ {g} : call'[h] = call[h]  BY <1>1, IdleCall, OneMoves
  <2>2. \A h \in Callers : Prompt(h)'  BY <1>1, <2>1 DEF Clock, Prompt
  <2> QED  BY <1>1, <2>2 DEF Clock
<1>16. ASSUME NEW r \in Rates, Rates = {r} PROVE Solvency(r)'
  <2>1. Solvency(r) /\ Solvent(x, r) /\ Solvent(y, r)  BY <1>9, <1>16 DEF Inv
  <2>2. \A k \in DOMAIN bucket' : Solvent(bucket'[k], r)
    BY <1>11, <2>1 DEF Solvency
  <2>3. \A k \in DOMAIN path' : Solvent(path'[k], r)
    BY <1>12, <2>1 DEF Solvency
  <2> QED  BY <1>1, <2>2, <2>3 DEF Solvency, Solvent
<1>17. ASSUME NEW r \in Rates, NEW b \in Bursts, Governs(r, b), NEW k \in Clients PROVE Paid(k, r, b)'
  <2>1. CASE k = c
    BY <1>8, <1>10, <1>11, <1>13, <1>17, <2>1 DEF Paid
  <2>2. CASE k # c
    <3>1. Paid(k, r, b)  BY <1>17 DEF Inv
    <3> QED  BY <1>1, <1>11, <1>13, <2>2, <3>1 DEF Paid
  <2> QED  BY <2>1, <2>2
<1> QED  BY <1>14, <1>15, <1>16, <1>17 DEF Inv

----------------------------------------------------------------------------
(* The theorems *)

\* At the start nobody has a bucket and nobody has spent anything.
LEMMA InitInv == Init => Inv
<1> SUFFICES ASSUME Init PROVE Inv  OBVIOUS
<1>1. \A g \in Callers : call[g].stage = "idle"  BY IdleCall DEF Init
<1>2. TypeOK
  <2>1. call \in [Callers -> Calls] /\ spent \in [Clients -> Nat]  BY IdleCall DEF Init
  <2>2. DOMAIN bucket = {} /\ bucket \in [DOMAIN bucket -> Bucket]  BY DEF Init
  <2>3. DOMAIN path = {} /\ path \in [DOMAIN path -> Bucket]  BY DEF Init
  <2>4. sweep \in [cutoff : Int, perPath : BOOLEAN, todo : SUBSET Clients]  BY DEF Init
  <2> QED  BY <2>1, <2>2, <2>3, <2>4 DEF Init, TypeOK
<1>3. Clock  BY <1>1 DEF Init, Clock, Prompt
<1>4. (\A r \in Rates : Solvency(r)) /\ \A r \in Rates, b \in Bursts, c \in Clients : Paid(c, r, b)
  BY DEF Init, Solvency, Paid
<1> QED  BY <1>2, <1>3, <1>4 DEF Inv

\* Every step preserves the invariant.
LEMMA NextInv == Inv /\ [Next]_vars => Inv'
<1> SUFFICES ASSUME Inv, [Next]_vars PROVE Inv'  OBVIOUS
<1>1. ASSUME NEW g \in Callers, NEW c \in Clients, NEW p \in Paths \cup {NoPath}, NEW cost \in Costs,
             AllowN(g, c, p, cost)
      PROVE  Inv'
  BY <1>1, AllowNInv
<1>2. ASSUME NEW g \in Callers, ReadClock(g) \/ Commit(g) PROVE Inv'  BY <1>2, ReadClockInv, CommitInv
<1>3. ASSUME NEW c \in Clients, SweepClient(c) PROVE Inv'  BY <1>3, SweepClientInv
<1>4. CASE SweepStart \/ Update \/ Tick  BY <1>4, SweepStartInv, UpdateInv, TickInv
<1>5. CASE UNCHANGED vars
  <2>1. TypeOK' /\ Clock'  BY <1>5 DEF Inv, TypeOK, Clock, Prompt, vars
  <2> QED  BY <1>5, <2>1, BucketsSame DEF vars
<1> QED  BY <1>1, <1>2, <1>3, <1>4, <1>5 DEF Next

\* The conjunction is an invariant of the limiter.
THEOREM Invariance == Spec => []Inv
<1> QED  BY InitInv, NextInv, PTL DEF Spec

\* Buckets, calls and sweeper keep to their types.
THEOREM TypeCorrect == Spec => []TypeOK
<1>1. Inv => TypeOK  BY DEF Inv
<1> QED  BY <1>1, Invariance, PTL

\* A bucket's debt is at most the refill of MaxLag.
THEOREM DebtIsBounded == Spec => []DebtBound
<1>1. ASSUME Inv, NEW r \in Rates, Rates = {r}
      PROVE  /\ \A c \in DOMAIN bucket : bucket[c].tokens >= -r * MaxLag
             /\ \A cp \in DOMAIN path : path[cp].tokens >= -r * MaxLag
  <2>1. TypeOK /\ Solvency(r) /\ r * MaxLag \in Nat  BY <1>1, LimiterConstants DEF Inv
  <2>2. ASSUME NEW e \in Bucket, Solvent(e, r) PROVE e.tokens >= -r * MaxLag
    BY <2>1, <2>2, LimiterConstants DEF Solvent, Bucket
  <2> QED  BY <2>1, <2>2 DEF Solvency, TypeOK
<1>2. Inv => DebtBound  BY <1>1 DEF DebtBound
<1> QED  BY <1>2, Invariance, PTL

\* Under one rate no client is allowed more than the largest burst and the refill
\* since the limiter started.
THEOREM SpendIsBounded == Spec => []SpendBound
<1>1. ASSUME Inv, NEW r \in Rates, NEW b \in Bursts, Governs(r, b), NEW c \in Clients
      PROVE  spent[c] <= b + r * (now - 1)
  <2>1. /\ TypeOK /\ Clock /\ Solvency(r) /\ Paid(c, r, b) /\ r \in Nat /\ b \in Nat /\ MaxLag \in Nat
        /\ spent[c] \in Nat /\ now \in Nat /\ now >= 1
    BY <1>1, LimiterConstants DEF Inv, Governs, TypeOK, Clock
  <2>2. CASE c \in DOMAIN bucket
    <3> DEFINE e == bucket[c]
    <3>1. e \in Bucket /\ Solvent(e, r) /\ spent[c] + e.tokens <= b + r * (e.last - 1)
      BY <2>1, <2>2 DEF TypeOK, Solvency, Paid
    <3> HIDE DEF e
    <3>2. e.tokens \in Int /\ e.last \in Int /\ 0 <= e.tokens + r * (now - e.last)  BY <3>1 DEF Bucket, Solvent
    <3>3. r * (now - e.last) = r * now - r * e.last  BY <2>1, <3>2, Distribute
    <3>4. r * (e.last - 1) = r * e.last - r * 1  BY <2>1, <3>2, Distribute
    <3>5. r * (now - 1) = r * now - r * 1  BY <2>1, Distribute
    <3>6. r * now \in Int /\ r * e.last \in Int /\ r * 1 \in Int  BY <2>1, <3>2
    <3> QED  BY <2>1, <3>1, <3>2, <3>3, <3>4, <3>5, <3>6
  <2>3. CASE c \notin DOMAIN bucket
    <3>1. r * 0 <= r * (now - 1) /\ r * (now - 1 - MaxLag) <= r * (now - 1)  BY <2>1, Monotone
    <3>2. r * (now - 1) \in Int /\ r * (now - 1 - MaxLag) \in Int /\ r * 0 = 0  BY <2>1
    <3> QED  BY <2>1, <2>3, <3>1, <3>2 DEF Paid
  <2> QED  BY <2>2, <2>3
<1>2. Inv => SpendBound  BY <1>1 DEF SpendBound, Governs
<1> QED  BY <1>2, Invariance, PTL

\* The two bounds, as the run checks them.
THEOREM LimitsAreKept == Spec => []SpendBounded
<1>1. SpendBound /\ DebtBound => SpendBounded  BY DEF SpendBounded
<1> QED  BY <1>1, SpendIsBounded, DebtIsBounded, PTL
============================================================================
