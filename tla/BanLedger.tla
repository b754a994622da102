----------------------------- MODULE BanLedger -----------------------------
(***************************************************************************)
(* The strike and ban ledger of protect.Guard (internal/protect).          *)
(*                                                                         *)
(* Request goroutines call Strike, Banned, BanNow and BanUntil; the admin  *)
(* API calls Unban; the sweeper calls Sweep once per tick.  Every call     *)
(* loads the live configuration and reads the clock BEFORE it takes the    *)
(* shard's mutex, so what it applies under the mutex may be older than     *)
(* what another call has applied already.  A call is therefore several     *)
(* steps of its goroutine, and only the part under the mutex is atomic.    *)
(*                                                                         *)
(* Time is a natural number and 0 is Go's zero time.  The 64 shards only   *)
(* decide which calls serialise, and every call touches one key, so a key  *)
(* stands for its shard.                                                   *)
(***************************************************************************)
EXTENDS Integers, FiniteSets

CONSTANTS
    Clients,     \* client bind keys ("" never reaches the ledger)
    Callers,     \* goroutines that may be inside the ledger at once
    Afters,      \* values of BanAfterStrikes an operator may configure
    TTLs,        \* values of BanTTL an operator may configure
    Escs,        \* values of BanEscalation an operator may configure
    Lengths,     \* durations passed to BanUntil (honeypot, fleet threats)
    MaxAge,      \* retention passed to Sweep
    MaxTime,     \* bound: the clock stops here
    MaxStrikes,  \* bound: strikes one entry can collect
    MaxBans      \* bound: bans one entry can collect

ASSUME BanConstants ==
    /\ Afters \subseteq Nat \ {0} /\ Afters # {}
    /\ TTLs \subseteq Nat \ {0} /\ TTLs # {}
    /\ Escs \subseteq Nat /\ Escs # {}
    /\ Lengths \subseteq Nat
    /\ {MaxAge, MaxTime, MaxStrikes, MaxBans} \subseteq Nat

\* True of all naturals; stated for the proofs, which have no exponentiation.
ASSUME Doublings == \A esc \in Escs : \A i \in 0..esc : 2^i \in Nat \ {0}

VARIABLES
    now,        \* the wall clock
    ledgerCfg,  \* Guard.cfg, the part the ledger reads
    ents,       \* banShard.ents: a function whose domain is the keys present
    pool,       \* banEntryPool: what the entries put back were left holding
    call,       \* for each goroutine, the call it is in
    sweep       \* the sweeper: the cutoff it computed and the keys still to visit

ledgerVars == <<now, ledgerCfg, ents, pool, call, sweep>>

Config == [enabled : BOOLEAN, after : Afters, ttl : TTLs, esc : Escs]

Entry == [until : Nat, strikes : Nat, windowStart : Nat, bans : Nat]

Ent(until, strikes, windowStart, bans) ==
    [until |-> until, strikes |-> strikes, windowStart |-> windowStart, bans |-> bans]

ZeroEntry == Ent(0, 0, 0, 0)

CallStages == {"enter", "clock", "lock"}
Ops == {"Strike", "Banned", "BanNow", "BanUntil"}

Call == [op : Ops, stage : CallStages, key : Clients, cfg : Config, at : Nat, until : Nat]

Idle == [stage |-> "idle"]

----------------------------------------------------------------------------
(* The map and the pool. *)

Put(k, e) == [x \in DOMAIN ents \cup {k} |-> IF x = k THEN e ELSE ents[x]]

Drop(k) == [x \in DOMAIN ents \ {k} |-> ents[x]]

\* sync.Pool hands out an entry someone put back, or a new one.  Nothing is
\* ever removed here: the pool may hold any number of equal entries.
Pooled == pool \cup {ZeroEntry}

Active(k) == k \in DOMAIN ents /\ ents[k].until # 0 /\ now <= ents[k].until

----------------------------------------------------------------------------
LedgerInit ==
    /\ now = 1
    /\ ledgerCfg \in Config
    /\ ents = [k \in {} |-> ZeroEntry]
    /\ pool = {}
    /\ call = [c \in Callers |-> Idle]
    /\ sweep = [cutoff |-> 0, todo |-> {}]

\* Goroutine c moves on in its call.
Step(c, op, stage, k, cf, at, until) ==
    call' = [call EXCEPT ![c] = [op |-> op, stage |-> stage, key |-> k, cfg |-> cf,
                                 at |-> at, until |-> until]]

Enter(c, op, stage, k, until) ==
    /\ call[c] = Idle
    /\ Step(c, op, stage, k, ledgerCfg, 0, until)
    /\ UNCHANGED <<now, ledgerCfg, ents, pool, sweep>>

Done(c) == call' = [call EXCEPT ![c] = Idle]

\* Strike, Banned and BanNow load the configuration once, here, and return
\* at once when the guard is disabled.
Strike(c, k) == ledgerCfg.enabled /\ Enter(c, "Strike", "clock", k, 0)
Banned(c, k) == ledgerCfg.enabled /\ Enter(c, "Banned", "clock", k, 0)
BanNow(c, k) == ledgerCfg.enabled /\ Enter(c, "BanNow", "clock", k, 0)

\* BanUntil(key, time.Now().Add(length)): the expiry is computed by the caller.
BanUntil(c, k, length) == Enter(c, "BanUntil", "enter", k, now + length)

\* BanUntil loads the configuration itself, also when BanNow called it.
BanUntilLoad(c) ==
    /\ call[c].stage = "enter"
    /\ IF ledgerCfg.enabled
         THEN Step(c, "BanUntil", "clock", call[c].key, ledgerCfg, 0, call[c].until)
         ELSE Done(c)
    /\ UNCHANGED <<now, ledgerCfg, ents, pool, sweep>>

\* now := time.Now(), and what each call does with it before the mutex.
ReadClock(c) ==
    LET q == call[c] IN
    /\ q.stage = "clock"
    /\ \/ /\ q.op \in {"Strike", "Banned"}
          /\ Step(c, q.op, "lock", q.key, q.cfg, now, 0)
       \/ /\ q.op = "BanNow"
          /\ Step(c, "BanUntil", "enter", q.key, q.cfg, 0, now + q.cfg.ttl)
       \/ /\ q.op = "BanUntil" /\ q.until >= now
          /\ Step(c, "BanUntil", "lock", q.key, q.cfg, now, q.until)
       \/ /\ q.op = "BanUntil" /\ q.until < now
          /\ Done(c)
    /\ UNCHANGED <<now, ledgerCfg, ents, pool, sweep>>

----------------------------------------------------------------------------
(* The parts under the shard's mutex. *)

\* The duration of a client's n-th ban.  (The cap of the shift at 30 and the
\* width of the product are the subject of module BanDuration.)
banTTLWithEscalation(cf, n) ==
    IF cf.esc = 0 \/ n <= 1 THEN cf.ttl
    ELSE cf.ttl * 2^(IF n - 1 < cf.esc THEN n - 1 ELSE cf.esc)

\* The entry a strike starts from: a pooled one, of which Strike overwrites the
\* ban and the count of bans but not the strikes, or the key's own, cleared
\* except for its bans when the strike window has lapsed.
StrikeBase(k, at, ttl) ==
    IF k \notin DOMAIN ents
      THEN {Ent(0, p.strikes, at, 0) : p \in Pooled}
      ELSE IF at - ents[k].windowStart > ttl
             THEN {Ent(0, 0, at, ents[k].bans)}
             ELSE {ents[k]}

\* One more strike at time at, and the ban when they are exhausted.
Struck(e, at, cf) ==
    IF e.strikes + 1 < cf.after
      THEN [e EXCEPT !.strikes = e.strikes + 1]
      ELSE Ent(at + banTTLWithEscalation(cf, e.bans + 1), e.strikes + 1,
               e.windowStart, e.bans + 1)

StrikeCommit(c) ==
    LET k == call[c].key  at == call[c].at  cf == call[c].cfg IN
    /\ call[c].stage = "lock" /\ call[c].op = "Strike"
    /\ \E e \in StrikeBase(k, at, cf.ttl) :
         /\ e.strikes < MaxStrikes /\ e.bans < MaxBans
         /\ ents' = Put(k, Struck(e, at, cf))
    /\ Done(c)
    /\ UNCHANGED <<now, ledgerCfg, pool, sweep>>

\* Fault: an expired ban is cleared and its strikes are kept.
Settled_KeepsStrikes(e, at) == IF e.until # 0 /\ at > e.until THEN [e EXCEPT !.until = 0] ELSE e

\* Fault: clearing an expired ban forgets how many there were.
Settled_ForgetsBans(e, at) ==
    IF e.until # 0 /\ at > e.until THEN Ent(0, 0, e.windowStart, 0) ELSE e

\* Banned clears a ban it finds expired: the count of bans is remembered.
Settled(e, at) ==
    IF e.until # 0 /\ at > e.until THEN Ent(0, 0, e.windowStart, e.bans) ELSE e

BannedCommit(c) ==
    LET k == call[c].key IN
    /\ call[c].stage = "lock" /\ call[c].op = "Banned"
    /\ ents' = IF k \in DOMAIN ents THEN Put(k, Settled(ents[k], call[c].at)) ELSE ents
    /\ Done(c)
    /\ UNCHANGED <<now, ledgerCfg, pool, sweep>>

\* The key's old entry goes to the pool zeroed; a new one takes its bans.
BanUntilCommit(c) ==
    LET k == call[c].key
        had == k \in DOMAIN ents
        bans == IF had THEN ents[k].bans ELSE 0 IN
    /\ call[c].stage = "lock" /\ call[c].op = "BanUntil"
    /\ bans < MaxBans
    /\ pool' = IF had THEN pool \cup {ZeroEntry} ELSE pool
    /\ ents' = Put(k, Ent(call[c].until, call[c].cfg.after, call[c].at, bans + 1))
    /\ Done(c)
    /\ UNCHANGED <<now, ledgerCfg, sweep>>

\* Fault: an entry goes back to the pool with its strikes.
PutBack_KeepsStrikes(e) == Ent(0, e.strikes, 0, e.bans)

\* What Sweep and Unban leave in an entry they put back: all but bans is zeroed.
PutBack(e) == Ent(0, 0, 0, e.bans)

\* Unban and ClearStrikes: the admin API and a fleet command.
Unban(k) ==
    /\ k \in DOMAIN ents
    /\ ents' = Drop(k)
    /\ pool' = pool \cup {PutBack(ents[k])}
    /\ UNCHANGED <<now, ledgerCfg, call, sweep>>

SweepStart ==
    /\ sweep.todo = {}
    /\ sweep' = [cutoff |-> now - MaxAge, todo |-> Clients]
    /\ UNCHANGED <<now, ledgerCfg, ents, pool, call>>

\* Fault: the age of the strike window alone decides.
Stale_IgnoresBan(e, cutoff) == e.windowStart < cutoff

Stale(e, cutoff) ==
    \/ e.until # 0 /\ e.until < cutoff
    \/ e.until = 0 /\ e.windowStart < cutoff

\* The sweep of one shard: its cutoff was computed when the sweep started.
SweepKey(k) ==
    /\ k \in sweep.todo
    /\ sweep' = [sweep EXCEPT !.todo = sweep.todo \ {k}]
    /\ IF k \in DOMAIN ents /\ Stale(ents[k], sweep.cutoff)
         THEN ents' = Drop(k) /\ pool' = pool \cup {PutBack(ents[k])}
         ELSE UNCHANGED <<ents, pool>>
    /\ UNCHANGED <<now, ledgerCfg, call>>

----------------------------------------------------------------------------
\* UpdateConfig, called under the runtime's lock.  A zero leaves its field
\* alone, so an escalation that is on can not be turned off.
Kept(new, old) == IF new > 0 THEN new ELSE old

UpdateBanConfig ==
    /\ \E on \in BOOLEAN, after \in Afters \cup {0}, ttl \in TTLs \cup {0}, esc \in Escs \cup {0} :
         ledgerCfg' = [enabled |-> on, after |-> Kept(after, ledgerCfg.after),
                       ttl |-> Kept(ttl, ledgerCfg.ttl), esc |-> Kept(esc, ledgerCfg.esc)]
    /\ UNCHANGED <<now, ents, pool, call, sweep>>

Tick ==
    /\ now < MaxTime
    /\ now' = now + 1
    /\ UNCHANGED <<ledgerCfg, ents, pool, call, sweep>>

LedgerNext ==
    \/ \E c \in Callers, k \in Clients : Strike(c, k) \/ Banned(c, k) \/ BanNow(c, k)
    \/ \E c \in Callers, k \in Clients, length \in Lengths : BanUntil(c, k, length)
    \/ \E c \in Callers : BanUntilLoad(c) \/ ReadClock(c)
    \/ \E c \in Callers : StrikeCommit(c) \/ BannedCommit(c) \/ BanUntilCommit(c)
    \/ \E k \in Clients : Unban(k) \/ SweepKey(k)
    \/ SweepStart \/ UpdateBanConfig \/ Tick

LedgerSpec == LedgerInit /\ [][LedgerNext]_ledgerVars

----------------------------------------------------------------------------
(* Type correctness. *)
LedgerTyped ==
    /\ now \in Nat /\ ledgerCfg \in Config
    /\ DOMAIN ents \subseteq Clients /\ ents \in [DOMAIN ents -> Entry]
    /\ pool \subseteq Entry
    /\ call \in [Callers -> Call \cup {Idle}]
    /\ sweep \in [cutoff : Int, todo : SUBSET Clients]

\* An entry holds a ban exactly when its strikes are exhausted, whatever the
\* order in which calls with old clocks and old configurations reach the mutex:
\* a ban is never recorded on fewer strikes than some configured
\* BanAfterStrikes, and strikes that reach every configured value carry a ban.
\* (Strike 275-279, Banned 239-245, BanUntil 326-330.)
StrikesMatchBan ==
    \A k \in DOMAIN ents :
      /\ ents[k].until # 0 => \E a \in Afters : ents[k].strikes >= a
      /\ (\A a \in Afters : ents[k].strikes >= a) => ents[k].until # 0

\* A client that was not in the map starts clean although its entry is taken
\* from a pool of other clients' entries, whose strikes Strike does not reset:
\* it is banned once or not at all, and if it was struck it has one strike.
FreshEntryClean ==
    [][\A k \in Clients : k \notin DOMAIN ents /\ k \in DOMAIN ents' =>
         /\ ents'[k].bans <= 1 /\ (ents'[k].bans = 1 <=> ents'[k].until # 0)
         /\ (\E c \in Callers : StrikeCommit(c)) => ents'[k].strikes = 1]_ledgerVars

\* A running ban is cut short by nothing but the operator, a newer ban or
\* strike on the same client: no sweep (however old its cutoff), no Banned
\* (however old its clock) and no call about another client ends it.
BanEndsOnlyBy ==
    [][\A k \in Clients : Active(k) /\ ~(k \in DOMAIN ents' /\ ents'[k].until >= ents[k].until) =>
         \/ Unban(k)
         \/ \E c \in Callers : (BanUntilCommit(c) \/ StrikeCommit(c)) /\ call[c].key = k]_ledgerVars

\* Escalation memory: while a client has an entry its count of bans never
\* goes down, and only the operator or a sweep that finds the entry dormant for
\* MaxAge (no ban and no window younger than that) removes it.
EscalationMemory ==
    [][\A k \in DOMAIN ents :
         IF k \in DOMAIN ents' THEN ents'[k].bans >= ents[k].bans
         ELSE \/ Unban(k)
              \/ SweepKey(k) /\ ~Active(k)
                 /\ ents[k].until < now - MaxAge
                 /\ (ents[k].until = 0 => ents[k].windowStart < now - MaxAge)]_ledgerVars
============================================================================
