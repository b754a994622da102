----------------------------- MODULE Challenge -----------------------------
(***************************************************************************)
(* The browser challenge: challenge.Manager (internal/challenge) and the   *)
(* pipeline handlers that drive it (serveChallenge, handleChallengeV1GET,  *)
(* handleChallengePOST and the soft pass of guard).                        *)
(*                                                                         *)
(* A challenge is a signed token: its nonce, the client it is bound to,    *)
(* its expiry and its gate.  A solved one is redeemed once for a clearance *)
(* cookie: the nonce goes into a map of used nonces, which a sweeper       *)
(* clears of expired ones.  A risk cache remembers, per client, how hard   *)
(* and how visible the next challenge is to be.  Each of the two maps has  *)
(* its own lock, taken for one get or put at a time, so a handler is       *)
(* several steps of its goroutine.                                         *)
(*                                                                         *)
(* The clock counts the whole seconds of time.Now().Unix().  Signatures    *)
(* and proofs of work are not computed: a payload is a token the manager   *)
(* issued with a right or wrong solution, or a forgery.  Legacy tokens     *)
(* (Manager.Issue) are minted by no handler, so that branch of the POST    *)
(* handler only ever answers "invalid token" and changes nothing.          *)
(***************************************************************************)
EXTENDS Integers, FiniteSets

CONSTANTS
    Clients,      \* client bind keys
    Nonces,       \* the random nonces
    Goroutines,   \* handlers running at once
    Modes,        \* challenge modes an operator may configure
    Captchas,     \* whether an external captcha may be configured
    TokenTTL,     \* tokenTTL, 300 seconds in the code
    MaxLag,       \* whole seconds between ConsumeNonce's clock and its lock
    MaxTime,      \* bound: the clock stops here
    MaxStrikes    \* bound: strikes per client

ASSUME ChallengeConstants ==
    /\ Modes \subseteq {"detect", "always", "attack"} /\ Modes # {}
    /\ Captchas \subseteq BOOLEAN /\ Captchas # {}
    /\ {TokenTTL, MaxLag, MaxTime, MaxStrikes} \subseteq Nat

VARIABLES
    now,        \* the wall clock, in seconds
    cfg,        \* Handler.cfg.Challenge: mode and captcha
    tokens,     \* the challenges issued so far, by nonce
    used,       \* nonceStore: used nonces and their expiry
    risks,      \* riskCache.byID
    req,        \* for each goroutine, the handler it runs
    sweep,      \* the nonce sweeper
    strikes,    \* strikes the handlers gave: on behaviour, on the guard
    redeemed,   \* history: how often each nonce was consumed
    cleared,    \* history: how many clearance cookies each nonce bought
    failed      \* history: until when a client's last failure is to be remembered; 0
                \* if a request of the client was under way, or a soft pass followed

vars == <<now, cfg, tokens, used, risks, req, sweep, strikes, redeemed, cleared, failed>>

GateConfig == [mode : Modes, captcha : Captchas]

RiskLow == 0
RiskElevated == 1
RiskHigh == 2
Risks == {RiskLow, RiskElevated, RiskHigh}

GateInvisible == "invisible"
GateInteractive == "interactive"
Gates == {GateInvisible, GateInteractive}
NoGate == ""

Idle == [stage |-> "idle"]
----------------------------------------------------------------------------
(* Risk and presentation. *)

SelectGate(mode, risk) ==
    IF mode = "attack" \/ risk >= RiskHigh THEN GateInteractive ELSE GateInvisible

ResolveGate(mode, risk, prevGate, captcha) ==
    IF prevGate = GateInteractive \/ captcha THEN GateInteractive ELSE SelectGate(mode, risk)

FloorRiskForMode(mode, risk) ==
    IF mode = "attack" /\ risk < RiskElevated THEN RiskElevated ELSE risk

Higher(a, b) == IF a > b THEN a ELSE b

Put(f, x, v) == [y \in DOMAIN f \cup {x} |-> IF y = x THEN v ELSE f[y]]

\* Fault: an entry is read as missing in the last second of its life.
TakeChallenge_Early(c) ==
    IF c \in DOMAIN risks /\ risks[c].exp > now
      THEN [level |-> risks[c].level, gate |-> risks[c].gate]
      ELSE [level |-> RiskLow, gate |-> NoGate]

\* riskCache.get: an expired entry reads as a missing one.
TakeChallenge(c) ==
    IF c \in DOMAIN risks /\ risks[c].exp >= now
      THEN [level |-> risks[c].level, gate |-> risks[c].gate]
      ELSE [level |-> RiskLow, gate |-> NoGate]

\* riskCache.put
RememberChallenge(c, risk, gate) ==
    risks' = Put(risks, c, [level |-> risk, gate |-> gate, exp |-> now + TokenTTL])

----------------------------------------------------------------------------
Init ==
    /\ now = 1
    /\ cfg \in GateConfig
    /\ tokens = [n \in {} |-> 0]
    /\ used = [n \in {} |-> 0]
    /\ risks = [c \in {} |-> 0]
    /\ req = [g \in Goroutines |-> Idle]
    /\ sweep = [cutoff |-> 0, todo |-> {}, risks |-> FALSE]
    /\ strikes = [c \in Clients |-> [beh |-> 0, prot |-> 0]]
    /\ redeemed = [n \in Nonces |-> 0]
    /\ cleared = [n \in Nonces |-> 0]
    /\ failed = [c \in Clients |-> 0]

history == <<strikes, redeemed, cleared, failed>>

\* serveChallenge: read the cache ...
ServeChallenge(g, c, risk) ==
    LET prev == TakeChallenge(c)
        level == Higher(prev.level, FloorRiskForMode(cfg.mode, risk)) IN
    /\ req[g] = Idle
    /\ req' = [req EXCEPT ![g] = [stage |-> "page", client |-> c, risk |-> level,
                 gate |-> ResolveGate(cfg.mode, level, prev.gate, cfg.captcha)]]
    /\ UNCHANGED <<now, cfg, tokens, used, risks, sweep, history>>

\* ... and write it back, with the lock released in between.
PageRemember(g) ==
    /\ req[g].stage = "page"
    /\ RememberChallenge(req[g].client, req[g].risk, req[g].gate)
    /\ req' = [req EXCEPT ![g] = Idle]
    /\ UNCHANGED <<now, cfg, tokens, used, sweep, history>>

\* guard, for a same-origin subrequest that can not show a page: it is let
\* through and the cache is written without having been read.
SoftPass(c, score) ==
    LET risk == FloorRiskForMode(cfg.mode, score) IN
    /\ RememberChallenge(c, risk, ResolveGate(cfg.mode, risk, NoGate, cfg.captcha))
    /\ failed' = [failed EXCEPT ![c] = 0]
    /\ UNCHANGED <<now, cfg, tokens, used, req, sweep, strikes, redeemed, cleared>>

\* Fault: the challenge is issued without a look at the cache.
ChallengeV1GET_Fresh(g, c) ==
    /\ req[g] = Idle
    /\ req' = [req EXCEPT ![g] = [stage |-> "issue", client |-> c,
                 gate |-> ResolveGate(cfg.mode, RiskLow, NoGate, cfg.captcha)]]
    /\ UNCHANGED <<now, cfg, tokens, used, risks, sweep, history>>

\* handleChallengeV1GET: read the cache ...
ChallengeV1GET(g, c) ==
    LET prev == TakeChallenge(c)
        level == FloorRiskForMode(cfg.mode, prev.level) IN
    /\ req[g] = Idle
    /\ req' = [req EXCEPT ![g] = [stage |-> "issue", client |-> c,
                 gate |-> ResolveGate(cfg.mode, level, prev.gate, cfg.captcha)]]
    /\ UNCHANGED <<now, cfg, tokens, used, risks, sweep, history>>

\* ... and sign a token with a fresh nonce.
IssueChallenge(g) ==
    /\ req[g].stage = "issue"
    /\ \E n \in Nonces \ DOMAIN tokens :
         tokens' = Put(tokens, n, [bind |-> req[g].client, expires |-> now + TokenTTL,
                                   gate |-> req[g].gate])
    /\ req' = [req EXCEPT ![g] = Idle]
    /\ UNCHANGED <<now, cfg, used, risks, sweep, history>>

----------------------------------------------------------------------------
(* handleChallengePOST with a widget payload. *)

\* A handler has read the cache for c and not come to its end.
Reading(c) == \E g \in Goroutines : req[g].stage \in {"page", "issue"} /\ req[g].client = c

\* The three ways a POST fails all strike the client and remember the failure.
Fail(c, guardToo) ==
    /\ strikes[c].beh < MaxStrikes
    /\ strikes' = [strikes EXCEPT ![c] = [beh |-> strikes[c].beh + 1,
                     prot |-> strikes[c].prot + (IF guardToo THEN 1 ELSE 0)]]
    /\ RememberChallenge(c, RiskHigh, GateInteractive)
    /\ failed' = [failed EXCEPT ![c] = IF Reading(c) THEN 0 ELSE now + TokenTTL]

\* VerifyPayload refuses a forgery, another client's token, an expired one or
\* a wrong solution before it looks at the nonce.
PostRejected(g, c) ==
    /\ req[g] = Idle
    /\ Fail(c, FALSE)
    /\ UNCHANGED <<now, cfg, tokens, used, req, sweep, redeemed, cleared>>

\* The payload is sound, and ConsumeNonce finds it unexpired.
PostVerified(g, c, n) ==
    /\ req[g] = Idle
    /\ n \in DOMAIN tokens /\ tokens[n].bind = c
    /\ now <= tokens[n].expires
    /\ req' = [req EXCEPT ![g] = [stage |-> "consume", client |-> c, nonce |-> n, at |-> now]]
    /\ UNCHANGED <<now, cfg, tokens, used, risks, sweep, history>>

\* nonceStore.consume, under the shard's lock.
Consume(g) ==
    LET n == req[g].nonce IN
    /\ req[g].stage = "consume"
    /\ \/ /\ n \notin DOMAIN used
          /\ used' = Put(used, n, tokens[n].expires)
          /\ redeemed' = [redeemed EXCEPT ![n] = redeemed[n] + 1]
          /\ req' = [req EXCEPT ![g] = [req[g] EXCEPT !.stage = "judge"]]
          /\ UNCHANGED <<risks, strikes, failed>>
       \/ /\ n \in DOMAIN used
          /\ Fail(req[g].client, FALSE)
          /\ req' = [req EXCEPT ![g] = Idle]
          /\ UNCHANGED <<used, redeemed>>
    /\ UNCHANGED <<now, cfg, tokens, sweep, cleared>>

\* EvaluateEnv refuses: an automation signal, or an interactive token without
\* interaction.  The nonce is spent.
EnvRefused(g) ==
    /\ req[g].stage = "judge"
    /\ Fail(req[g].client, TRUE)
    /\ req' = [req EXCEPT ![g] = Idle]
    /\ UNCHANGED <<now, cfg, tokens, used, sweep, redeemed, cleared>>

\* The external captcha provider refuses.  The nonce is spent.
CaptchaRefused(g) ==
    /\ req[g].stage = "judge" /\ cfg.captcha
    /\ Fail(req[g].client, FALSE)
    /\ req' = [req EXCEPT ![g] = Idle]
    /\ UNCHANGED <<now, cfg, tokens, used, sweep, redeemed, cleared>>

\* Captchas were switched on without a provider: an internal error answers.
CaptchaMissing(g) ==
    /\ req[g].stage = "judge" /\ cfg.captcha
    /\ req' = [req EXCEPT ![g] = Idle]
    /\ UNCHANGED <<now, cfg, tokens, used, risks, sweep, history>>

\* The clearance cookie.
Clear(g) ==
    /\ req[g].stage = "judge"
    /\ cleared' = [cleared EXCEPT ![req[g].nonce] = cleared[req[g].nonce] + 1]
    /\ req' = [req EXCEPT ![g] = Idle]
    /\ UNCHANGED <<now, cfg, tokens, used, risks, sweep, strikes, redeemed, failed>>

----------------------------------------------------------------------------
\* SweepNonces(time.Now()): all shards of the used nonces, then the risk cache.
SweepStart ==
    /\ sweep.todo = {} /\ ~sweep.risks
    /\ sweep' = [cutoff |-> now, todo |-> Nonces, risks |-> TRUE]
    /\ UNCHANGED <<now, cfg, tokens, used, risks, req, history>>

Expired(exp, cutoff) == exp < cutoff

\* Fault: a nonce is dropped in the second in which it expires.
SweepNonce_Early(n) ==
    /\ n \in sweep.todo
    /\ sweep' = [sweep EXCEPT !.todo = sweep.todo \ {n}]
    /\ used' = [x \in DOMAIN used \ {y \in {n} \cap DOMAIN used : used[y] <= sweep.cutoff} |-> used[x]]
    /\ UNCHANGED <<now, cfg, tokens, risks, req, history>>

SweepNonce(n) ==
    /\ n \in sweep.todo
    /\ sweep' = [sweep EXCEPT !.todo = sweep.todo \ {n}]
    /\ used' = [x \in DOMAIN used \ {y \in {n} \cap DOMAIN used : Expired(used[y], sweep.cutoff)}
                  |-> used[x]]
    /\ UNCHANGED <<now, cfg, tokens, risks, req, history>>

SweepRisks ==
    /\ sweep.todo = {} /\ sweep.risks
    /\ sweep' = [sweep EXCEPT !.risks = FALSE]
    /\ risks' = [c \in {x \in DOMAIN risks : ~Expired(risks[x].exp, sweep.cutoff)} |-> risks[c]]
    /\ UNCHANGED <<now, cfg, tokens, used, req, history>>

\* Handler.ApplyConfig
ApplyGateConfig ==
    /\ cfg' \in GateConfig
    /\ UNCHANGED <<now, tokens, used, risks, req, sweep, history>>

\* The clock moves on, but no goroutine takes more than MaxLag from
\* ConsumeNonce's clock to the lock.
Tick ==
    /\ now < MaxTime
    /\ \A g \in Goroutines : req[g].stage = "consume" => now < req[g].at + MaxLag
    /\ now' = now + 1
    /\ UNCHANGED <<cfg, tokens, used, risks, req, sweep, history>>

Next ==
    \/ \E g \in Goroutines, c \in Clients, risk \in Risks : ServeChallenge(g, c, risk)
    \/ \E c \in Clients, score \in Risks : SoftPass(c, score)
    \/ \E g \in Goroutines, c \in Clients : ChallengeV1GET(g, c) \/ PostRejected(g, c)
    \/ \E g \in Goroutines, c \in Clients, n \in Nonces : PostVerified(g, c, n)
    \/ \E g \in Goroutines : PageRemember(g) \/ IssueChallenge(g) \/ Consume(g)
    \/ \E g \in Goroutines : EnvRefused(g) \/ CaptchaRefused(g) \/ CaptchaMissing(g) \/ Clear(g)
    \/ \E n \in Nonces : SweepNonce(n)
    \/ SweepStart \/ SweepRisks \/ ApplyGateConfig \/ Tick

Spec == Init /\ [][Next]_vars

----------------------------------------------------------------------------
\* What a handler keeps between the steps of its goroutine.
Handlers ==
    {Idle}
      \cup [stage : {"page"}, client : Clients, risk : Risks, gate : Gates]
      \cup [stage : {"issue"}, client : Clients, gate : Gates]
      \cup [stage : {"consume", "judge"}, client : Clients, nonce : Nonces, at : Nat]

TypeOK ==
    /\ now \in Nat /\ cfg \in GateConfig
    /\ DOMAIN tokens \subseteq Nonces /\ DOMAIN used \subseteq Nonces /\ DOMAIN risks \subseteq Clients
    /\ tokens \in [DOMAIN tokens -> [bind : Clients, expires : Nat, gate : Gates]]
    /\ used \in [DOMAIN used -> Nat]
    /\ risks \in [DOMAIN risks -> [level : Risks, gate : Gates, exp : Nat]]
    /\ req \in [Goroutines -> Handlers]
    /\ sweep \in [cutoff : Nat, todo : SUBSET Nonces, risks : BOOLEAN]
    /\ strikes \in [Clients -> [beh : Nat, prot : Nat]]
    /\ redeemed \in [Nonces -> Nat] /\ cleared \in [Nonces -> Nat] /\ failed \in [Clients -> Nat]

\* A consumed nonce stays in the map for as long as its token is unexpired.
UsedUntilExpiry ==
    \A n \in DOMAIN tokens : redeemed[n] > 0 /\ now <= tokens[n].expires => n \in DOMAIN used

\* A challenge is single-use: its nonce is consumed at most once, and buys at
\* most one clearance cookie, by any number of racing POSTs and sweeps, as long
\* as ConsumeNonce takes the lock within the second in which it read the clock;
\* and the sweeper keeps the nonce for as long as it could be sent again.
SingleUse ==
    /\ MaxLag = 0 => \A n \in Nonces : cleared[n] <= redeemed[n] /\ redeemed[n] <= 1
    /\ UsedUntilExpiry

\* A failed attempt is remembered for TokenTTL: the cache holds high risk and
\* the interactive gate, so the next challenge is interactive, whatever other
\* requests, sweeps and settings follow.  A handler of the same client that has
\* read the cache before the failure, or a soft pass after it, undoes it.
FailureRemembered ==
    \A c \in Clients : failed[c] > 0 /\ now <= failed[c] =>
      TakeChallenge(c) = [level |-> RiskHigh, gate |-> GateInteractive]

\* "High risk and failed invisible attempts escalate to interactive."
\* (configuration.md:391): no challenge issued while a failure is to be
\* remembered is invisible.
FailureEscalates ==
    [][\A g \in Goroutines :
         IssueChallenge(g) /\ failed[req[g].client] > 0 /\ now <= failed[req[g].client]
         => req[g].gate = GateInteractive]_vars
============================================================================
