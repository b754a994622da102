---------------------------- MODULE RequestGuard ---------------------------
(***************************************************************************)
(* The life of a request in pipeline.Handler.guard: the order of the       *)
(* checks, their early returns, what each of them does to the client's     *)
(* standing, and which of them read the configuration and the route table  *)
(* afresh.                                                                 *)
(*                                                                         *)
(* guard copies the configuration once, but several settings live in       *)
(* fields or components of their own that it reads when it gets there, and *)
(* it looks the route up again for every question it asks.  ApplyConfig    *)
(* and Table.Replace may come in between.                                  *)
(*                                                                         *)
(* What a request is - its client, its transport, what it matches and what *)
(* it scores by itself - is fixed when it arrives.  What depends on state  *)
(* modelled elsewhere (slots, strikes, buckets, trackers, health) is a free choice. *)
(***************************************************************************)
EXTENDS Naturals

CONSTANTS
    Requests,   \* goroutines of the server
    Clients,    \* client bind keys
    Facts,      \* the requests that may arrive, a subset of Fact
    Configs,    \* the configurations an operator applies, a subset of Config
    Tables      \* the routing tables an operator applies, a subset of Table

\* Transports: a page load or anything on a hot forge path, a WebSocket upgrade,
\* a same-origin event stream, a same-origin subrequest that can not show a page,
\* git over smart HTTP.
Kinds == {"page", "ws", "sse", "xhr", "git"}

\* What the request matches: a block list, overlay or feed; a trap path; a
\* builtin attack signature.
Matches == {"none", "list", "trap", "attack"}

\* The score of the request by itself, against ChallengeScore = 1 and
\* BlockScore = 2, and how the semantic engine rates it: below 50, below 80, from
\* 80 on, or over its budget with strict_budget set.
Scores == 0..2
Ratings == {"none", "weak", "mid", "strong", "abort"}

Fact == [client : Clients, kind : Kinds, allowed : BOOLEAN, cookie : BOOLEAN,
         auth : BOOLEAN, match : Matches, score : Scores, rating : Ratings]

Engines == {"off", "shadow", "challenge", "block"}
Actions == {"off", "challenge", "block", "tarpit"}

Config == [chal : BOOLEAN, always : BOOLEAN, prot : BOOLEAN, attackBlock : BOOLEAN,
           rate : BOOLEAN, over : BOOLEAN, detect : BOOLEAN, waf : BOOLEAN, coraza : {"detect", "block"},
           sem : Engines, ml : Engines, trap : Actions \cup {"ban"}, nf : Actions,
           pen : Actions, ai : {"allow", "block", "pay"}]

Table == [up : {"app", "vault"}, policy : BOOLEAN, schema : BOOLEAN, skip : BOOLEAN]

ASSUME GuardConstants ==
    /\ Facts \subseteq Fact /\ Facts # {}
    /\ Configs \subseteq Config /\ Configs # {}
    /\ Tables \subseteq Table /\ Tables # {}

VARIABLES
    mgr,        \* Handler.chal is not nil: decided when the process starts
    next,       \* the configuration Runtime.ApplySafeConfig is applying, or applied
    phase,      \* the component it comes to next, or "idle"
    cfg,        \* the settings in force: in Handler, Guard and the engines
    table,      \* router.Table: what a lookup of the request finds
    banned,     \* protect.Guard: the clients banned
    stage,      \* where each request is in guard
    facts,      \* what each request is
    conf,       \* guard's copy of the configuration
    sse,        \* isSameOriginSSE
    need,       \* needChallenge and semNeedChal
    extra,      \* mlExtra: points of the semantic and ML engines
    result,     \* how the request was answered
    events,     \* the events recorded for it
    up,         \* the upstream it was proxied to
    held        \* history: the settings that have held ever since it arrived

vars == <<mgr, next, phase, cfg, table, banned, stage, facts, conf, sse, need, extra,
          result, events, up, held>>

world == <<mgr, next, phase, cfg, table>>
input == <<facts, conf, sse, held>>
verdict == <<need, extra>>

\* What the settings in force and the routes may ask of a request.  Whether a
\* signature counts is asked of three settings, read one after the other.
Demand == {"challenge", "always", "traps", "signatures", "attackBlock", "unguarded", "policy"}

Demands(c, t) ==
    {d \in Demand :
       \/ d = "challenge" /\ c.chal /\ ~t.skip
       \/ d = "always" /\ c.always
       \/ d = "traps" /\ c.trap # "off"
       \/ d = "signatures" /\ c.coraza # "block"
       \/ d = "attackBlock" /\ c.attackBlock
       \/ d = "unguarded" /\ ~c.prot
       \/ d = "policy" /\ t.policy}

StillHeld(c, t) == held' = [r \in Requests |-> held[r] \cap Demands(c, t)]

AnyFact == CHOOSE f \in Facts : TRUE

\* What guard reads of its own copy of the configuration.
Copy(c) == [chal |-> c.chal, rate |-> c.rate, over |-> c.over, detect |-> c.detect]

NoCopy == [chal |-> FALSE, rate |-> FALSE, over |-> FALSE, detect |-> FALSE]

Init ==
    /\ cfg \in Configs /\ next = cfg /\ phase = "idle" /\ mgr = cfg.chal /\ table \in Tables
    /\ banned = {}
    /\ stage = [r \in Requests |-> "idle"]
    /\ facts = [r \in Requests |-> AnyFact] /\ conf = [r \in Requests |-> NoCopy]
    /\ sse = [r \in Requests |-> FALSE]
    /\ need = [r \in Requests |-> FALSE] /\ extra = [r \in Requests |-> 0]
    /\ result = [r \in Requests |-> "none"]
    /\ events = [r \in Requests |-> {}]
    /\ up = [r \in Requests |-> "none"]
    /\ held = [r \in Requests |-> {}]

----------------------------------------------------------------------------
(* Moving on, answering, and the client's standing. *)

Go(r, s) == stage' = [stage EXCEPT ![r] = s]

\* On to the next check, with or without an event: what an engine has detected
\* and does not deny is recorded under the engine's action all the same.
Log(r, s, evs) ==
    /\ Go(r, s)
    /\ events' = [events EXCEPT ![r] = events[r] \cup evs]
    /\ UNCHANGED <<result, up>>

Pass(r, s) == Log(r, s, {})

\* An early return: the response is written and the events recorded.
Answer(r, res, evs) ==
    /\ Go(r, "done")
    /\ result' = [result EXCEPT ![r] = res]
    /\ events' = [events EXCEPT ![r] = events[r] \cup evs]
    /\ UNCHANGED up

\* prot.BanNow or BanUntil.
Ban(c) == banned' = IF cfg.prot THEN banned \cup {c} ELSE banned

\* prot.Strike: the strike may be the one that bans, which BanLedger decides.
Strike(c) == UNCHANGED banned \/ Ban(c)

Client(r) == facts[r].client

\* The clients that neither scoring nor a challenge applies to.
Exempt(r) == facts[r].allowed \/ facts[r].kind = "git"

Stream(r) == facts[r].kind \in {"ws", "sse"}

\* serveChallenge: without a challenge manager, an error page.
ServeChallenge(r, evs) ==
    IF mgr THEN Answer(r, "challenge", evs \cup {"challenge"}) ELSE Answer(r, "error", evs)

----------------------------------------------------------------------------
(* guard, check by check. *)

Arrive(r, f) ==
    /\ stage[r] = "idle"
    /\ Go(r, "size")
    /\ facts' = [facts EXCEPT ![r] = f]
    /\ conf' = [conf EXCEPT ![r] = Copy(cfg)]
    /\ held' = [held EXCEPT ![r] = Demands(cfg, table)]
    /\ UNCHANGED <<world, banned, sse, verdict, result, events, up>>

\* CheckRequestSize; a disabled guard skips the ban and the slot as well.
CheckSize(r) ==
    /\ stage[r] = "size"
    /\ \/ cfg.prot /\ Answer(r, "block", {"block"})
       \/ Pass(r, IF cfg.prot THEN "banned" ELSE "lists")
    /\ UNCHANGED <<world, banned, input, verdict>>

Banned(r) ==
    /\ stage[r] = "banned"
    /\ IF cfg.prot /\ Client(r) \in banned THEN Answer(r, "block", {"block"})
                                           ELSE Pass(r, "acquire")
    /\ UNCHANGED <<world, banned, input, verdict>>

Acquire(r) ==
    /\ stage[r] = "acquire"
    /\ (cfg.prot /\ Answer(r, "ratelimit", {"ratelimit"})) \/ Pass(r, "lists")
    /\ UNCHANGED <<world, banned, input, verdict>>

\* The block lists, the fleet's overlay and the feeds.
Lists(r) ==
    /\ stage[r] = "lists"
    /\ sse' = [sse EXCEPT ![r] = ~cfg.always /\ facts[r].kind = "sse"]
    /\ IF facts[r].match = "list" THEN Answer(r, "block", {"block"}) ELSE Pass(r, "trap")
    /\ UNCHANGED <<world, banned, facts, conf, held, verdict>>

\* A trap path, and serveTrap.
Trap(r) ==
    /\ stage[r] = "trap"
    /\ IF cfg.trap = "off" \/ facts[r].match # "trap"
         THEN Pass(r, "health") /\ UNCHANGED banned
         ELSE /\ IF cfg.trap = "ban" THEN Ban(Client(r)) ELSE UNCHANGED banned
              /\ \/ cfg.trap \in {"ban", "block"} /\ Answer(r, "block", {"block"})
                 \/ cfg.trap = "tarpit" /\ Answer(r, "tarpit", {"block"})
                 \/ cfg.trap = "challenge" /\ ServeChallenge(r, {})
    /\ UNCHANGED <<world, input, verdict>>

Health(r) ==
    /\ stage[r] = "health"
    /\ Answer(r, "unhealthy", {}) \/ Pass(r, "coraza")
    /\ UNCHANGED <<world, banned, input, verdict>>

\* Is Coraza on ...
Coraza(r) ==
    /\ stage[r] = "coraza"
    /\ Pass(r, IF cfg.waf THEN "evaluate" ELSE "attack")
    /\ UNCHANGED <<world, banned, input, verdict>>

\* ... what does it find in the mode it is in now ...
Evaluate(r) ==
    /\ stage[r] = "evaluate"
    /\ \/ /\ cfg.coraza = "block"
          /\ Ban(Client(r)) /\ Answer(r, "block", {"coraza"})
       \/ /\ cfg.coraza = "detect"
          /\ Log(r, "mode", {"detected"}) /\ UNCHANGED banned
       \/ Pass(r, "mode") /\ UNCHANGED banned
    /\ UNCHANGED <<world, input, verdict>>

\* ... and which mode is it in: in block mode it replaces the builtin signatures.
Mode(r) ==
    /\ stage[r] = "mode"
    /\ Pass(r, IF cfg.coraza = "block" THEN "semantic" ELSE "attack")
    /\ UNCHANGED <<world, banned, input, verdict>>

\* A builtin attack signature blocks where there is no guard, else it depends ...
Attack(r) ==
    /\ stage[r] = "attack"
    /\ Pass(r, IF facts[r].match # "attack" THEN "semantic"
               ELSE IF cfg.prot THEN "signature" ELSE "blocked")
    /\ UNCHANGED <<world, banned, input, verdict>>

\* Fault: the answers of AttackBlock are swapped.
AttackBlock_Swapped(r) ==
    /\ stage[r] = "signature"
    /\ IF cfg.attackBlock THEN Strike(Client(r)) /\ Pass(r, "semantic")
                          ELSE Pass(r, "blocked") /\ UNCHANGED banned
    /\ UNCHANGED <<world, input, verdict>>

\* ... on attack_block, which is read after Enabled: without it, only a strike.
AttackBlock(r) ==
    /\ stage[r] = "signature"
    /\ IF cfg.attackBlock THEN Pass(r, "blocked") /\ UNCHANGED banned
                          ELSE Strike(Client(r)) /\ Pass(r, "semantic")
    /\ UNCHANGED <<world, input, verdict>>

\* The guard is asked once more whether it is on before it bans.
AttackBlocked(r) ==
    /\ stage[r] = "blocked"
    /\ Ban(Client(r)) /\ Answer(r, "block", {"block"})
    /\ UNCHANGED <<world, input, verdict>>

\* runSemanticML, the semantic engine.  Half of a score of 50 or more counts as
\* points in every mode; an analysis over its budget blocks or is recorded.
Semantic(r) ==
    LET high == facts[r].rating \in {"mid", "strong"} IN
    /\ stage[r] = "semantic"
    /\ IF Exempt(r) \/ cfg.sem = "off" \/ facts[r].rating = "none"
         THEN Pass(r, IF Exempt(r) THEN "limits" ELSE "ml") /\ UNCHANGED <<banned, verdict>>
         ELSE IF cfg.sem = "block" /\ facts[r].rating \in {"strong", "abort"}
                THEN /\ Ban(Client(r)) /\ Answer(r, "block", {"semantic"})
                     /\ UNCHANGED verdict
                ELSE /\ Log(r, "ml", {"detected"})
                     /\ need' = [need EXCEPT ![r] = high /\ cfg.sem \in {"challenge", "block"}]
                     /\ extra' = [extra EXCEPT ![r] = IF high THEN 1 ELSE 0]
                     /\ UNCHANGED banned
    /\ UNCHANGED <<world, input>>

\* runSemanticML, the ML scorer: it may find nothing, block, or give points - on
\* record in shadow mode and without an attested model - and ask for a challenge.
Ml(r) ==
    /\ stage[r] = "ml"
    /\ \/ Pass(r, "limits") /\ UNCHANGED <<banned, verdict>>
       \/ /\ cfg.ml = "block"
          /\ Ban(Client(r)) /\ Answer(r, "block", {"ml"})
          /\ UNCHANGED verdict
       \/ /\ cfg.ml # "off"
          /\ \E points \in 0..1 : extra' = [extra EXCEPT ![r] = extra[r] + points]
          /\ \/ Log(r, "limits", {"detected"}) /\ UNCHANGED need
             \/ cfg.ml # "shadow" /\ Pass(r, "limits") /\ UNCHANGED need
             \/ /\ cfg.ml # "shadow"
                /\ Log(r, "limits", {"detected"}) /\ need' = [need EXCEPT ![r] = TRUE]
          /\ UNCHANGED banned
    /\ UNCHANGED <<world, input>>

----------------------------------------------------------------------------
\* denyLimited
DenyLimited(r) ==
    IF ~Stream(r) /\ conf[r].over /\ conf[r].chal /\ mgr /\ ~table.skip
      THEN ServeChallenge(r, {"ratelimit"})
      ELSE Answer(r, "ratelimit", {"ratelimit"})

\* The global, the subnet's and the client's bucket; only the last one strikes.
Limits(r) ==
    /\ stage[r] = "limits"
    /\ \/ conf[r].rate /\ DenyLimited(r) /\ UNCHANGED banned
       \/ conf[r].rate /\ DenyLimited(r) /\ Strike(Client(r))
       \/ Pass(r, "upgrade") /\ UNCHANGED banned
    /\ UNCHANGED <<world, input, verdict>>

\* The requests a challenge applies to.
Gated(r) == conf[r].chal /\ mgr /\ ~table.skip

\* Fault: an upgrade is proxied without a look at its clearance.
Upgrade_Trusts(r) ==
    /\ stage[r] = "upgrade"
    /\ Pass(r, IF facts[r].kind = "ws" THEN "access" ELSE "detect")
    /\ UNCHANGED <<world, banned, input, verdict>>

\* A WebSocket upgrade can not show a page: it needs a clearance cookie, and it
\* is not scored.
Upgrade(r) ==
    /\ stage[r] = "upgrade"
    /\ IF facts[r].kind # "ws" THEN Pass(r, "detect")
         ELSE IF ~facts[r].allowed /\ Gated(r) /\ ~facts[r].cookie
                THEN Answer(r, "forbidden", {"challenge"})
                ELSE Pass(r, "access")
    /\ UNCHANGED <<world, banned, input, verdict>>

\* The behaviour tracker.
Detect(r) ==
    /\ stage[r] = "detect"
    /\ \/ /\ ~Exempt(r) /\ conf[r].detect
          /\ Ban(Client(r)) /\ Answer(r, "block", {"block"})
       \/ /\ Pass(r, IF ~Exempt(r) /\ conf[r].detect THEN "score" ELSE "decide")
          /\ UNCHANGED banned
    /\ UNCHANGED <<world, input, verdict>>

\* The score, and the policy for AI crawlers.
Score(r) ==
    LET total == facts[r].score + extra[r] IN
    /\ stage[r] = "score"
    /\ IF total >= 2
         THEN Strike(Client(r)) /\ Answer(r, "scored", {"block"}) /\ UNCHANGED need
         ELSE \/ /\ cfg.ai = "block"
                 /\ Strike(Client(r)) /\ Answer(r, "block", {"block"}) /\ UNCHANGED need
              \/ /\ cfg.ai = "pay"
                 /\ Answer(r, "payment", {"payment"}) /\ UNCHANGED <<banned, need>>
              \/ /\ Pass(r, "notfound") /\ UNCHANGED banned
                 /\ need' = [need EXCEPT ![r] = need[r] \/ total >= 1]
    /\ UNCHANGED <<world, input, extra>>

\* Fault: the tarpit's exit records nothing.
Tracker_Silent(r, at, onward, action) ==
    /\ stage[r] = at
    /\ \/ Pass(r, onward) /\ UNCHANGED <<banned, need>>
       \/ /\ action = "block"
          /\ Strike(Client(r)) /\ Answer(r, "block", {"block"}) /\ UNCHANGED need
       \/ /\ action = "tarpit"
          /\ Strike(Client(r)) /\ Answer(r, "tarpit", {}) /\ UNCHANGED need
       \/ /\ action = "challenge"
          /\ Pass(r, onward) /\ need' = [need EXCEPT ![r] = TRUE] /\ UNCHANGED banned
    /\ UNCHANGED <<world, input, extra>>

\* Too many missing pages, too many expensive responses: each has its action.
Tracker(r, at, onward, action) ==
    /\ stage[r] = at
    /\ \/ Pass(r, onward) /\ UNCHANGED <<banned, need>>
       \/ /\ action = "block"
          /\ Strike(Client(r)) /\ Answer(r, "block", {"block"}) /\ UNCHANGED need
       \/ /\ action = "tarpit"
          /\ Strike(Client(r)) /\ Answer(r, "tarpit", {"block"}) /\ UNCHANGED need
       \/ /\ action = "challenge"
          /\ Pass(r, onward) /\ need' = [need EXCEPT ![r] = TRUE] /\ UNCHANGED banned
    /\ UNCHANGED <<world, input, extra>>

NotFound(r) == Tracker(r, "notfound", "penalty", cfg.nf)
Penalty(r) == Tracker(r, "penalty", "decide", cfg.pen)

\* The request is to be challenged, unless it can not show a page and comes
\* from a page of this origin.
Challenged(r) == ~Exempt(r) /\ Gated(r) /\ ~facts[r].cookie /\ (cfg.always \/ need[r])

Softened(r) == sse[r] \/ (~cfg.always /\ facts[r].kind \in {"xhr", "sse"})

SoftPass(r) ==
    /\ stage[r] = "decide" /\ Challenged(r) /\ Softened(r)
    /\ Pass(r, "access")
    /\ UNCHANGED <<world, banned, input, verdict>>

Decide(r) ==
    /\ stage[r] = "decide" /\ ~(Challenged(r) /\ Softened(r))
    /\ IF Challenged(r) THEN ServeChallenge(r, {}) ELSE Pass(r, "access")
    /\ UNCHANGED <<world, banned, input, verdict>>

\* Fault: an allowlisted client passes the access policy.
CheckAccess_SparesAllowed(r) ==
    /\ stage[r] = "access"
    /\ IF table.policy /\ ~facts[r].auth /\ ~facts[r].allowed
         THEN Answer(r, "forbidden", {"access"})
         ELSE Pass(r, "schema")
    /\ UNCHANGED <<world, banned, input, verdict>>

\* checkAccess looks the route up ...
CheckAccess(r) ==
    /\ stage[r] = "access"
    /\ IF table.policy /\ ~facts[r].auth THEN Answer(r, "forbidden", {"access"})
                                         ELSE Pass(r, "schema")
    /\ UNCHANGED <<world, banned, input, verdict>>

\* ... checkOpenAPI once more: a violation is refused or only recorded ...
CheckOpenAPI(r) ==
    /\ stage[r] = "schema"
    /\ \/ Pass(r, "proxy")
       \/ table.schema /\ (Answer(r, "block", {"openapi"}) \/ Log(r, "proxy", {"detected"}))
    /\ UNCHANGED <<world, banned, input, verdict>>

\* ... and the table's ServeHTTP once more, the upstream's health included.
Proxy(r) ==
    /\ stage[r] = "proxy"
    /\ \/ Answer(r, "unhealthy", {})
       \/ /\ Go(r, "upstream")
          /\ up' = [up EXCEPT ![r] = table.up]
          /\ UNCHANGED <<result, events>>
    /\ UNCHANGED <<world, banned, input, verdict>>

Respond(r) ==
    /\ stage[r] = "upstream"
    /\ Answer(r, "served", {})
    /\ UNCHANGED <<world, banned, input, verdict>>

\* guard returns and the goroutine is free for the next request.
Return(r) ==
    /\ stage[r] = "done"
    /\ Go(r, "idle")
    /\ facts' = [facts EXCEPT ![r] = AnyFact] /\ conf' = [conf EXCEPT ![r] = NoCopy]
    /\ sse' = [sse EXCEPT ![r] = FALSE] /\ held' = [held EXCEPT ![r] = {}]
    /\ need' = [need EXCEPT ![r] = FALSE] /\ extra' = [extra EXCEPT ![r] = 0]
    /\ result' = [result EXCEPT ![r] = "none"]
    /\ events' = [events EXCEPT ![r] = {}]
    /\ up' = [up EXCEPT ![r] = "none"]
    /\ UNCHANGED <<world, banned>>

----------------------------------------------------------------------------
(* Runtime.ApplySafeConfig, one at a time: guard, Coraza, the semantic engine,
   the ML scorer and the pipeline get the new settings one after the other.  *)

\* The component whose turn it is gets its settings.
Tell(from, to, c) ==
    /\ phase = from /\ phase' = to
    /\ cfg' = c
    /\ StillHeld(c, table)
    /\ UNCHANGED <<mgr, table, banned, stage, facts, conf, sse, verdict, result, events, up>>

ApplySafeConfig(c) ==
    /\ c # cfg      \* a save that changes nothing is no step
    /\ Tell("idle", "coraza", [cfg EXCEPT !.prot = c.prot, !.attackBlock = c.attackBlock])
    /\ next' = c

TellCoraza ==
    /\ Tell("coraza", "semantic", [cfg EXCEPT !.waf = next.waf, !.coraza = next.coraza])
    /\ UNCHANGED next

TellSemantic == Tell("semantic", "ml", [cfg EXCEPT !.sem = next.sem]) /\ UNCHANGED next

TellML == Tell("ml", "pipeline", [cfg EXCEPT !.ml = next.ml]) /\ UNCHANGED next

\* Handler.ApplyConfig.  The challenge manager stays what it was.
ApplyConfig == Tell("pipeline", "idle", next) /\ UNCHANGED next

\* router.Table.Replace
Replace(t) ==
    /\ table' = t
    /\ StillHeld(cfg, t)
    /\ UNCHANGED <<mgr, next, phase, cfg, banned, stage, facts, conf, sse, verdict, result, events, up>>

\* A ban runs out, or the operator lifts it.
Expire(c) ==
    /\ c \in banned
    /\ banned' = banned \ {c}
    /\ UNCHANGED <<world, stage, input, verdict, result, events, up>>

Inspect(r) ==
    CheckSize(r) \/ Banned(r) \/ Acquire(r) \/ Lists(r) \/ Trap(r) \/ Health(r) \/ Coraza(r)
      \/ Evaluate(r) \/ Mode(r) \/ Attack(r) \/ AttackBlock(r) \/ AttackBlocked(r) \/ Semantic(r) \/ Ml(r)

Weigh(r) ==
    Limits(r) \/ Upgrade(r) \/ Detect(r) \/ Score(r) \/ NotFound(r) \/ Penalty(r)
      \/ SoftPass(r) \/ Decide(r)

Serve(r) == CheckAccess(r) \/ CheckOpenAPI(r) \/ Proxy(r) \/ Respond(r) \/ Return(r)

Next ==
    \/ \E r \in Requests, f \in Facts : Arrive(r, f)
    \/ \E r \in Requests : Inspect(r) \/ Weigh(r) \/ Serve(r)
    \/ \E c \in Clients : Expire(c)
    \/ \E c \in Configs : ApplySafeConfig(c)
    \/ TellCoraza \/ TellSemantic \/ TellML \/ ApplyConfig
    \/ \E t \in Tables : Replace(t)

Spec == Init /\ [][Next]_vars

----------------------------------------------------------------------------
\* Where guard may be, how it answers, and what it records.
Stages ==
    {"idle", "size", "banned", "acquire", "lists", "trap", "health", "coraza", "evaluate", "mode",
     "attack", "signature", "blocked", "semantic", "ml", "limits", "upgrade", "detect", "score", "notfound", "penalty", "decide", "access",
     "schema", "proxy", "upstream", "done"}

Results ==
    {"none", "block", "scored", "tarpit", "ratelimit", "challenge", "forbidden", "payment", "error",
     "unhealthy", "served"}

Events ==
    {"block", "coraza", "semantic", "ml", "openapi", "ratelimit", "challenge", "access", "payment",
     "detected"}

TypeOK ==
    /\ mgr \in BOOLEAN /\ next \in Config /\ cfg \in Config /\ table \in Table
    /\ phase \in {"idle", "coraza", "semantic", "ml", "pipeline"}
    /\ banned \subseteq Clients
    /\ stage \in [Requests -> Stages] /\ facts \in [Requests -> Fact]
    /\ conf \in [Requests -> [chal : BOOLEAN, rate : BOOLEAN, over : BOOLEAN, detect : BOOLEAN]]
    /\ sse \in [Requests -> BOOLEAN]
    /\ need \in [Requests -> BOOLEAN] /\ extra \in [Requests -> Nat]
    /\ result \in [Requests -> Results] /\ events \in [Requests -> SUBSET Events]
    /\ up \in [Requests -> {"none", "app", "vault"}]
    /\ held \in [Requests -> SUBSET Demand]

Served(r) == stage[r] = "upstream" \/ result[r] = "served"

\* While the challenge has been on since the request came, nothing reaches an
\* upstream without a clearance cookie but allowlisted clients and git: in
\* always mode nothing at all - no event stream, no subrequest - and no
\* WebSocket upgrade in any mode, whatever other settings change half way.
ClearanceEnforced ==
    \A r \in Requests :
      /\ mgr /\ Served(r) /\ "challenge" \in held[r]
      /\ "always" \in held[r] \/ facts[r].kind = "ws"
      => facts[r].cookie \/ Exempt(r)

\* A request whose route has asked for the access policy ever since it came
\* satisfies it when it is served, whichever way through guard it took.
AccessEnforced ==
    \A r \in Requests : Served(r) /\ "policy" \in held[r] => facts[r].auth

\* What a block list or a feed names is never served, nor is a trap path while
\* traps are set.  Nor is an attack while Coraza's mode - read also after Coraza
\* was switched off - leaves it to the signatures and these block: attack_block
\* was set all along, or the guard off all along.  That at any moment one of the
\* two was the case is not enough.  Allowlist, clearance cookie and transport
\* make no difference.
HostileNotServed ==
    \A r \in Requests : Served(r) =>
      /\ facts[r].match # "list"
      /\ "traps" \in held[r] => facts[r].match # "trap"
      /\ "signatures" \in held[r] /\ held[r] \cap {"attackBlock", "unguarded"} # {} => facts[r].match # "attack"

\* Every denial is on record for the operator (architecture.md:67), and what was
\* served has no denial on record: the requests page can be trusted.  The error
\* page is left out: a challenge asked for without a manager records nothing.
DenialsRecorded ==
    \A r \in Requests : stage[r] = "done" =>
      /\ result[r] \in {"block", "scored", "tarpit"} =>
           events[r] \cap {"block", "coraza", "semantic", "ml", "openapi"} # {}
      /\ result[r] = "ratelimit" => "ratelimit" \in events[r]
      /\ result[r] = "challenge" => "challenge" \in events[r]
      /\ result[r] = "forbidden" => events[r] \cap {"challenge", "access"} # {}
      /\ result[r] = "payment" => "payment" \in events[r]
      /\ result[r] = "error" => ~mgr
      /\ result[r] \in {"none", "unhealthy", "served"} =>
           events[r] \cap {"block", "ratelimit", "challenge", "access", "payment"} = {}
============================================================================
