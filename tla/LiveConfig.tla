----------------------------- MODULE LiveConfig -----------------------------
(***************************************************************************)
(* The configuration of a running edge and what survives of it: layered    *)
(* loading (internal/config), the components main builds from it, the live *)
(* changes of the admin API (admin/ops/runtime.go, admin/api) and the      *)
(* overrides blob in the store that the next start applies again.          *)
(*                                                                         *)
(* A setting stands for the many that are treated alike: prot, limit, chal *)
(* and coraza for the flags a body always overwrites; low and high (the    *)
(* challenge and block scores), rate and logo for the numbers, durations   *)
(* and texts a zero or empty value leaves alone; trust with its proxies    *)
(* for the section taken or left as a whole; ids for a pointer; intel for  *)
(* the section only its own handler changes.                               *)
(***************************************************************************)
EXTENDS Naturals, TLC

CONSTANTS
    Saver,      \* requests to the admin API in flight
    Files,      \* what configuration file, environment and flags may say
    Bodies,     \* bodies of PUT /config
    Feeds,      \* bodies of PUT /qfeeds
    Attested,   \* AttestOK: the model's evaluation allows enforcement
    Rules,      \* the Coraza rules are loaded
    MaxSaves,   \* bound on the saves
    Absent

VARIABLES
    inputs,     \* the configuration file, the environment and the flags
    proc,       \* the process: Runtime.cfg and what was built from it, or Absent
    overrides,  \* config_overrides.payload, or Absent
    defaults,   \* fleet_defaults.safe_config, or Absent
    job,        \* the handlers
    saves,      \* saves begun
    last,       \* history: the latest words of the saves since the last PUT /config
    clean,      \* history: since that PUT no saves overlapped or failed
    lost        \* history: a handler has put back settings it had read before

configVars == <<inputs, proc, overrides, defaults, job, saves, last, clean, lost>>

NoJob == [pc |-> "idle"]

-----------------------------------------------------------------------------
(* Loading: defaults, file, environment and flags, each over the one before *)
Config ==
    [admin : BOOLEAN, data : BOOLEAN, prot : BOOLEAN, limit : BOOLEAN, rate : 1..2, chal : BOOLEAN,
     secret : BOOLEAN, diff : 0..2, coraza : BOOLEAN, ml : {"off", "shadow", "challenge", "block"},
     low : 1..3, high : 1..3, logo : 0..1, trust : {"edge", "behind"},
     proxies : {"none", "nets", "bad"}, ids : BOOLEAN, qf : BOOLEAN, token : BOOLEAN,
     intel : BOOLEAN]

Default ==
    [admin |-> FALSE, data |-> FALSE, prot |-> TRUE, limit |-> TRUE, rate |-> 1, chal |-> TRUE,
     secret |-> FALSE, diff |-> 1, coraza |-> FALSE, ml |-> "shadow", low |-> 1, high |-> 2, logo |-> 0,
     trust |-> "edge", proxies |-> "none", ids |-> TRUE, qf |-> FALSE, token |-> FALSE,
     intel |-> FALSE]

applyEnv(c, env) == env @@ c
applyFlags(c, flags) == flags @@ c

normalizeEngines(c) == [c EXCEPT !.ml = IF @ = "" THEN "shadow" ELSE @]
normalize(c) == normalizeEngines([c EXCEPT !.trust = IF @ = "" THEN "edge" ELSE @])

ValidTrust(c) == c.trust \in {"edge", "behind"} /\ (c.trust = "behind" => c.proxies # "none")
ValidChallenge(c) == c.chal => c.secret
ValidQFeeds(c) == c.qf => c.token
ValidEngines(c) == (c.coraza => Rules) /\ c.ml \in {"off", "shadow", "challenge", "block"}
ValidDetect(c) == c.high >= c.low
ValidAdmin(c) == c.admin => c.data
Validate(c) ==
    /\ ValidTrust(c) /\ ValidChallenge(c) /\ ValidQFeeds(c)
    /\ ValidEngines(c) /\ ValidDetect(c) /\ ValidAdmin(c)

LoadWithFlagsMode(s) == normalize(applyFlags(applyEnv(s.file @@ Default, s.env), s.flags))

-----------------------------------------------------------------------------
(* Live changes                                                             *)

(* SafeConfig: "", 0 and Absent stand for what the body leaves out.         *)
SafeConfig ==
    [prot : BOOLEAN, limit : BOOLEAN, rate : 0..2, chal : BOOLEAN, diff : 0..2, coraza : BOOLEAN,
     ml : {"", "off", "shadow", "challenge", "block"}, low : 0..3, high : 0..3, logo : 0..1,
     trust : {"", "edge", "behind"}, proxies : {"none", "nets", "bad"}, ids : BOOLEAN \cup {Absent},
     qf : {Absent} \cup [on : BOOLEAN, token : BOOLEAN]]

(* The manager's own field and the live settings, which the first use copies
   from it.                                                                 *)
Manager == [diff : 0..2, live : {Absent} \cup 0..2]

(* What main has built; a component that the file disables is Absent.      *)
Runtime ==
    [cfg : Config, pipe : Config, engines : Config, flag : BOOLEAN, nets : {"none", "nets"},
     feeds : {Absent} \cup [token : BOOLEAN], limiter : {Absent} \cup [rate : 1..2],
     guard : {Absent} \cup [on : BOOLEAN], mgr : {Absent} \cup Manager]

ASSUME InputAssumption ==
    /\ Bodies \subseteq SafeConfig
    /\ Feeds \subseteq [on : BOOLEAN, token : BOOLEAN]
    /\ \A s \in Files : LoadWithFlagsMode(s) \in Config

ASSUME AbsentIsNoValue ==
    /\ Absent \notin SafeConfig /\ Absent \notin [on : BOOLEAN, token : BOOLEAN]
    /\ Absent \notin Runtime /\ Absent \notin Manager /\ Absent \notin 0..2

\* Fault: proxies are not asked for.
validateSafeConfig_NoProxies(s) == TRUE

(* The merged scores are not compared with each other, and the proxies are
   not parsed.                                                              *)
validateSafeConfig(s) == s.trust = "behind" => s.proxies # "none"

setNonEmpty(old, v) == IF v = 0 THEN old ELSE v

applyDetectSafe(c, s) == [c EXCEPT !.low = setNonEmpty(@, s.low), !.high = setNonEmpty(@, s.high)]
applyChallengeSafe(c, s) == [c EXCEPT !.chal = s.chal, !.diff = s.diff]
applyUISafe(c, s) == [c EXCEPT !.logo = setNonEmpty(@, s.logo)]
applyTrustSafe(c, s) == IF s.trust = "" THEN c ELSE [c EXCEPT !.trust = s.trust, !.proxies = s.proxies]
applyPrivacySafe(c, s) == IF s.ids = Absent THEN c ELSE [c EXCEPT !.ids = s.ids]
applyQFeedsSettings(c, q) == [c EXCEPT !.qf = q.on, !.token = @ \/ q.token]

OverlaySafe(c, s) ==
    LET d == applyPrivacySafe(applyTrustSafe(applyUISafe(applyChallengeSafe(applyDetectSafe(
                 [c EXCEPT !.coraza = s.coraza, !.ml = IF s.ml = "" THEN @ ELSE s.ml],
                 s), s), s), s), s)
    IN  IF s.qf = Absent THEN d ELSE applyQFeedsSettings(d, s.qf)

(* What the engines make of the new settings is stored back: Coraza stays off
   without rules, the model shadows without attestation.                    *)
CorazaLive(on) == on /\ Rules
MLLive(mode) == IF mode \in {"block", "challenge"} /\ ~Attested THEN "shadow" ELSE mode
UpdateLive(c) == [c EXCEPT !.coraza = CorazaLive(@), !.ml = MLLive(@)]

(* The cache of the feeds is created on first use and never dropped.        *)
syncQFeedsLocked(feeds, c) ==
    IF feeds # Absent THEN [token |-> c.token]
    ELSE IF c.qf /\ c.token THEN [token |-> TRUE] ELSE Absent

liveSettings(m) == IF m.live = Absent THEN m.diff ELSE m.live

(* Only a positive difficulty is taken.                                     *)
ApplyLive(m, diff) == [m EXCEPT !.live = IF diff > 0 THEN diff ELSE liveSettings(m)]

(* The pipeline takes the settings and updates what was built; proxies that
   do not parse leave the networks as they are.                             *)
ApplyConfig(p, c) ==
    [p EXCEPT !.pipe = c, !.nets = IF c.proxies = "bad" THEN @ ELSE c.proxies,
              !.mgr = IF @ = Absent THEN Absent ELSE ApplyLive(@, c.diff),
              !.limiter = IF @ = Absent THEN Absent ELSE [rate |-> c.rate]]

Merged(c, s) == [OverlaySafe(c, s) EXCEPT !.prot = s.prot, !.limit = s.limit, !.rate = setNonEmpty(@, s.rate)]

SetDifficulty(m, diff) == IF m = Absent THEN Absent ELSE [m EXCEPT !.diff = diff]

\* Fault: the pipeline gets the settings before the engines have answered.
ApplySafeConfig_Early(p, s) ==
    LET d == Merged(p.cfg, s) IN
    [ApplyConfig([p EXCEPT !.mgr = SetDifficulty(@, d.diff)], d) EXCEPT !.cfg = UpdateLive(d), !.flag = d.chal, !.engines = UpdateLive(d),
              !.guard = IF @ = Absent THEN Absent ELSE [on |-> d.prot],
              !.feeds = IF s.qf = Absent THEN @ ELSE syncQFeedsLocked(@, d)]

ApplySafeConfig(p, s) ==
    LET d == UpdateLive(Merged(p.cfg, s)) IN
    [ApplyConfig([p EXCEPT !.mgr = SetDifficulty(@, d.diff)], d) EXCEPT !.cfg = d, !.flag = d.chal, !.engines = d,
              !.guard = IF @ = Absent THEN Absent ELSE [on |-> d.prot],
              !.feeds = IF s.qf = Absent THEN @ ELSE syncQFeedsLocked(@, d)]

ApplyQFeeds(p, q) ==
    LET d == applyQFeedsSettings(p.cfg, q) IN
    [p EXCEPT !.cfg = d, !.feeds = syncQFeedsLocked(@, d)]

(* ReplaceConfig stores the whole configuration under the lock, and the flag
   of the challenges when it has let go of it.                              *)
ReplaceConfig(p, c) == [p EXCEPT !.cfg = c]
StoreEnabled(p, c) == [p EXCEPT !.flag = c.chal]

(* ConfigView: every setting, but never the token.                          *)
ConfigView(p) ==
    [prot |-> p.cfg.prot, limit |-> p.cfg.limit, rate |-> p.cfg.rate, chal |-> p.cfg.chal,
     diff |-> p.cfg.diff, coraza |-> p.engines.coraza, ml |-> p.engines.ml, low |-> p.cfg.low,
     high |-> p.cfg.high, logo |-> p.cfg.logo, trust |-> p.cfg.trust, proxies |-> p.cfg.proxies,
     ids |-> p.cfg.ids, qf |-> [on |-> p.cfg.qf, token |-> FALSE]]

Blank ==
    [prot |-> FALSE, limit |-> FALSE, rate |-> 0, chal |-> FALSE, diff |-> 0, coraza |-> FALSE, ml |-> "",
     low |-> 0, high |-> 0, logo |-> 0, trust |-> "", proxies |-> "none", ids |-> Absent, qf |-> Absent]

DecodeSafeConfig(blob) == IF blob = Absent THEN Blank ELSE blob

\* Fault: the new feed settings replace the blob.
MergeAndEncode_Replaces(blob, q, logo) ==
    [Blank EXCEPT !.qf = IF q = Absent THEN @ ELSE q, !.logo = setNonEmpty(@, logo)]

MergeAndEncode(blob, q, logo) ==
    [DecodeSafeConfig(blob) EXCEPT !.qf = IF q = Absent THEN @ ELSE q, !.logo = setNonEmpty(@, logo)]

-----------------------------------------------------------------------------
(* Start and stop                                                           *)

(* main: a component exists only when the file enables it.                 *)
NewFeeds(c) == IF c.qf THEN [token |-> c.token] ELSE Absent
NewLimiter(c) == IF c.limit THEN [rate |-> c.rate] ELSE Absent
NewGuard(c) == IF c.prot THEN [on |-> TRUE] ELSE Absent
NewManager(c) == IF c.chal THEN [diff |-> c.diff, live |-> Absent] ELSE Absent

NewRuntime(c) ==
    [cfg |-> c, pipe |-> c, engines |-> c, flag |-> c.chal, nets |-> c.proxies,
     feeds |-> NewFeeds(c), limiter |-> NewLimiter(c), guard |-> NewGuard(c), mgr |-> NewManager(c)]

(* admin.New applies the stored blob before anything is served.             *)
ApplyOverrides(p, blob) ==
    IF blob = Absent THEN p
    ELSE LET q == IF validateSafeConfig(blob) THEN ApplySafeConfig(p, blob) ELSE p
         IN  IF blob.qf = Absent THEN q ELSE ApplyQFeeds(q, blob.qf)

(* Without the admin server nothing stored is applied; main refuses proxies
   that do not parse.                                                       *)
Booted(s, blob) ==
    LET c == LoadWithFlagsMode(s) IN IF c.admin THEN ApplyOverrides(NewRuntime(c), blob) ELSE NewRuntime(c)

Bootable(s) == LET c == LoadWithFlagsMode(s) IN Validate(c) /\ c.proxies # "bad"

ConfigInit ==
    /\ inputs \in {s \in Files : Bootable(s)}
    /\ proc = Booted(inputs, Absent)
    /\ overrides = Absent /\ defaults = Absent
    /\ job = [h \in Saver |-> NoJob]
    /\ saves = 0
    /\ last = Absent /\ clean = FALSE /\ lost = FALSE

runEdge ==
    /\ proc = Absent /\ Bootable(inputs)
    /\ proc' = Booted(inputs, overrides)
    /\ lost' = FALSE
    /\ UNCHANGED <<inputs, overrides, defaults, job, saves, last, clean>>

(* A stop or a crash: handlers end where they are, the store stays.         *)
Crash ==
    /\ proc # Absent
    /\ proc' = Absent
    /\ job' = [h \in Saver |-> NoJob]
    /\ clean' = (clean /\ \A h \in Saver : job[h] = NoJob)
    /\ UNCHANGED <<inputs, overrides, defaults, saves, last, lost>>

(* The first request that is challenged, or shows a cookie, fixes the live
   settings of the manager.                                                 *)
FirstUse ==
    /\ proc # Absent /\ proc.mgr # Absent /\ proc.mgr.live = Absent
    /\ proc' = [proc EXCEPT !.mgr = [diff |-> @.diff, live |-> @.diff]]
    /\ UNCHANGED <<inputs, overrides, defaults, job, saves, last, clean, lost>>

(* Somebody edits the file, the environment or the unit while it is down.   *)
EditFile ==
    /\ proc = Absent
    /\ inputs' \in Files
    /\ UNCHANGED <<proc, overrides, defaults, job, saves, last, clean, lost>>

-----------------------------------------------------------------------------
(* The handlers                                                             *)
Alone(h) == \A k \in Saver \ {h} : job[k] = NoJob

BeginSave(h) == proc # Absent /\ proc.cfg.admin /\ job[h] = NoJob /\ saves < MaxSaves /\ saves' = saves + 1

Goto(h, t) == job' = [job EXCEPT ![h] = t]

(* PUT /config: apply, then the body as it came becomes the blob.           *)
handleConfig(h, s) ==
    /\ BeginSave(h) /\ validateSafeConfig(s)
    /\ proc' = ApplySafeConfig(proc, s)
    /\ Goto(h, [pc |-> "store", blob |-> s, next |-> "fleet"])
    /\ last' = s /\ clean' = Alone(h) /\ lost' = (lost /\ s.qf = Absent)
    /\ UNCHANGED <<inputs, overrides, defaults>>

(* PUT /qfeeds: apply, read the blob, merge, store.                         *)
handleQFeeds(h, q) ==
    /\ BeginSave(h)
    /\ proc' = ApplyQFeeds(proc, q)
    /\ Goto(h, [pc |-> "qget", qf |-> q])
    /\ clean' = (clean /\ Alone(h))
    /\ last' = IF last = Absent THEN Absent ELSE [last EXCEPT !.qf = q]
    /\ UNCHANGED <<inputs, overrides, defaults, lost>>

QFeedsGet(h) ==
    /\ job[h].pc = "qget"
    /\ Goto(h, [pc |-> "store", blob |-> MergeAndEncode(overrides, job[h].qf, 0), next |-> "idle"])
    /\ UNCHANGED <<inputs, proc, overrides, defaults, saves, last, clean, lost>>

(* POST /appearance/assets: the configuration is read, put back with the new
   URL, given to the pipeline, and the URL merged into the blob.            *)
handleAppearanceAssets(h) ==
    /\ BeginSave(h)
    /\ Goto(h, [pc |-> "replace", cfg |-> [proc.cfg EXCEPT !.logo = 1]])
    /\ clean' = (clean /\ Alone(h))
    /\ last' = IF last = Absent THEN Absent ELSE [last EXCEPT !.logo = 1]
    /\ UNCHANGED <<inputs, proc, overrides, defaults, lost>>

AppearanceReplace(h) ==
    /\ job[h].pc = "replace"
    /\ proc' = ReplaceConfig(proc, job[h].cfg)
    /\ lost' = (lost \/ [proc.cfg EXCEPT !.logo = 1] # job[h].cfg)
    /\ Goto(h, [pc |-> "flag", cfg |-> job[h].cfg])
    /\ UNCHANGED <<inputs, overrides, defaults, saves, last, clean>>

(* The second half of ReplaceConfig: another save may have come in between. *)
ReplaceFlag(h) ==
    /\ job[h].pc \in {"flag", "iflag"}
    /\ proc' = StoreEnabled(proc, job[h].cfg)
    /\ lost' = (lost \/ proc.cfg.chal # job[h].cfg.chal)
    /\ Goto(h, IF job[h].pc = "flag" THEN [pc |-> "apply", cfg |-> job[h].cfg] ELSE NoJob)
    /\ UNCHANGED <<inputs, overrides, defaults, saves, last, clean>>

AppearanceApply(h) ==
    /\ job[h].pc = "apply"
    /\ proc' = ApplyConfig(proc, job[h].cfg)
    /\ lost' = (lost \/ proc.cfg # job[h].cfg)
    /\ Goto(h, [pc |-> "aget"])
    /\ UNCHANGED <<inputs, overrides, defaults, saves, last, clean>>

persistAppearanceURL(h) ==
    /\ job[h].pc = "aget"
    /\ LET existing == IF overrides = Absent THEN ConfigView(proc) ELSE overrides IN
       Goto(h, [pc |-> "store", blob |-> MergeAndEncode(existing, Absent, 1), next |-> "idle"])
    /\ UNCHANGED <<inputs, proc, overrides, defaults, saves, last, clean, lost>>

(* PUT /threatintel/config: the configuration is read and put back with the
   new section.  Neither the pipeline nor the store hears of it.            *)
handleThreatIntelConfig(h, on) ==
    /\ BeginSave(h)
    /\ Goto(h, [pc |-> "intel", on |-> on, cfg |-> [proc.cfg EXCEPT !.intel = on]])
    /\ clean' = (clean /\ Alone(h))
    /\ UNCHANGED <<inputs, proc, overrides, defaults, last, lost>>

ThreatIntelReplace(h) ==
    /\ job[h].pc = "intel"
    /\ proc' = ReplaceConfig(proc, job[h].cfg)
    /\ lost' = (lost \/ [proc.cfg EXCEPT !.intel = job[h].on] # job[h].cfg)
    /\ Goto(h, [pc |-> "iflag", cfg |-> job[h].cfg])
    /\ UNCHANGED <<inputs, overrides, defaults, saves, last, clean>>

(* An error of the store is ignored and the save acknowledged all the same. *)
SetConfigOverrides(h) ==
    /\ job[h].pc = "store"
    /\ \/ overrides' = job[h].blob /\ UNCHANGED clean
       \/ clean' = FALSE /\ UNCHANGED overrides
    /\ Goto(h, IF job[h].next = "idle" THEN NoJob ELSE [pc |-> "fleet", blob |-> job[h].blob])
    /\ UNCHANGED <<inputs, proc, defaults, saves, last, lost>>

(* The body of PUT /config is the default of the fleet, too.                *)
SetFleetDefaults(h) ==
    /\ job[h].pc = "fleet"
    /\ defaults' \in {defaults, job[h].blob}
    /\ Goto(h, NoJob)
    /\ UNCHANGED <<inputs, proc, overrides, saves, last, clean, lost>>

ConfigNext ==
    \/ runEdge \/ Crash \/ EditFile \/ FirstUse
    \/ \E h \in Saver :
        \/ \E s \in Bodies : handleConfig(h, s)
        \/ \E q \in Feeds : handleQFeeds(h, q)
        \/ \E on \in BOOLEAN : handleThreatIntelConfig(h, on)
        \/ handleAppearanceAssets(h) \/ ThreatIntelReplace(h)
        \/ QFeedsGet(h) \/ AppearanceReplace(h) \/ ReplaceFlag(h) \/ AppearanceApply(h)
        \/ persistAppearanceURL(h) \/ SetConfigOverrides(h) \/ SetFleetDefaults(h)

ConfigSpec == ConfigInit /\ [][ConfigNext]_configVars

-----------------------------------------------------------------------------
(* Guard, engines and pipeline run with the configuration the admin API shows
   unless a handler has put back one it had read before another save.  Two
   settings may lag behind for good: a difficulty of zero, which the challenge
   manager ignores once it is in use, and proxies that do not parse.        *)
EnginesFollow ==
    proc # Absent /\ ~lost /\ (\A h \in Saver : job[h].pc \notin {"flag", "apply"}) =>
        /\ [proc.pipe EXCEPT !.qf = proc.cfg.qf, !.token = proc.cfg.token, !.intel = proc.cfg.intel] = proc.cfg
        /\ proc.engines.coraza = proc.cfg.coraza /\ proc.engines.ml = proc.cfg.ml
        /\ proc.flag = proc.cfg.chal
        /\ proc.cfg.proxies # "bad" => proc.nets = proc.cfg.proxies
        /\ proc.guard # Absent => proc.guard.on = proc.cfg.prot
        /\ proc.mgr # Absent /\ proc.cfg.diff > 0 => liveSettings(proc.mgr) = proc.cfg.diff
        /\ proc.limiter # Absent => proc.limiter.rate = proc.cfg.rate
        /\ proc.feeds # Absent => proc.feeds.token = proc.cfg.token

(* A running edge behind a proxy believes the headers of the networks it was
   given, whatever was loaded, saved, uploaded and applied again at a start:
   the list is never empty, and if it parses its networks are the ones in
   force.  (A list that does not parse is accepted and leaves the networks
   that were in force before, or none: the parse error is dropped.)         *)
TrustComplete ==
    proc # Absent =>
        /\ ValidTrust(proc.cfg) /\ ValidTrust(proc.pipe)
        /\ proc.pipe.trust = "behind" /\ proc.pipe.proxies # "bad" => proc.nets = "nets"

(* The settings a body names itself.                                        *)
Named(s) ==
    {"prot", "limit", "chal", "diff", "coraza"} \cup {f \in {"rate", "low", "high", "logo"} : s[f] # 0}
      \cup (IF s.trust = "" THEN {} ELSE {"trust", "proxies"})
      \cup (IF s.ids = Absent THEN {} ELSE {"ids"}) \cup (IF s.ml = "" THEN {} ELSE {"ml"})
      \cup (IF s.qf = Absent THEN {} ELSE {"qf"} \cup (IF s.qf.token THEN {"token"} ELSE {}))

Quiet == \A h \in Saver : job[h] = NoJob

(* Saves that neither overlapped nor failed survive a restart: every setting
   their latest words name comes up as it is live now.  A token is not named
   by a later body without one: PUT /qfeeds keeps such a token live and drops
   it from the blob (handlers.go:810-813), so the restart forgets it.       *)
RestartKeeps ==
    proc # Absent /\ Quiet /\ clean /\ Bootable(inputs) =>
        LET c == Booted(inputs, overrides).cfg IN \A f \in Named(last) : c[f] = proc.cfg[f]

(* "Q-Feeds settings (merged into the same overrides blob so other live fields
   are not replaced)" (docs/docs/admin.md:141): where the feeds are all that
   was ever saved, the next start brings up the flags that are live now.    *)
FeedsMerged ==
    proc # Absent /\ Quiet /\ Bootable(inputs) =>
        \A f \in {"prot", "limit", "chal", "coraza"} : Booted(inputs, overrides).cfg[f] = proc.cfg[f]
=============================================================================
