------------------------- MODULE RequestGuardProofs ------------------------
(***************************************************************************)
(* Proofs about RequestGuard, for any number of requests and clients, any  *)
(* configurations and any routing tables.                                  *)
(***************************************************************************)
EXTENDS RequestGuard, TLAPS

----------------------------------------------------------------------------
(* The inductive invariant, request by request *)

PastLists ==
    {"trap", "health", "coraza", "evaluate", "mode", "attack", "signature", "blocked", "semantic", "ml", "limits", "upgrade", "detect", "score",
     "notfound", "penalty", "decide", "access", "schema", "proxy", "upstream"}
PastTrap == PastLists \ {"trap"}
PastSignatures == PastTrap \ {"health", "coraza", "evaluate", "mode", "attack", "signature", "blocked"}
Scoring == {"detect", "score", "notfound", "penalty", "decide"}
PastChallenge == {"access", "schema", "proxy", "upstream"}
PastAccess == {"schema", "proxy", "upstream"}

\* The request is at one of these stages, or was served and so has passed them.
On(r, S) == stage[r] \in S \/ result[r] = "served"

\* What has held since the request came holds now.
Current(r) == held[r] \subseteq Demands(cfg, table)

\* guard's copy is as old as the request.
Copied(r) == "challenge" \in held[r] => conf[r].chal

\* An event stream is let off only outside always mode.
LetOff(r) == sse[r] => "always" \notin held[r]

\* Nothing is left of the request before.
Fresh(r) == stage[r] = "idle" => ~sse[r]

\* What matches a list, a trap or a signature stops there.
Screened(r) ==
    /\ On(r, PastLists) => facts[r].match # "list"
    /\ On(r, PastTrap) /\ "traps" \in held[r] => facts[r].match # "trap"
    /\ stage[r] = "signature" => "unguarded" \notin held[r]
    /\ On(r, PastSignatures) /\ "signatures" \in held[r] /\ held[r] \cap {"attackBlock", "unguarded"} # {}
         => facts[r].match # "attack"

\* Upgrades are not scored, and nobody gets past the challenge without a cookie.
Cleared(r) ==
    /\ stage[r] \in Scoring => facts[r].kind # "ws"
    /\ On(r, PastChallenge) /\ mgr /\ "challenge" \in held[r] /\ ("always" \in held[r] \/ facts[r].kind = "ws")
         => facts[r].cookie \/ Exempt(r)

Admitted(r) == On(r, PastAccess) /\ "policy" \in held[r] => facts[r].auth

Denial == {"block", "ratelimit", "challenge", "access", "payment"}
Refusal == {"block", "coraza", "semantic", "ml", "openapi"}

\* A request without an answer has no denial on record, one with an answer has
\* the events that go with it.
Recorded(r) ==
    /\ stage[r] # "done" => result[r] = "none" /\ events[r] \cap Denial = {}
    /\ stage[r] = "done" =>
         /\ result[r] \in {"block", "scored", "tarpit"} => events[r] \cap Refusal # {}
         /\ result[r] = "ratelimit" => "ratelimit" \in events[r]
         /\ result[r] = "challenge" => "challenge" \in events[r]
         /\ result[r] = "forbidden" => events[r] \cap {"challenge", "access"} # {}
         /\ result[r] = "payment" => "payment" \in events[r]
         /\ result[r] = "error" => ~mgr
         /\ result[r] \in {"none", "unhealthy", "served"} => events[r] \cap Denial = {}

Sound(r) ==
    /\ Current(r) /\ Copied(r) /\ LetOff(r) /\ Fresh(r)
    /\ Screened(r) /\ Cleared(r) /\ Admitted(r) /\ Recorded(r)

Inv == TypeOK /\ \A r \in Requests : Sound(r)

----------------------------------------------------------------------------
(* What the settings ask, one by one *)

\* What the settings demand of a request, one by one.
LEMMA DemandsHold ==
    ASSUME NEW c, NEW t
    PROVE  /\ "challenge" \in Demands(c, t) <=> c.chal /\ ~t.skip
           /\ "always" \in Demands(c, t) <=> c.always
           /\ "traps" \in Demands(c, t) <=> c.trap # "off"
           /\ "signatures" \in Demands(c, t) <=> c.coraza # "block"
           /\ "attackBlock" \in Demands(c, t) <=> c.attackBlock
           /\ "unguarded" \in Demands(c, t) <=> ~c.prot
           /\ "policy" \in Demands(c, t) <=> t.policy
           /\ Demands(c, t) \subseteq Demand
BY DEF Demands, Demand
----------------------------------------------------------------------------
(* Framing: what a step of one request leaves alone *)

\* The rows of request q.
Row(q) == <<stage[q], facts[q], conf[q], sse[q], held[q], result[q], events[q]>>

\* A request that does not move, under settings that do not change, stays sound.
LEMMA OthersSound ==
    ASSUME NEW q \in Requests, Sound(q), UNCHANGED world, UNCHANGED Row(q)
    PROVE  Sound(q)'
BY DEF Sound, Current, Copied, LetOff, Fresh, Screened, Cleared, Admitted, Recorded, On, Exempt, world, Row

\* Settings and routes that change take what they no longer ask out of held.
LEMMA SettingsSound ==
    ASSUME NEW q \in Requests, Sound(q), UNCHANGED mgr,
           UNCHANGED <<stage[q], facts[q], conf[q], sse[q], result[q], events[q]>>,
           held'[q] = held[q] \cap Demands(cfg', table')
    PROVE  Sound(q)'
<1>1. Current(q)'  BY DEF Current
<1>2. Copied(q)' /\ LetOff(q)' /\ Fresh(q)' /\ Admitted(q)' /\ Recorded(q)'
  BY DEF Sound, Copied, LetOff, Fresh, Admitted, Recorded, On
<1>3. Screened(q)' /\ Cleared(q)'
  BY DEF Sound, Screened, Cleared, On, Exempt
<1> QED  BY <1>1, <1>2, <1>3 DEF Sound

\* The other requests, when request r takes a step that leaves the world alone.
LEMMA StepSound ==
    ASSUME NEW r \in Requests, Inv, UNCHANGED world, Sound(r)',
           \A q \in Requests \ {r} : UNCHANGED Row(q)
    PROVE  \A q \in Requests : Sound(q)'
BY OthersSound DEF Inv

\* At the start no request has come.
LEMMA InitInv == Init => Inv
<1> SUFFICES ASSUME Init PROVE Inv  OBVIOUS
<1>1. TypeOK  BY GuardConstants DEF Init, TypeOK, Stages, Results, Config, Table, NoCopy, AnyFact
<1>2. ASSUME NEW r \in Requests PROVE Sound(r)
  BY DEF Init, Sound, Current, Copied, LetOff, Fresh, Screened, Cleared, Admitted, Recorded, On,
     PastLists, PastTrap, PastSignatures, Scoring, PastChallenge, PastAccess
<1> QED  BY <1>1, <1>2 DEF Inv
----------------------------------------------------------------------------
(* The two ways on from a check: an answer, or the next check *)

TypedReply ==
    /\ stage' \in [Requests -> Stages] /\ result' \in [Requests -> Results]
    /\ events' \in [Requests -> SUBSET Events] /\ up' \in [Requests -> {"none", "app", "vault"}]

TypedLedger == banned' \subseteq Clients

\* A check that lets the request go on logs events and sets the next stage.
LEMMA LogTyped ==
    ASSUME TypeOK, NEW r \in Requests, NEW s \in Stages, NEW evs \in SUBSET Events, Log(r, s, evs)
    PROVE  TypedReply
BY DEF TypeOK, Log, Go, TypedReply

\* A check that answers logs events and ends the request.
LEMMA AnswerTyped ==
    ASSUME TypeOK, NEW r \in Requests, NEW res \in Results, NEW evs \in SUBSET Events,
           Answer(r, res, evs)
    PROVE  TypedReply
BY DEF TypeOK, Answer, Go, TypedReply, Stages

\* Bans and strikes keep the ledger a ledger.
LEMMA LedgerTyped ==
    ASSUME TypeOK
    PROVE  /\ UNCHANGED banned => TypedLedger
           /\ \A c \in Clients : Ban(c) \/ Strike(c) => TypedLedger
<1>1. UNCHANGED banned => TypedLedger  BY DEF TypeOK, TypedLedger
<1>2. ASSUME NEW c \in Clients, Ban(c) PROVE TypedLedger
  BY <1>2 DEF TypeOK, Ban, TypedLedger
<1>3. ASSUME NEW c \in Clients, Strike(c) PROVE TypedLedger
  BY <1>3 DEF TypeOK, Strike, Ban, TypedLedger
<1> QED  BY <1>1, <1>2, <1>3

\* The events a denial needs.
Covers(evs, res) ==
    /\ res \in {"block", "scored", "tarpit"} => evs \cap Refusal # {}
    /\ res = "ratelimit" => "ratelimit" \in evs
    /\ res = "challenge" => "challenge" \in evs
    /\ res = "forbidden" => evs \cap {"challenge", "access"} # {}
    /\ res = "payment" => "payment" \in evs
    /\ res = "error" => ~mgr
    /\ res \in {"none", "unhealthy", "served"} => evs \cap Denial = {}

\* An answer that is not the upstream's keeps the promises.
LEMMA AnswerSound ==
    ASSUME Inv, NEW r \in Requests, NEW res \in Results \ {"served"}, NEW evs \in SUBSET Events,
           stage[r] # "done", Answer(r, res, evs), Covers(evs, res),
           UNCHANGED <<world, facts, conf, held>>, LetOff(r)',
           \A q \in Requests \ {r} : sse'[q] = sse[q]
    PROVE  \A q \in Requests : Sound(q)'
<1> USE DEF Inv, TypeOK
<1>1. stage'[r] = "done" /\ result'[r] = res /\ events'[r] = events[r] \cup evs
  BY DEF Answer, Go
<1>2. \A q \in Requests \ {r} : UNCHANGED Row(q)
  BY DEF Answer, Go, Row
<1>3. Recorded(r)'
  BY <1>1 DEF Sound, Recorded, Covers, world
<1>4. Screened(r)' /\ Cleared(r)' /\ Admitted(r)'
  BY <1>1 DEF Screened, Cleared, Admitted, On, PastLists, PastTrap, PastSignatures, Scoring,
     PastChallenge, PastAccess
<1>5. Current(r)' /\ Copied(r)' /\ Fresh(r)'
  BY <1>1 DEF Sound, Current, Copied, Fresh, world
<1> QED  BY <1>2, <1>3, <1>4, <1>5, StepSound DEF Sound

\* The next check keeps them if the request may be there.
LEMMA LogSound ==
    ASSUME Inv, NEW r \in Requests, NEW s \in Stages \ {"idle", "done"}, NEW evs \in SUBSET Events,
           stage[r] # "done", Log(r, s, evs), evs \cap Denial = {},
           UNCHANGED <<world, facts, conf, held>>, LetOff(r)',
           \A q \in Requests \ {r} : sse'[q] = sse[q],
           Screened(r)', Cleared(r)', Admitted(r)'
    PROVE  \A q \in Requests : Sound(q)'
<1> USE DEF Inv, TypeOK
<1>1. stage'[r] = s /\ result'[r] = result[r] /\ events'[r] = events[r] \cup evs
  BY DEF Log, Go
<1>2. \A q \in Requests \ {r} : UNCHANGED Row(q)
  BY DEF Log, Go, Row
<1>3. Recorded(r)'
  BY <1>1 DEF Sound, Recorded
<1>5. Current(r)' /\ Copied(r)' /\ Fresh(r)'
  BY <1>1 DEF Sound, Current, Copied, Fresh, world
<1> QED  BY <1>2, <1>3, <1>5, StepSound DEF Sound
\* A check that lets the request go on answers nothing.
LEMMA Moved ==
    ASSUME Inv, NEW r \in Requests, NEW s, NEW evs, stage[r] # "done", Log(r, s, evs)
    PROVE  stage'[r] = s /\ result'[r] = "none" /\ result[r] = "none"
BY DEF Inv, TypeOK, Sound, Recorded, Log, Go

TypedVerdict == need' \in [Requests -> BOOLEAN] /\ extra' \in [Requests -> Nat]

\* Type correctness of a check from that of its parts.
LEMMA Typed ==
    ASSUME TypeOK, TypedReply, TypedLedger, TypedVerdict, UNCHANGED <<world, input>>
    PROVE  TypeOK'
BY DEF TypeOK, TypedReply, TypedLedger, TypedVerdict, world, input

\* The verdicts, where a check leaves them alone.
LEMMA VerdictTyped ==
    ASSUME TypeOK, UNCHANGED verdict
    PROVE  TypedVerdict
BY DEF TypeOK, TypedVerdict, verdict

\* Unchanged input, for the two lemmas above.
LEMMA Same ==
    ASSUME Inv, NEW r \in Requests, UNCHANGED input
    PROVE  /\ UNCHANGED <<facts, conf, held>> /\ LetOff(r)'
           /\ \A q \in Requests \ {r} : sse'[q] = sse[q]
BY DEF Inv, Sound, LetOff, input

\* A check that answers.
LEMMA AnswerInv ==
    ASSUME Inv, NEW r \in Requests, NEW res \in Results \ {"served"}, NEW evs \in SUBSET Events,
           stage[r] # "done", Answer(r, res, evs), Covers(evs, res), UNCHANGED <<world, input>>,
           TypedLedger, TypedVerdict
    PROVE  Inv'
<1>1. TypeOK'  BY AnswerTyped, Typed DEF Inv
<1>2. \A q \in Requests : Sound(q)'  BY Same, AnswerSound
<1> QED  BY <1>1, <1>2 DEF Inv

\* A check that passes the request on, with what the next one relies on.
LEMMA LogInv ==
    ASSUME Inv, NEW r \in Requests, NEW s \in Stages \ {"idle", "done"}, NEW evs \in SUBSET {"detected"},
           stage[r] # "done", Log(r, s, evs), UNCHANGED <<world, input>>,
           TypedLedger, TypedVerdict, Screened(r)', Cleared(r)', Admitted(r)'
    PROVE  Inv'
<1>1. evs \cap Denial = {} /\ evs \in SUBSET Events  BY DEF Denial, Events
<1>2. TypeOK'  BY <1>1, LogTyped, Typed DEF Inv
<1>3. \A q \in Requests : Sound(q)'  BY <1>1, Same, LogSound
<1> QED  BY <1>2, <1>3 DEF Inv

\* Nothing new is promised of a request that moves from stage t to stage s.
Within(t, s) ==
    /\ s \in PastLists => t \in PastLists
    /\ s \in PastTrap => t \in PastTrap
    /\ s \in PastSignatures => t \in PastSignatures
    /\ s # "signature"
    /\ s \in Scoring => t \in Scoring
    /\ s \in PastChallenge => t \in PastChallenge
    /\ s \in PastAccess => t \in PastAccess

\* A check lets the request go on to a stage that promises no more than the one it
\* leaves: nothing has to be shown of it.
LEMMA PassInv ==
    ASSUME Inv, NEW r \in Requests, NEW s \in Stages \ {"idle", "done"}, NEW evs \in SUBSET {"detected"},
           stage[r] # "done", Log(r, s, evs), UNCHANGED <<world, input>>,
           TypedLedger, TypedVerdict, Within(stage[r], s)
    PROVE  Inv'
<1>1. stage'[r] = s /\ result'[r] = "none"  BY Moved
<1>2. Screened(r)'  BY <1>1 DEF Inv, Sound, Screened, On, input, world, Within
<1>3. Cleared(r)'  BY <1>1 DEF Inv, Sound, Cleared, On, Exempt, input, world, Within
<1>4. Admitted(r)'  BY <1>1 DEF Inv, Sound, Admitted, On, input, world, Within
<1> QED  BY <1>2, <1>3, <1>4, LogInv

----------------------------------------------------------------------------
(* guard, check by check *)

\* The size limits.
LEMMA CheckSizeInv ==
    ASSUME Inv, NEW r \in Requests, CheckSize(r)
    PROVE  Inv'
<1> USE LedgerTyped, VerdictTyped DEF CheckSize, Pass, Inv
<1>1. CASE Answer(r, "block", {"block"})
  BY <1>1, AnswerInv DEF Results, Events, Covers, Refusal
<1>2. ASSUME NEW s \in {"banned", "lists"}, Log(r, s, {}) PROVE Inv'
  BY <1>2, PassInv DEF Stages, Within, PastLists, PastTrap, PastSignatures, Scoring,
     PastChallenge, PastAccess
<1> QED  BY <1>1, <1>2
\* The ledger of bans.
LEMMA BannedInv ==
    ASSUME Inv, NEW r \in Requests, Banned(r)
    PROVE  Inv'
<1> USE LedgerTyped, VerdictTyped DEF Banned, Pass, Inv
<1>1. CASE Answer(r, "block", {"block"})
  BY <1>1, AnswerInv DEF Results, Events, Covers, Refusal
<1>2. CASE Log(r, "acquire", {})
  BY <1>2, PassInv DEF Stages, Within, PastLists, PastTrap, PastSignatures, Scoring,
     PastChallenge, PastAccess
<1> QED  BY <1>1, <1>2

\* The concurrency slot.
LEMMA AcquireInv ==
    ASSUME Inv, NEW r \in Requests, Acquire(r)
    PROVE  Inv'
<1> USE LedgerTyped, VerdictTyped DEF Acquire, Pass, Inv
<1>1. CASE Answer(r, "ratelimit", {"ratelimit"})
  BY <1>1, AnswerInv DEF Results, Events, Covers
<1>2. CASE Log(r, "lists", {})
  BY <1>2, PassInv DEF Stages, Within, PastLists, PastTrap, PastSignatures, Scoring,
     PastChallenge, PastAccess
<1> QED  BY <1>1, <1>2

\* The block lists, and the note that an event stream may be let off: only
\* while always mode is off, and then it has not held.
LEMMA ListsInv ==
    ASSUME Inv, NEW r \in Requests, Lists(r)
    PROVE  Inv'
<1> USE DEF Lists, Pass, Inv
<1>1. /\ UNCHANGED <<world, facts, conf, held>> /\ sse' \in [Requests -> BOOLEAN]
      /\ \A q \in Requests \ {r} : sse'[q] = sse[q]
  BY DEF TypeOK
<1>2. LetOff(r)'
  BY <1>1, DemandsHold DEF TypeOK, Sound, Current, LetOff
<1>3. CASE Answer(r, "block", {"block"})
  <2>1. TypedReply  BY <1>3, AnswerTyped DEF Results, Events
  <2>2. \A q \in Requests : Sound(q)'
    BY <1>1, <1>2, <1>3, AnswerSound DEF Results, Events, Covers, Refusal
  <2> QED  BY <1>1, <2>1, <2>2 DEF TypeOK, TypedReply, world, verdict
<1>4. CASE facts[r].match # "list" /\ Log(r, "trap", {})
  <2>1. TypedReply  BY <1>4, LogTyped DEF Stages
  <2>2. stage'[r] = "trap" /\ result'[r] = "none"  BY <1>4, Moved
  <2>3. Screened(r)' /\ Cleared(r)' /\ Admitted(r)'
    BY <1>1, <1>4, <2>2 DEF Screened, Cleared, Admitted, On, PastLists, PastTrap, PastSignatures,
       Scoring, PastChallenge, PastAccess
  <2>4. \A q \in Requests : Sound(q)'
    BY <1>1, <1>2, <1>4, <2>3, LogSound DEF Stages
  <2> QED  BY <1>1, <2>1, <2>4 DEF TypeOK, TypedReply, world, verdict
<1> QED  BY <1>3, <1>4

\* The client of a request.
LEMMA ClientTyped ==
    ASSUME Inv, NEW r \in Requests
    PROVE  Client(r) \in Clients
BY DEF Inv, TypeOK, Fact, Client

\* A challenge, or the error page of a process without a challenge manager.
LEMMA ServeChallengeInv ==
    ASSUME Inv, NEW r \in Requests, NEW evs \in SUBSET Events, stage[r] # "done",
           ServeChallenge(r, evs), UNCHANGED <<world, input>>, TypedLedger, TypedVerdict
    PROVE  Inv'
<1>1. CASE mgr
  <2>1. evs \cup {"challenge"} \in SUBSET Events /\ Covers(evs \cup {"challenge"}, "challenge")
    BY DEF Events, Covers
  <2> QED  BY <1>1, <2>1, AnswerInv DEF ServeChallenge, Results
<1>2. CASE ~mgr
  BY <1>2, AnswerInv DEF ServeChallenge, Results, Covers
<1> QED  BY <1>1, <1>2

\* The trap paths: what matches one goes no further while traps are on.
LEMMA TrapInv ==
    ASSUME Inv, NEW r \in Requests, Trap(r)
    PROVE  Inv'
<1> USE VerdictTyped DEF Trap, Pass, Inv
<1>1. TypedLedger  BY ClientTyped, LedgerTyped
<1>2. CASE (cfg.trap = "off" \/ facts[r].match # "trap") /\ Log(r, "health", {})
  <2>1. stage'[r] = "health" /\ result'[r] = "none"  BY <1>2, Moved
  <2>2. Screened(r)'
    BY <1>2, <2>1, DemandsHold DEF Sound, Current, Screened, On, PastLists, PastTrap,
       PastSignatures, input
  <2>3. Cleared(r)' /\ Admitted(r)'
    BY <2>1 DEF Cleared, Admitted, On, Scoring, PastChallenge, PastAccess
  <2> QED  BY <1>1, <1>2, <2>2, <2>3, LogInv DEF Stages
<1>3. CASE Answer(r, "block", {"block"})
  BY <1>1, <1>3, AnswerInv DEF Results, Events, Covers, Refusal
<1>4. CASE Answer(r, "tarpit", {"block"})
  BY <1>1, <1>4, AnswerInv DEF Results, Events, Covers, Refusal
<1>5. CASE ServeChallenge(r, {})
  BY <1>1, <1>5, ServeChallengeInv
<1> QED  BY <1>2, <1>3, <1>4, <1>5

\* The health of the upstream.
LEMMA HealthInv ==
    ASSUME Inv, NEW r \in Requests, Health(r)
    PROVE  Inv'
<1> USE LedgerTyped, VerdictTyped DEF Health, Pass, Inv
<1>1. CASE Answer(r, "unhealthy", {})
  BY <1>1, AnswerInv DEF Results, Covers
<1>2. CASE Log(r, "coraza", {})
  BY <1>2, PassInv DEF Stages, Within, PastLists, PastTrap, PastSignatures, Scoring,
     PastChallenge, PastAccess
<1> QED  BY <1>1, <1>2

\* Is Coraza on?
LEMMA CorazaInv ==
    ASSUME Inv, NEW r \in Requests, Coraza(r)
    PROVE  Inv'
<1> USE LedgerTyped, VerdictTyped DEF Coraza, Pass, Inv
<1>1. ASSUME NEW s \in {"evaluate", "attack"}, Log(r, s, {}) PROVE Inv'
  BY <1>1, PassInv DEF Stages, Within, PastLists, PastTrap, PastSignatures, Scoring,
     PastChallenge, PastAccess
<1> QED  BY <1>1

\* Coraza blocks, records or finds nothing.
LEMMA EvaluateInv ==
    ASSUME Inv, NEW r \in Requests, Evaluate(r)
    PROVE  Inv'
<1> USE VerdictTyped DEF Evaluate, Pass, Inv
<1>1. TypedLedger  BY ClientTyped, LedgerTyped
<1>2. CASE Answer(r, "block", {"coraza"})
  BY <1>1, <1>2, AnswerInv DEF Results, Events, Covers, Refusal
<1>3. ASSUME NEW evs \in SUBSET {"detected"}, Log(r, "mode", evs) PROVE Inv'
  BY <1>1, <1>3, PassInv DEF Stages, Within, PastLists, PastTrap, PastSignatures, Scoring,
     PastChallenge, PastAccess
<1> QED  BY <1>2, <1>3

\* On to the semantic engine past the signatures, which do not block all along.
LEMMA PastSignaturesInv ==
    ASSUME Inv, NEW r \in Requests, stage[r] \in {"mode", "attack", "signature"}, Log(r, "semantic", {}),
           UNCHANGED <<world, input>>, TypedLedger, TypedVerdict,
           "signatures" \in held[r] /\ held[r] \cap {"attackBlock", "unguarded"} # {} => facts[r].match # "attack"
    PROVE  Inv'
<1>1. stage'[r] = "semantic" /\ result'[r] = "none"  BY Moved
<1>2. Screened(r)'
  BY <1>1 DEF Inv, Sound, Screened, On, PastLists, PastTrap, PastSignatures, input
<1>3. Cleared(r)' /\ Admitted(r)'
  BY <1>1 DEF Cleared, Admitted, On, Scoring, PastChallenge, PastAccess
<1> QED  BY <1>2, <1>3, LogInv DEF Stages

\* The signatures are passed over only where Coraza's mode is to block: then
\* they are not among what has held.
LEMMA ModeInv ==
    ASSUME Inv, NEW r \in Requests, Mode(r)
    PROVE  Inv'
<1> USE LedgerTyped, VerdictTyped DEF Mode, Pass, Inv
<1>1. CASE Log(r, "attack", {})
  BY <1>1, PassInv DEF Stages, Within, PastLists, PastTrap, PastSignatures, Scoring,
     PastChallenge, PastAccess
<1>2. CASE cfg.coraza = "block" /\ Log(r, "semantic", {})
  <2>1. "signatures" \notin held[r]  BY <1>2, DemandsHold DEF Sound, Current
  <2> QED  BY <1>2, <2>1, PastSignaturesInv
<1> QED  BY <1>1, <1>2

\* What matches a signature is blocked where the guard is off, and goes on to
\* the question of attack_block only where it was not off all along.
LEMMA AttackInv ==
    ASSUME Inv, NEW r \in Requests, Attack(r)
    PROVE  Inv'
<1> USE LedgerTyped, VerdictTyped DEF Attack, Pass, Inv
<1>1. CASE facts[r].match # "attack" /\ Log(r, "semantic", {})
  BY <1>1, PastSignaturesInv
<1>2. CASE Log(r, "blocked", {})
  BY <1>2, PassInv DEF Stages, Within, PastLists, PastTrap, PastSignatures, Scoring,
     PastChallenge, PastAccess
<1>3. CASE cfg.prot /\ Log(r, "signature", {})
  <2>1. stage'[r] = "signature" /\ result'[r] = "none"  BY <1>3, Moved
  <2>2. "unguarded" \notin held[r]  BY <1>3, DemandsHold DEF Sound, Current
  <2>3. Screened(r)'
    BY <2>1, <2>2 DEF Sound, Screened, On, PastLists, PastTrap, PastSignatures, input
  <2>4. Cleared(r)' /\ Admitted(r)'
    BY <2>1 DEF Cleared, Admitted, On, Scoring, PastChallenge, PastAccess
  <2> QED  BY <1>3, <2>3, <2>4, LogInv DEF Stages
<1> QED  BY <1>1, <1>2, <1>3

\* Where attack_block is off, neither of the two reasons to block has held.
LEMMA AttackBlockInv ==
    ASSUME Inv, NEW r \in Requests, AttackBlock(r)
    PROVE  Inv'
<1> USE VerdictTyped DEF AttackBlock, Pass, Inv
<1>1. TypedLedger  BY ClientTyped, LedgerTyped
<1>2. CASE Log(r, "blocked", {})
  BY <1>1, <1>2, PassInv DEF Stages, Within, PastLists, PastTrap, PastSignatures, Scoring,
     PastChallenge, PastAccess
<1>3. CASE ~cfg.attackBlock /\ Log(r, "semantic", {})
  <2>1. "attackBlock" \notin held[r]  BY <1>3, DemandsHold DEF Sound, Current
  <2>2. "unguarded" \notin held[r]  BY DEF Sound, Screened
  <2> QED  BY <1>1, <1>3, <2>1, <2>2, PastSignaturesInv
<1> QED  BY <1>2, <1>3

\* The block page of a signature.
LEMMA AttackBlockedInv ==
    ASSUME Inv, NEW r \in Requests, AttackBlocked(r)
    PROVE  Inv'
<1> USE VerdictTyped DEF AttackBlocked, Inv
<1>1. TypedLedger  BY ClientTyped, LedgerTyped
<1> QED  BY <1>1, AnswerInv DEF Results, Events, Covers, Refusal

\* The semantic engine.
LEMMA SemanticInv ==
    ASSUME Inv, NEW r \in Requests, Semantic(r)
    PROVE  Inv'
<1> USE DEF Semantic, Pass, Inv
<1>1. TypedLedger  BY ClientTyped, LedgerTyped
<1>2. TypedVerdict
  <2>1. CASE UNCHANGED verdict  BY <2>1, VerdictTyped
  <2> DEFINE high == facts[r].rating \in {"mid", "strong"}
             asks == high /\ cfg.sem \in {"challenge", "block"}
  <2>2. ASSUME need' = [need EXCEPT ![r] = asks],
               extra' = [extra EXCEPT ![r] = IF high THEN 1 ELSE 0]
        PROVE  TypedVerdict
    <3>1. asks \in BOOLEAN  OBVIOUS
    <3> HIDE DEF asks, high
    <3>2. need' \in [Requests -> BOOLEAN]  BY <2>2, <3>1 DEF TypeOK
    <3>3. extra' \in [Requests -> Nat]  BY <2>2 DEF TypeOK
    <3> QED  BY <3>2, <3>3 DEF TypedVerdict
  <2> QED  BY <2>1, <2>2
<1>3. CASE Answer(r, "block", {"semantic"})
  BY <1>1, <1>2, <1>3, AnswerInv DEF Results, Events, Covers, Refusal
<1>4. ASSUME NEW s \in {"limits", "ml"}, NEW evs \in SUBSET {"detected"}, Log(r, s, evs)
      PROVE  Inv'
  BY <1>1, <1>2, <1>4, PassInv DEF Stages, Within, PastLists, PastTrap, PastSignatures, Scoring,
     PastChallenge, PastAccess
<1> QED  BY <1>3, <1>4

\* The model.
LEMMA MlInv ==
    ASSUME Inv, NEW r \in Requests, Ml(r)
    PROVE  Inv'
<1> USE DEF Ml, Pass, Inv
<1>1. TypedLedger  BY ClientTyped, LedgerTyped
<1>2. TypedVerdict
  <2>1. CASE UNCHANGED verdict  BY <2>1, VerdictTyped
  <2>2. CASE \E n \in 0..1 : extra' = [extra EXCEPT ![r] = extra[r] + n]
    <3>1. extra' \in [Requests -> Nat]  BY <2>2 DEF TypeOK
    <3>2. CASE UNCHANGED need  BY <3>1, <3>2 DEF TypeOK, TypedVerdict
    <3>3. CASE need' = [need EXCEPT ![r] = TRUE]  BY <3>1, <3>3 DEF TypeOK, TypedVerdict
    <3> QED  BY <2>1, <2>2, <3>2, <3>3
  <2> QED  BY <2>1, <2>2
<1>3. CASE Answer(r, "block", {"ml"})
  BY <1>1, <1>2, <1>3, AnswerInv DEF Results, Events, Covers, Refusal
<1>4. ASSUME NEW evs \in SUBSET {"detected"}, Log(r, "limits", evs)
      PROVE  Inv'
  BY <1>1, <1>2, <1>4, PassInv DEF Stages, Within, PastLists, PastTrap, PastSignatures, Scoring,
     PastChallenge, PastAccess
<1> QED  BY <1>3, <1>4

\* The three token buckets.
LEMMA LimitsInv ==
    ASSUME Inv, NEW r \in Requests, Limits(r)
    PROVE  Inv'
<1> USE VerdictTyped DEF Limits, Pass, Inv
<1>1. TypedLedger  BY ClientTyped, LedgerTyped
<1>2. CASE ServeChallenge(r, {"ratelimit"})
  BY <1>1, <1>2, ServeChallengeInv DEF Events
<1>3. CASE Answer(r, "ratelimit", {"ratelimit"})
  BY <1>1, <1>3, AnswerInv DEF Results, Events, Covers
<1>4. CASE Log(r, "upgrade", {})
  BY <1>1, <1>4, PassInv DEF Stages, Within, PastLists, PastTrap, PastSignatures, Scoring,
     PastChallenge, PastAccess
<1> QED  BY <1>2, <1>3, <1>4 DEF DenyLimited

\* An upgrade gets past the challenge with a cookie, from the allowlist, or if
\* the challenge does not apply - and then it has not held.
LEMMA UpgradeInv ==
    ASSUME Inv, NEW r \in Requests, Upgrade(r)
    PROVE  Inv'
<1> USE LedgerTyped, VerdictTyped DEF Upgrade, Pass, Inv
<1>1. CASE Answer(r, "forbidden", {"challenge"})
  BY <1>1, AnswerInv DEF Results, Events, Covers
<1>2. CASE facts[r].kind # "ws" /\ Log(r, "detect", {})
  <2>1. stage'[r] = "detect" /\ result'[r] = "none"  BY <1>2, Moved
  <2>2. Screened(r)'
    BY <1>2, <2>1 DEF Sound, Screened, On, PastLists, PastTrap, PastSignatures, input
  <2>3. Cleared(r)' /\ Admitted(r)'
    BY <1>2, <2>1 DEF Cleared, Admitted, On, Scoring, PastChallenge, PastAccess, input
  <2> QED  BY <1>2, <2>2, <2>3, LogInv DEF Stages
<1>3. CASE /\ facts[r].kind = "ws" /\ (facts[r].allowed \/ ~Gated(r) \/ facts[r].cookie)
           /\ Log(r, "access", {})
  <2>1. stage'[r] = "access" /\ result'[r] = "none"  BY <1>3, Moved
  <2>2. Screened(r)'
    BY <1>3, <2>1 DEF Sound, Screened, On, PastLists, PastTrap, PastSignatures, input
  <2>3. "challenge" \in held[r] /\ mgr => facts[r].cookie \/ Exempt(r)
    BY <1>3, DemandsHold DEF Sound, Current, Copied, Gated, Exempt
  <2>4. Cleared(r)'
    BY <2>1, <2>3 DEF Cleared, On, Scoring, Exempt, input, world
  <2>5. Admitted(r)'
    BY <2>1 DEF Admitted, On, PastAccess
  <2> QED  BY <1>3, <2>2, <2>4, <2>5, LogInv DEF Stages
<1> QED  BY <1>1, <1>2, <1>3
\* Detection answers at once, or leaves it to the score.
LEMMA DetectInv ==
    ASSUME Inv, NEW r \in Requests, Detect(r)
    PROVE  Inv'
<1> USE VerdictTyped DEF Detect, Pass, Inv
<1>1. TypedLedger  BY ClientTyped, LedgerTyped
<1>2. CASE Answer(r, "block", {"block"})
  BY <1>1, <1>2, AnswerInv DEF Results, Events, Covers, Refusal
<1>3. ASSUME NEW s \in {"score", "decide"}, Log(r, s, {}) PROVE Inv'
  BY <1>1, <1>3, PassInv DEF Stages, Within, PastLists, PastTrap, PastSignatures, Scoring,
     PastChallenge, PastAccess
<1> QED  BY <1>2, <1>3

\* A change of need alone.
LEMMA NeedTyped ==
    ASSUME TypeOK, NEW r \in Requests, NEW b \in BOOLEAN, UNCHANGED extra,
           need' = need \/ need' = [need EXCEPT ![r] = b]
    PROVE  TypedVerdict
BY DEF TypeOK, TypedVerdict

\* The score is judged.
LEMMA ScoreInv ==
    ASSUME Inv, NEW r \in Requests, Score(r)
    PROVE  Inv'
<1> USE DEF Score, Pass, Inv
<1>1. TypedLedger  BY ClientTyped, LedgerTyped
<1>2. TypedVerdict
  <2> DEFINE total == facts[r].score + extra[r]
             asks == need[r] \/ total >= 1
  <2>1. asks \in BOOLEAN /\ (need' = need \/ need' = [need EXCEPT ![r] = asks])  OBVIOUS
  <2> HIDE DEF asks
  <2> QED  BY <2>1, NeedTyped
<1>3. ASSUME NEW res \in {"scored", "block"}, Answer(r, res, {"block"}) PROVE Inv'
  BY <1>1, <1>2, <1>3, AnswerInv DEF Results, Events, Covers, Refusal
<1>4. CASE Answer(r, "payment", {"payment"})
  BY <1>1, <1>2, <1>4, AnswerInv DEF Results, Events, Covers
<1>5. CASE Log(r, "notfound", {})
  BY <1>1, <1>2, <1>5, PassInv DEF Stages, Within, PastLists, PastTrap, PastSignatures, Scoring,
     PastChallenge, PastAccess
<1> QED  BY <1>3, <1>4, <1>5

\* The trackers of missing pages and penalties.
LEMMA TrackerInv ==
    ASSUME Inv, NEW r \in Requests, NEW at \in {"notfound", "penalty"},
           NEW onward \in {"penalty", "decide"}, NEW action, Tracker(r, at, onward, action)
    PROVE  Inv'
<1> USE DEF Tracker, Pass, Inv
<1>1. TypedLedger  BY ClientTyped, LedgerTyped
<1>2. TypedVerdict  BY NeedTyped
<1>3. ASSUME NEW res \in {"tarpit", "block"}, Answer(r, res, {"block"}) PROVE Inv'
  BY <1>1, <1>2, <1>3, AnswerInv DEF Results, Events, Covers, Refusal
<1>4. CASE Log(r, onward, {})
  BY <1>1, <1>2, <1>4, PassInv DEF Stages, Within, PastLists, PastTrap, PastSignatures, Scoring,
     PastChallenge, PastAccess
<1> QED  BY <1>3, <1>4

\* Past the challenge: a request that is not an upgrade has a cookie or is
\* exempt if always mode and the challenge have held.
LEMMA PastChallengeInv ==
    ASSUME Inv, NEW r \in Requests, stage[r] = "decide", Log(r, "access", {}),
           UNCHANGED <<world, banned, input, verdict>>,
           mgr /\ "challenge" \in held[r] /\ "always" \in held[r] => facts[r].cookie \/ Exempt(r)
    PROVE  Inv'
<1>1. stage'[r] = "access" /\ result'[r] = "none"  BY Moved
<1>2. Screened(r)'
  BY <1>1 DEF Inv, Sound, Screened, On, PastLists, PastTrap, PastSignatures, input
<1>3. Cleared(r)'
  BY <1>1 DEF Inv, Sound, Cleared, On, Scoring, Exempt, input, world
<1>4. Admitted(r)'
  BY <1>1 DEF Admitted, On, PastAccess
<1> QED  BY <1>2, <1>3, <1>4, LogInv, LedgerTyped, VerdictTyped DEF Stages, Inv

\* The soft pass of a subrequest that cannot show a page.
LEMMA SoftPassInv ==
    ASSUME Inv, NEW r \in Requests, SoftPass(r)
    PROVE  Inv'
<1>1. "always" \notin held[r]
  BY DemandsHold DEF SoftPass, Softened, Inv, Sound, Current, LetOff
<1> QED  BY <1>1, PastChallengeInv DEF SoftPass, Pass

\* The challenge: with the challenge always on nobody gets past it without a cookie.
LEMMA DecideInv ==
    ASSUME Inv, NEW r \in Requests, Decide(r)
    PROVE  Inv'
<1>1. CASE Challenged(r) /\ ServeChallenge(r, {})
  BY <1>1, ServeChallengeInv, LedgerTyped, VerdictTyped DEF Decide, Inv
<1>2. CASE ~Challenged(r) /\ Log(r, "access", {})
  <2>1. mgr /\ "challenge" \in held[r] /\ "always" \in held[r] => facts[r].cookie \/ Exempt(r)
    BY <1>2, DemandsHold DEF Inv, Sound, Current, Copied, Challenged, Gated
  <2> QED  BY <1>2, <2>1, PastChallengeInv DEF Decide
<1> QED  BY <1>1, <1>2 DEF Decide, Pass

\* The access policy: while the route has one only the authorised get past it.
LEMMA CheckAccessInv ==
    ASSUME Inv, NEW r \in Requests, CheckAccess(r)
    PROVE  Inv'
<1> USE LedgerTyped, VerdictTyped DEF CheckAccess, Pass, Inv
<1>1. CASE Answer(r, "forbidden", {"access"})
  BY <1>1, AnswerInv DEF Results, Events, Covers
<1>2. CASE ~(table.policy /\ ~facts[r].auth) /\ Log(r, "schema", {})
  <2>1. stage'[r] = "schema" /\ result'[r] = "none"  BY <1>2, Moved
  <2>2. Screened(r)'
    BY <2>1 DEF Sound, Screened, On, PastLists, PastTrap, PastSignatures, input
  <2>3. Cleared(r)'
    BY <2>1 DEF Sound, Cleared, On, Scoring, PastChallenge, Exempt, input, world
  <2>4. Admitted(r)'
    BY <1>2, <2>1, DemandsHold DEF Sound, Current, Admitted, On, input
  <2> QED  BY <1>2, <2>2, <2>3, <2>4, LogInv DEF Stages
<1> QED  BY <1>1, <1>2
\* The OpenAPI gate.
LEMMA CheckOpenAPIInv ==
    ASSUME Inv, NEW r \in Requests, CheckOpenAPI(r)
    PROVE  Inv'
<1> USE LedgerTyped, VerdictTyped DEF CheckOpenAPI, Pass, Inv
<1>1. CASE Answer(r, "block", {"openapi"})
  BY <1>1, AnswerInv DEF Results, Events, Covers, Refusal
<1>2. ASSUME NEW evs \in SUBSET {"detected"}, Log(r, "proxy", evs) PROVE Inv'
  BY <1>2, PassInv DEF Stages, Within, PastLists, PastTrap, PastSignatures, Scoring,
     PastChallenge, PastAccess
<1> QED  BY <1>1, <1>2

\* The promises of a request that stays past every check.
LEMMA ServedSound ==
    ASSUME Inv, NEW r \in Requests, stage[r] \in {"proxy", "upstream"}, UNCHANGED <<world, input>>,
           stage'[r] \in {"upstream", "done"}, Recorded(r)',
           \A q \in Requests \ {r} : UNCHANGED Row(q)
    PROVE  \A q \in Requests : Sound(q)'
<1>1. Screened(r)'
  BY DEF Inv, Sound, Screened, On, PastLists, PastTrap, PastSignatures, input
<1>2. Cleared(r)'
  BY DEF Inv, Sound, Cleared, On, Scoring, PastChallenge, Exempt, input, world
<1>3. Admitted(r)'
  BY DEF Inv, Sound, Admitted, On, PastAccess, input
<1>4. Current(r)' /\ Copied(r)' /\ LetOff(r)' /\ Fresh(r)'
  BY DEF Inv, Sound, Current, Copied, LetOff, Fresh, input, world
<1> QED  BY <1>1, <1>2, <1>3, <1>4, StepSound DEF Sound

\* The request is given to the upstream.
LEMMA ProxyInv ==
    ASSUME Inv, NEW r \in Requests, Proxy(r)
    PROVE  Inv'
<1> USE LedgerTyped, VerdictTyped DEF Proxy
<1>1. CASE Answer(r, "unhealthy", {})
  BY <1>1, AnswerInv DEF Results, Covers, Inv
<1>2. CASE /\ Go(r, "upstream") /\ up' = [up EXCEPT ![r] = table.up]
           /\ UNCHANGED <<result, events>>
  <2>1. stage'[r] = "upstream" /\ \A q \in Requests \ {r} : UNCHANGED Row(q)
    BY <1>2 DEF Inv, TypeOK, Go, Row, input
  <2>2. Recorded(r)'  BY <1>2, <2>1 DEF Inv, Sound, Recorded
  <2>3. \A q \in Requests : Sound(q)'  BY <2>1, <2>2, ServedSound
  <2>4. TypedReply  BY <1>2 DEF Inv, TypeOK, Table, Go, Stages, TypedReply
  <2> QED  BY <2>3, <2>4, Typed DEF Inv
<1> QED  BY <1>1, <1>2

\* The upstream answers.
LEMMA RespondInv ==
    ASSUME Inv, NEW r \in Requests, Respond(r)
    PROVE  Inv'
<1> USE DEF Respond
<1>1. /\ stage'[r] = "done" /\ result'[r] = "served" /\ events'[r] = events[r]
      /\ \A q \in Requests \ {r} : UNCHANGED Row(q)
  BY DEF Inv, TypeOK, Answer, Go, Row, input
<1>2. Recorded(r)'  BY <1>1 DEF Inv, Sound, Recorded
<1>3. \A q \in Requests : Sound(q)'  BY <1>1, <1>2, ServedSound
<1>4. TypedReply  BY AnswerTyped DEF Inv, Results
<1> QED  BY <1>3, <1>4, LedgerTyped, VerdictTyped, Typed DEF Inv

\* guard returns, and the goroutine is free for the next request.
LEMMA ReturnInv ==
    ASSUME Inv, NEW r \in Requests, Return(r)
    PROVE  Inv'
<1> USE DEF Return
<1>1. \A q \in Requests \ {r} : UNCHANGED Row(q)
  BY DEF Inv, TypeOK, Go, Row
<1>2. /\ stage'[r] = "idle" /\ result'[r] = "none" /\ events'[r] = {} /\ held'[r] = {}
      /\ ~sse'[r]
  BY DEF Inv, TypeOK, Go
<1>3. Sound(r)'
  BY <1>2 DEF Sound, Current, Copied, LetOff, Fresh, Screened, Cleared, Admitted, Recorded, On,
     PastLists, PastTrap, PastSignatures, Scoring, PastChallenge, PastAccess
<1>4. \A q \in Requests : Sound(q)'  BY <1>1, <1>3, StepSound
<1>5. facts' \in [Requests -> Fact]
  BY GuardConstants DEF Inv, TypeOK, AnyFact
<1>6. TypeOK'
  BY <1>5 DEF Inv, TypeOK, Go, Stages, Results, NoCopy, world
<1> QED  BY <1>4, <1>6 DEF Inv

\* A new request, of which every setting has held since it came.
LEMMA ArriveInv ==
    ASSUME Inv, NEW r \in Requests, NEW f \in Facts, Arrive(r, f)
    PROVE  Inv'
<1> USE DEF Arrive
<1>1. \A q \in Requests \ {r} : UNCHANGED Row(q)
  BY DEF Inv, TypeOK, Go, Row
<1>2. /\ stage'[r] = "size" /\ result'[r] = "none" /\ events'[r] = events[r] /\ ~sse'[r]
      /\ held'[r] = Demands(cfg, table) /\ conf'[r] = Copy(cfg) /\ UNCHANGED world
  BY DEF Inv, TypeOK, Sound, Recorded, Fresh, Go, world
<1>3. Current(r)' /\ Copied(r)'
  BY <1>2, DemandsHold DEF Current, Copied, Copy, world
<1>4. LetOff(r)' /\ Fresh(r)' /\ Screened(r)' /\ Cleared(r)' /\ Admitted(r)'
  BY <1>2 DEF LetOff, Fresh, Screened, Cleared, Admitted, On, PastLists, PastTrap,
     PastSignatures, Scoring, PastChallenge, PastAccess
<1>5. Recorded(r)'  BY <1>2 DEF Inv, Sound, Recorded
<1>6. \A q \in Requests : Sound(q)'
  BY <1>1, <1>2, <1>3, <1>4, <1>5, StepSound DEF Sound
<1>7. TypeOK'
  BY GuardConstants, DemandsHold DEF Inv, TypeOK, Go, Stages, Copy, Config, world, verdict
<1> QED  BY <1>6, <1>7 DEF Inv

----------------------------------------------------------------------------
(* The operator *)

\* A change of settings or routes.
LEMMA ChangeInv ==
    ASSUME Inv, StillHeld(cfg', table'), cfg' \in Config, next' \in Config, table' \in Table,
           phase' \in {"idle", "coraza", "semantic", "ml", "pipeline"},
           UNCHANGED <<mgr, banned, stage, facts, conf, sse, verdict, result, events, up>>
    PROVE  Inv'
<1>1. ASSUME NEW q \in Requests PROVE Sound(q)'
  BY SettingsSound DEF Inv, StillHeld
<1>2. TypeOK'
  BY DEF Inv, TypeOK, StillHeld, verdict
<1> QED  BY <1>1, <1>2 DEF Inv

\* Some component gets new settings: what has not held throughout is forgotten.
LEMMA TellInv ==
    ASSUME Inv, NEW from, NEW to \in {"idle", "coraza", "semantic", "ml", "pipeline"}, NEW c \in Config,
           Tell(from, to, c), next' \in Config
    PROVE  Inv'
BY ChangeInv DEF Tell, Inv, TypeOK

\* The guard, and the settings that are on their way.
LEMMA ApplySafeConfigInv ==
    ASSUME Inv, NEW c \in Configs, ApplySafeConfig(c)
    PROVE  Inv'
<1>1. [cfg EXCEPT !.prot = c.prot, !.attackBlock = c.attackBlock] \in Config
  BY GuardConstants DEF Inv, TypeOK, Config
<1>2. c \in Config  BY GuardConstants
<1> QED  BY <1>1, <1>2, TellInv DEF ApplySafeConfig

\* The engines and the pipeline, one after the other.
LEMMA ApplyConfigInv ==
    ASSUME Inv, TellCoraza \/ TellSemantic \/ TellML \/ ApplyConfig
    PROVE  Inv'
<1>1. /\ next \in Config
      /\ [cfg EXCEPT !.waf = next.waf, !.coraza = next.coraza] \in Config
      /\ [cfg EXCEPT !.sem = next.sem] \in Config
      /\ [cfg EXCEPT !.ml = next.ml] \in Config
  BY DEF Inv, TypeOK, Config
<1> QED  BY <1>1, TellInv DEF TellCoraza, TellSemantic, TellML, ApplyConfig

\* The route table is replaced.
LEMMA ReplaceInv ==
    ASSUME Inv, NEW t \in Tables, Replace(t)
    PROVE  Inv'
BY ChangeInv, GuardConstants DEF Replace, Inv, TypeOK

\* A ban runs out.
LEMMA ExpireInv ==
    ASSUME Inv, NEW c \in Clients, Expire(c)
    PROVE  Inv'
<1> USE DEF Expire
<1>1. ASSUME NEW q \in Requests PROVE Sound(q)'
  BY OthersSound DEF Inv, input, Row
<1>2. TypeOK'
  BY GuardConstants DEF Inv, TypeOK, world, input, verdict
<1> QED  BY <1>1, <1>2 DEF Inv
----------------------------------------------------------------------------
(* All steps together *)

\* The checks up to the ML engine.
LEMMA InspectInv ==
    ASSUME Inv, NEW r \in Requests, Inspect(r)
    PROVE  Inv'
BY CheckSizeInv, BannedInv, AcquireInv, ListsInv, TrapInv, HealthInv, CorazaInv, EvaluateInv,
   ModeInv, AttackInv, AttackBlockInv, AttackBlockedInv, SemanticInv, MlInv DEF Inspect

\* Limits, upgrades, scores and the decision to challenge.
LEMMA WeighInv ==
    ASSUME Inv, NEW r \in Requests, Weigh(r)
    PROVE  Inv'
<1>1. CASE NotFound(r)  BY <1>1, TrackerInv DEF NotFound
<1>2. CASE Penalty(r)  BY <1>2, TrackerInv DEF Penalty
<1> QED
  BY <1>1, <1>2, LimitsInv, UpgradeInv, DetectInv, ScoreInv, SoftPassInv, DecideInv DEF Weigh

\* Access policy, schema, proxy and the answer of the upstream.
LEMMA ServeInv ==
    ASSUME Inv, NEW r \in Requests, Serve(r)
    PROVE  Inv'
BY CheckAccessInv, CheckOpenAPIInv, ProxyInv, RespondInv, ReturnInv DEF Serve

\* Every step preserves the invariant.
LEMMA NextInv == Inv /\ [Next]_vars => Inv'
<1> SUFFICES ASSUME Inv, [Next]_vars PROVE Inv'  OBVIOUS
<1>1. CASE UNCHANGED vars
  <2> USE <1>1 DEF vars, world, input, verdict
  <2>1. ASSUME NEW q \in Requests PROVE Sound(q)'
    BY OthersSound DEF Inv, Row
  <2>2. TypeOK'  BY DEF Inv, TypeOK
  <2> QED  BY <2>1, <2>2 DEF Inv
<1>2. CASE Next
  BY <1>2, ArriveInv, InspectInv, WeighInv, ServeInv, ExpireInv, ApplySafeConfigInv, ApplyConfigInv,
     ReplaceInv DEF Next
<1> QED  BY <1>1, <1>2

\* The inductive invariant: every request, wherever it is in guard, has passed
\* the checks behind it under the settings that have held since it came.
THEOREM Invariance == Spec => []Inv
BY InitInv, NextInv, PTL DEF Spec

\* Every stage, answer, event, strike count and copy guard keeps has its type.
THEOREM TypeCorrect == Spec => []TypeOK
<1>1. Inv => TypeOK  BY DEF Inv
<1> QED  BY <1>1, Invariance, PTL

\* With the challenge on since the request came, in always mode or for an
\* upgrade, only a clearance cookie, the allowlist or git leads to an upstream.
THEOREM ClearanceIsEnforced == Spec => []ClearanceEnforced
<1>1. Inv => ClearanceEnforced
  BY DEF Inv, Sound, Cleared, On, PastChallenge, ClearanceEnforced, Served
<1> QED  BY <1>1, Invariance, PTL

\* checkAccess is passed on all ways through guard: a request whose route has
\* had a policy since it came satisfies the policy when it is served.
THEOREM AccessIsEnforced == Spec => []AccessEnforced
<1>1. Inv => AccessEnforced
  BY DEF Inv, Sound, Admitted, On, PastAccess, AccessEnforced, Served
<1> QED  BY <1>1, Invariance, PTL

\* Lists, traps and signatures stop what they match, for every client and
\* transport, however the settings change while the request is under way.
THEOREM HostileIsNotServed == Spec => []HostileNotServed
<1>1. Inv => HostileNotServed
  BY DEF Inv, Sound, Screened, On, PastLists, PastTrap, PastSignatures, HostileNotServed, Served
<1> QED  BY <1>1, Invariance, PTL

\* What guard denies has its event on record, and what it served has no denial.
THEOREM DenialsAreRecorded == Spec => []DenialsRecorded
<1>1. Inv => DenialsRecorded
  BY DEF Inv, Sound, Recorded, Denial, Refusal, DenialsRecorded
<1> QED  BY <1>1, Invariance, PTL
============================================================================
