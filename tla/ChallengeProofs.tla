-------------------------- MODULE ChallengeProofs --------------------------
(***************************************************************************)
(* Proofs about Challenge, for any clients, nonces and number of handlers, *)
(* any token lifetime and any run of the clock; and about Trackers, for    *)
(* any clients, requests, limits, windows and lateness of the clocks.      *)
(***************************************************************************)
EXTENDS Challenge, Trackers, FiniteSetTheorems, TLAPS

----------------------------------------------------------------------------
(* The inductive invariant *)

\* The map of used nonces holds issued ones with the expiry of their token, a
\* sweep's cutoff is a clock of the past.
Ledger ==
    /\ \A n \in DOMAIN used : n \in DOMAIN tokens /\ used[n] = tokens[n].expires
    /\ sweep.cutoff <= now

\* Only issued nonces were ever consumed.
Issued == \A n \in Nonces : redeemed[n] > 0 => n \in DOMAIN tokens

\* A handler on its way to the lock has found its token unexpired, at most
\* MaxLag ago.
Timely(g) ==
    req[g].stage = "consume" =>
      /\ req[g].nonce \in DOMAIN tokens /\ req[g].at <= tokens[req[g].nonce].expires
      /\ req[g].at <= now /\ now <= req[g].at + MaxLag

\* At most one handler holds a consumed nonce, and it has bought nothing yet.
Once ==
    MaxLag = 0 =>
      /\ \A n \in Nonces : cleared[n] <= redeemed[n] /\ redeemed[n] <= 1
      /\ \A g \in Goroutines : req[g].stage = "judge" =>
           redeemed[req[g].nonce] = 1 /\ cleared[req[g].nonce] = 0
      /\ \A g, h \in Goroutines :
           req[g].stage = "judge" /\ req[h].stage = "judge" /\ req[g].nonce = req[h].nonce => g = h

\* A failure of client c that is to be remembered now.
Remembered(c) == failed[c] > 0 /\ now <= failed[c]

\* The cache has it for as long as that, and every handler that has read the
\* cache since will write it back or issue an interactive challenge.
Kept(c) ==
    Remembered(c) =>
      /\ c \in DOMAIN risks /\ failed[c] <= risks[c].exp
      /\ risks[c].level = RiskHigh /\ risks[c].gate = GateInteractive

Passed(g) ==
    /\ req[g].stage = "page" /\ Remembered(req[g].client) =>
         req[g].risk = RiskHigh /\ req[g].gate = GateInteractive
    /\ req[g].stage = "issue" /\ Remembered(req[g].client) => req[g].gate = GateInteractive

Recent == \A c \in Clients : failed[c] <= now + TokenTTL

NonceInv ==
    /\ Ledger /\ Issued /\ UsedUntilExpiry /\ (\A g \in Goroutines : Timely(g)) /\ Once

MemoryInv ==
    /\ (\A c \in Clients : Kept(c)) /\ (\A g \in Goroutines : Passed(g)) /\ Recent

Inv == TypeOK /\ NonceInv /\ MemoryInv

----------------------------------------------------------------------------
(* What a step of one goroutine leaves alone *)

\* The fields a handler has at each of its stages.
LEMMA HandlerFields ==
    ASSUME NEW t \in Handlers
    PROVE  /\ t.stage \in {"idle", "page", "issue", "consume", "judge"}
           /\ t.stage = "page" => t \in [stage : {"page"}, client : Clients, risk : Risks, gate : Gates]
           /\ t.stage = "issue" => t \in [stage : {"issue"}, client : Clients, gate : Gates]
           /\ t.stage \in {"consume", "judge"} =>
                t \in [stage : {"consume", "judge"}, client : Clients, nonce : Nonces, at : Nat]
BY DEF Handlers, Idle

\* Only goroutine g moves.
Alone(g) == \A h \in Goroutines \ {g} : req'[h] = req[h]

\* A goroutine that takes a step leaves the others alone.
LEMMA OneMoves ==
    ASSUME TypeOK, NEW g \in Goroutines, NEW t, req' = [req EXCEPT ![g] = t]
    PROVE  Alone(g) /\ req'[g] = t /\ (t \in Handlers => req' \in [Goroutines -> Handlers])
BY DEF TypeOK, Alone

\* An idle goroutine.
LEMMA IdleHandler == Idle \in Handlers /\ Idle.stage = "idle"
BY DEF Handlers, Idle

\* Steps that touch no nonce.
LEMMA NonceSame ==
    ASSUME NonceInv, UNCHANGED <<now, tokens, used, redeemed, cleared>>, sweep'.cutoff = sweep.cutoff,
           NEW g \in Goroutines, Alone(g), req'[g].stage \notin {"consume", "judge"}
    PROVE  NonceInv'
<1>1. Ledger' /\ Issued' /\ UsedUntilExpiry'
  BY DEF NonceInv, Ledger, Issued, UsedUntilExpiry
<1>2. \A h \in Goroutines : Timely(h)'
  BY DEF NonceInv, Timely, Alone
<1>3. Once'
  BY DEF NonceInv, Once, Alone
<1> QED  BY <1>1, <1>2, <1>3 DEF NonceInv

\* Steps that neither touch the cache nor hand on what was read of it.
LEMMA MemorySame ==
    ASSUME MemoryInv, UNCHANGED <<now, risks, failed>>,
           NEW g \in Goroutines, Alone(g), req'[g].stage \notin {"page", "issue"}
    PROVE  MemoryInv'
<1>1. \A c \in Clients : Kept(c)'  BY DEF MemoryInv, Kept, Remembered
<1>2. \A h \in Goroutines : Passed(h)'  BY DEF MemoryInv, Passed, Remembered, Alone
<1>3. Recent'  BY DEF MemoryInv, Recent
<1> QED  BY <1>1, <1>2, <1>3 DEF MemoryInv

\* Both, when no goroutine moves at all.
LEMMA StillNonce ==
    ASSUME NonceInv, UNCHANGED <<now, tokens, used, redeemed, cleared, req>>, sweep'.cutoff = sweep.cutoff
    PROVE  NonceInv'
BY DEF NonceInv, Ledger, Issued, UsedUntilExpiry, Timely, Once

\* The memory of failures, when no goroutine moves and the cache stays.
LEMMA StillMemory ==
    ASSUME MemoryInv, UNCHANGED <<now, risks, failed, req>>
    PROVE  MemoryInv'
BY DEF MemoryInv, Kept, Passed, Remembered, Recent

\* At the start nothing has been issued, used or failed.
LEMMA InitInv == Init => Inv
<1> SUFFICES ASSUME Init PROVE Inv  OBVIOUS
<1>1. \A g \in Goroutines : req[g].stage = "idle"  BY IdleHandler DEF Init
<1>2. TypeOK
  BY IdleHandler DEF Init, TypeOK
<1>3. NonceInv
  BY <1>1 DEF Init, NonceInv, Ledger, Issued, UsedUntilExpiry, Timely, Once
<1>4. MemoryInv
  BY <1>1, ChallengeConstants DEF Init, MemoryInv, Kept, Passed, Remembered, Recent
<1> QED  BY <1>2, <1>3, <1>4 DEF Inv

----------------------------------------------------------------------------
(* The cache *)

\* What is read of the cache while a failure is to be remembered.
LEMMA TakeRemembered ==
    ASSUME TypeOK, NEW c \in Clients, Kept(c), Remembered(c)
    PROVE  TakeChallenge(c) = [level |-> RiskHigh, gate |-> GateInteractive]
<1>1. c \in DOMAIN risks /\ risks[c].exp >= now
  BY DEF Kept, Remembered, TypeOK
<1> QED  BY <1>1 DEF TakeChallenge, Kept

\* A missing entry reads as the lowest risk.
LEMMA TakeTyped ==
    ASSUME TypeOK, NEW c \in Clients
    PROVE  TakeChallenge(c).level \in Risks
BY DEF TypeOK, TakeChallenge, Risks, RiskLow

\* An interactive gate stays interactive, a high risk high, whatever the mode.
LEMMA Escalates ==
    ASSUME NEW mode, NEW risk \in Risks, NEW floor \in Risks, NEW prev, NEW captcha
    PROVE  /\ ResolveGate(mode, risk, prev, captcha) \in Gates
           /\ prev = GateInteractive => ResolveGate(mode, risk, prev, captcha) = GateInteractive
           /\ FloorRiskForMode(mode, risk) \in Risks
           /\ Higher(risk, floor) \in Risks
           /\ risk = RiskHigh => Higher(risk, floor) = RiskHigh
BY DEF ResolveGate, SelectGate, Gates, GateInteractive, GateInvisible, FloorRiskForMode, Higher, Risks,
       RiskLow, RiskElevated, RiskHigh

\* riskCache.put
LEMMA RememberTyped ==
    ASSUME TypeOK, NEW c \in Clients, NEW risk \in Risks, NEW gate \in Gates, RememberChallenge(c, risk, gate)
    PROVE  /\ DOMAIN risks' = DOMAIN risks \cup {c}
           /\ DOMAIN risks' \subseteq Clients
           /\ risks' \in [DOMAIN risks' -> [level : Risks, gate : Gates, exp : Nat]]
           /\ risks'[c] = [level |-> risk, gate |-> gate, exp |-> now + TokenTTL]
           /\ \A d \in DOMAIN risks \ {c} : risks'[d] = risks[d]
<1> DEFINE e == [level |-> risk, gate |-> gate, exp |-> now + TokenTTL]
<1>1. e \in [level : Risks, gate : Gates, exp : Nat]  BY ChallengeConstants DEF TypeOK
<1>2. risks' = [d \in DOMAIN risks \cup {c} |-> IF d = c THEN e ELSE risks[d]]
  BY DEF RememberChallenge, Put
<1> HIDE DEF e
<1>3. DOMAIN risks' = DOMAIN risks \cup {c} /\ risks'[c] = e
      /\ \A d \in DOMAIN risks \ {c} : risks'[d] = risks[d]
  BY <1>2
<1>4. \A d \in DOMAIN risks' : risks'[d] \in [level : Risks, gate : Gates, exp : Nat]
  BY <1>1, <1>3 DEF TypeOK
<1>5. risks' \in [DOMAIN risks' -> [level : Risks, gate : Gates, exp : Nat]]
  BY <1>2, <1>4
<1> QED  BY <1>3, <1>5 DEF TypeOK, e
----------------------------------------------------------------------------
(* Reading the cache and writing it back *)

\* A handler that has read the cache for client c.
LEMMA ReaderInv ==
    ASSUME Inv, NEW g \in Goroutines, NEW c \in Clients, NEW t \in Handlers, req' = [req EXCEPT ![g] = t],
           UNCHANGED <<now, cfg, tokens, used, risks, sweep, history>>,
           t.stage \in {"page", "issue"}, t.client = c,
           Remembered(c) => t.gate = GateInteractive,
           Remembered(c) /\ t.stage = "page" => t.risk = RiskHigh
    PROVE  Inv'
<1>1. TypeOK /\ UNCHANGED <<strikes, redeemed, cleared, failed>>  BY DEF Inv, history
<1>2. Alone(g) /\ req'[g] = t /\ req' \in [Goroutines -> Handlers]  BY <1>1, OneMoves
<1>3. TypeOK'  BY <1>1, <1>2 DEF TypeOK
<1>4. NonceInv'  BY <1>1, <1>2, NonceSame DEF Inv
<1>5. MemoryInv'
  <2>1. \A d \in Clients : Kept(d)'  BY <1>1 DEF Inv, MemoryInv, Kept, Remembered
  <2>2. \A h \in Goroutines : Passed(h)'
    BY <1>1, <1>2 DEF Inv, MemoryInv, Passed, Remembered, Alone
  <2>3. Recent'  BY <1>1 DEF Inv, MemoryInv, Recent
  <2> QED  BY <2>1, <2>2, <2>3 DEF MemoryInv
<1> QED  BY <1>3, <1>4, <1>5 DEF Inv

\* The challenge page reads the cache: a failure raises risk and gate.
LEMMA ServeChallengeInv ==
    ASSUME Inv, NEW g \in Goroutines, NEW c \in Clients, NEW risk \in Risks, ServeChallenge(g, c, risk)
    PROVE  Inv'
<1> DEFINE prev == TakeChallenge(c)
           floor == FloorRiskForMode(cfg.mode, risk)
           level == Higher(prev.level, floor)
           gate == ResolveGate(cfg.mode, level, prev.gate, cfg.captcha)
           t == [stage |-> "page", client |-> c, risk |-> level, gate |-> gate]
<1>1. TypeOK /\ Kept(c)  BY DEF Inv, MemoryInv
<1>2. req' = [req EXCEPT ![g] = t] /\ UNCHANGED <<now, cfg, tokens, used, risks, sweep, history>>
  BY DEF ServeChallenge
<1>3. Remembered(c) => prev.level = RiskHigh /\ prev.gate = GateInteractive
  <2>1. Remembered(c) => prev = [level |-> RiskHigh, gate |-> GateInteractive]
    BY <1>1, TakeRemembered
  <2> HIDE DEF prev
  <2> QED  BY <2>1
<1>4. prev.level \in Risks  BY <1>1, TakeTyped
<1> HIDE DEF prev
<1>5. floor \in Risks  BY Escalates
<1> HIDE DEF floor
<1>6. level \in Risks /\ (Remembered(c) => level = RiskHigh)  BY <1>3, <1>4, <1>5, Escalates
<1> HIDE DEF level
<1>7. gate \in Gates /\ (Remembered(c) => gate = GateInteractive)  BY <1>3, <1>6, Escalates
<1> HIDE DEF gate
<1>8. t \in Handlers /\ t.stage = "page" /\ t.client = c /\ t.risk = level /\ t.gate = gate
  BY <1>6, <1>7 DEF Handlers
<1> HIDE DEF t
<1> QED  BY <1>2, <1>6, <1>7, <1>8, ReaderInv

\* The request for a challenge reads the cache: a failure raises the gate.
LEMMA ChallengeV1GETInv ==
    ASSUME Inv, NEW g \in Goroutines, NEW c \in Clients, ChallengeV1GET(g, c)
    PROVE  Inv'
<1> DEFINE prev == TakeChallenge(c)
           level == FloorRiskForMode(cfg.mode, prev.level)
           gate == ResolveGate(cfg.mode, level, prev.gate, cfg.captcha)
           t == [stage |-> "issue", client |-> c, gate |-> gate]
<1>1. TypeOK /\ Kept(c)  BY DEF Inv, MemoryInv
<1>2. req' = [req EXCEPT ![g] = t] /\ UNCHANGED <<now, cfg, tokens, used, risks, sweep, history>>
  BY DEF ChallengeV1GET
<1>3. Remembered(c) => prev.gate = GateInteractive
  <2>1. Remembered(c) => prev = [level |-> RiskHigh, gate |-> GateInteractive]
    BY <1>1, TakeRemembered
  <2> HIDE DEF prev
  <2> QED  BY <2>1
<1>4. prev.level \in Risks  BY <1>1, TakeTyped
<1> HIDE DEF prev
<1>5. level \in Risks  BY <1>4, Escalates
<1> HIDE DEF level
<1>6. gate \in Gates /\ (Remembered(c) => gate = GateInteractive)  BY <1>3, <1>5, Escalates
<1> HIDE DEF gate
<1>7. t \in Handlers /\ t.stage = "issue" /\ t.client = c /\ t.gate = gate
  BY <1>6 DEF Handlers
<1> HIDE DEF t
<1> QED  BY <1>2, <1>6, <1>7, ReaderInv

\* Every goroutine stays where it was or moves to a stage other than those in S.
Avoids(S) == \A h \in Goroutines : req'[h] = req[h] \/ req'[h].stage \notin S

\* The cache of client c is written, and no failure of c is forgotten by it: it is
\* the failure itself that is written, or what a handler has read of it.
LEMMA PutMemory ==
    ASSUME TypeOK, MemoryInv, NEW c \in Clients, NEW risk \in Risks, NEW gate \in Gates,
           RememberChallenge(c, risk, gate), now' = now, Avoids({"page", "issue"}),
           failed' \in [Clients -> Nat],
           \A d \in Clients \ {c} : failed'[d] = failed[d],
           failed'[c] <= now + TokenTTL,
           Remembered(c)' => /\ risk = RiskHigh /\ gate = GateInteractive
                             /\ Remembered(c) \/ \A h \in Goroutines : req[h].stage \in {"page", "issue"} =>
                                                     req[h].client # c
    PROVE  MemoryInv'
<1>1. /\ DOMAIN risks' = DOMAIN risks \cup {c}
      /\ risks'[c].level = risk /\ risks'[c].gate = gate /\ risks'[c].exp = now + TokenTTL
      /\ \A d \in DOMAIN risks \ {c} : risks'[d] = risks[d]
  <2> DEFINE e == risks'[c]
  <2>1. e = [level |-> risk, gate |-> gate, exp |-> now + TokenTTL]  BY RememberTyped
  <2>2. DOMAIN risks' = DOMAIN risks \cup {c} /\ \A d \in DOMAIN risks \ {c} : risks'[d] = risks[d]
    BY RememberTyped
  <2>3. e.level = risk /\ e.gate = gate /\ e.exp = now + TokenTTL
    <3> HIDE DEF e
    <3> QED  BY <2>1
  <2> QED  BY <2>2, <2>3
<1>2. ASSUME NEW d \in Clients PROVE Kept(d)'
  <2>1. CASE d = c
    BY <1>1, <2>1 DEF Kept
  <2>2. CASE d # c
    BY <1>1, <2>2 DEF MemoryInv, Kept, Remembered
  <2> QED  BY <2>1, <2>2
<1>3. ASSUME NEW h \in Goroutines PROVE Passed(h)'
  <2>1. CASE req'[h].stage \notin {"page", "issue"}  BY <2>1 DEF Passed
  <2>2. CASE req'[h] = req[h] /\ req[h].stage \in {"page", "issue"}
    <3>1. Passed(h) /\ req[h].client \in Clients
      BY <2>2, HandlerFields DEF MemoryInv, TypeOK
    <3>2. Remembered(req[h].client)' => Remembered(req[h].client)
      BY <2>2, <3>1 DEF Remembered
    <3> QED  BY <2>2, <3>1, <3>2 DEF Passed, Remembered
  <2> QED  BY <2>1, <2>2 DEF Avoids
<1>4. Recent'
  BY ChallengeConstants DEF MemoryInv, Recent, TypeOK
<1> QED  BY <1>2, <1>3, <1>4 DEF MemoryInv

\* The page writes back what it has read: the failure, if there was one.
LEMMA PageRememberInv ==
    ASSUME Inv, NEW g \in Goroutines, PageRemember(g)
    PROVE  Inv'
<1>0. PICK c : c = req[g].client  OBVIOUS
<1>1. /\ TypeOK /\ req[g].stage = "page" /\ RememberChallenge(c, req[g].risk, req[g].gate)
      /\ req' = [req EXCEPT ![g] = Idle]
      /\ UNCHANGED <<now, cfg, tokens, used, sweep, strikes, redeemed, cleared, failed>>
  BY <1>0 DEF Inv, PageRemember, history
<1>2. c \in Clients /\ req[g].risk \in Risks /\ req[g].gate \in Gates
  BY <1>0, <1>1, HandlerFields DEF TypeOK
<1>3. Alone(g) /\ req'[g].stage = "idle" /\ req' \in [Goroutines -> Handlers]  BY <1>1, OneMoves, IdleHandler
<1>4. TypeOK'  BY <1>1, <1>2, <1>3, RememberTyped DEF TypeOK
<1>5. NonceInv'  BY <1>1, <1>3, NonceSame DEF Inv
<1>6. MemoryInv'
  <2>1. Remembered(c)' => Remembered(c) /\ req[g].risk = RiskHigh /\ req[g].gate = GateInteractive
    BY <1>0, <1>1 DEF Inv, MemoryInv, Passed, Remembered
  <2>2. failed' \in [Clients -> Nat] /\ failed'[c] <= now + TokenTTL
    BY <1>1, <1>2 DEF Inv, MemoryInv, Recent, TypeOK
  <2>3. Avoids({"page", "issue"})  BY <1>3 DEF Avoids, Alone
  <2> QED  BY <1>1, <1>2, <1>3, <2>1, <2>2, <2>3, PutMemory DEF Inv
<1> QED  BY <1>4, <1>5, <1>6 DEF Inv
\* The soft pass writes the cache unread, and ends the memory of a failure.
LEMMA SoftPassInv ==
    ASSUME Inv, NEW c \in Clients, NEW score \in Risks, SoftPass(c, score)
    PROVE  Inv'
<1> DEFINE risk == FloorRiskForMode(cfg.mode, score)
           gate == ResolveGate(cfg.mode, risk, NoGate, cfg.captcha)
<1>1. /\ TypeOK /\ RememberChallenge(c, risk, gate) /\ failed' = [failed EXCEPT ![c] = 0]
      /\ UNCHANGED <<now, cfg, tokens, used, req, sweep, strikes, redeemed, cleared>>
  BY DEF Inv, SoftPass
<1>2. risk \in Risks  BY Escalates
<1> HIDE DEF risk
<1>3. gate \in Gates  BY <1>2, Escalates
<1> HIDE DEF gate
<1>4. failed' \in [Clients -> Nat] /\ failed'[c] = 0 /\ \A d \in Clients \ {c} : failed'[d] = failed[d]
  BY <1>1 DEF TypeOK
<1>5. TypeOK'  BY <1>1, <1>2, <1>3, <1>4, RememberTyped DEF TypeOK
<1>6. NonceInv'  BY <1>1, StillNonce DEF Inv
<1>7. MemoryInv'
  <2>1. ~Remembered(c)'  BY <1>4 DEF Remembered
  <2>2. failed'[c] <= now + TokenTTL  BY <1>1, <1>4, ChallengeConstants DEF TypeOK
  <2>3. Avoids({"page", "issue"})  BY <1>1 DEF Avoids
  <2> HIDE DEF risk, gate
  <2> QED  BY <1>1, <1>2, <1>3, <1>4, <2>1, <2>2, <2>3, PutMemory DEF Inv
<1> QED  BY <1>5, <1>6, <1>7 DEF Inv

\* A failed POST of client c.  The failure is to be remembered only where no
\* handler of c has read the cache before it.
LEMMA FailInv ==
    ASSUME Inv, NEW c \in Clients, NEW guardToo \in BOOLEAN, Fail(c, guardToo), NEW g \in Goroutines,
           req' \in [Goroutines -> Handlers], Alone(g), req'[g].stage = "idle",
           UNCHANGED <<now, cfg, tokens, used, sweep, redeemed, cleared>>
    PROVE  Inv'
<1> DEFINE mark == IF Reading(c) THEN 0 ELSE now + TokenTTL
           one == IF guardToo THEN 1 ELSE 0
           struck == [beh |-> strikes[c].beh + 1, prot |-> strikes[c].prot + one]
<1>1. /\ TypeOK /\ RememberChallenge(c, RiskHigh, GateInteractive) /\ failed' = [failed EXCEPT ![c] = mark]
      /\ strikes' = [strikes EXCEPT ![c] = struck]
  BY DEF Inv, Fail
<1>2. RiskHigh \in Risks /\ GateInteractive \in Gates
  BY DEF Risks, RiskLow, RiskElevated, RiskHigh, Gates, GateInteractive, GateInvisible
<1>3. mark \in Nat /\ mark <= now + TokenTTL /\ (mark > 0 => ~Reading(c))
  BY <1>1, ChallengeConstants DEF TypeOK
<1> HIDE DEF mark
<1>4. failed' \in [Clients -> Nat] /\ failed'[c] = mark /\ \A d \in Clients \ {c} : failed'[d] = failed[d]
  BY <1>1, <1>3 DEF TypeOK
<1>5. strikes' \in [Clients -> [beh : Nat, prot : Nat]]
  <2>1. one \in Nat  OBVIOUS
  <2> HIDE DEF one
  <2>2. struck \in [beh : Nat, prot : Nat]  BY <1>1, <2>1 DEF TypeOK
  <2> HIDE DEF struck
  <2> QED  BY <1>1, <2>2 DEF TypeOK
<1>6. TypeOK'
  <2>1. /\ DOMAIN risks' \subseteq Clients
        /\ risks' \in [DOMAIN risks' -> [level : Risks, gate : Gates, exp : Nat]]
    BY <1>1, <1>2, RememberTyped
  <2> QED  BY <1>1, <1>4, <1>5, <2>1 DEF TypeOK
<1>7. NonceInv'  BY NonceSame DEF Inv
<1>8. MemoryInv'
  <2>1. Remembered(c)' => \A h \in Goroutines : req[h].stage \in {"page", "issue"} => req[h].client # c
    BY <1>3, <1>4 DEF Remembered, Reading
  <2>2. Avoids({"page", "issue"})  BY DEF Avoids, Alone
  <2> QED  BY <1>1, <1>2, <1>3, <1>4, <2>1, <2>2, PutMemory DEF Inv
<1> QED  BY <1>6, <1>7, <1>8 DEF Inv

\* A forged, foreign, expired or unsolved payload.
LEMMA PostRejectedInv ==
    ASSUME Inv, NEW g \in Goroutines, NEW c \in Clients, PostRejected(g, c)
    PROVE  Inv'
<1>1. TypeOK /\ Fail(c, FALSE) /\ req' = req /\ UNCHANGED <<now, cfg, tokens, used, sweep, redeemed, cleared>>
  BY DEF Inv, PostRejected
<1>2. req'[g].stage = "idle"  BY <1>1, IdleHandler DEF PostRejected
<1>3. req' \in [Goroutines -> Handlers] /\ Alone(g)  BY <1>1 DEF TypeOK, Alone
<1> QED  BY <1>1, <1>2, <1>3, FailInv

\* The two refusals after the nonce is spent.
LEMMA RefusedInv ==
    ASSUME Inv, NEW g \in Goroutines, EnvRefused(g) \/ CaptchaRefused(g)
    PROVE  Inv'
<1>1. /\ TypeOK /\ req[g].stage = "judge" /\ req' = [req EXCEPT ![g] = Idle]
      /\ UNCHANGED <<now, cfg, tokens, used, sweep, redeemed, cleared>>
  BY DEF Inv, EnvRefused, CaptchaRefused
<1>2. PICK guardToo \in BOOLEAN : Fail(req[g].client, guardToo)
  BY DEF EnvRefused, CaptchaRefused
<1>3. Alone(g) /\ req'[g].stage = "idle" /\ req' \in [Goroutines -> Handlers]  BY <1>1, OneMoves, IdleHandler
<1>4. req[g].client \in Clients  BY <1>1, HandlerFields DEF TypeOK
<1> QED  BY <1>1, <1>2, <1>3, <1>4, FailInv
----------------------------------------------------------------------------
(* The nonces *)

\* A signed token has a nonce that was never issued, so never consumed.
LEMMA IssueChallengeInv ==
    ASSUME Inv, NEW g \in Goroutines, IssueChallenge(g)
    PROVE  Inv'
<1>1. /\ TypeOK /\ NonceInv /\ MemoryInv /\ req[g].stage = "issue" /\ req' = [req EXCEPT ![g] = Idle]
      /\ UNCHANGED <<now, cfg, used, risks, sweep, strikes, redeemed, cleared, failed>>
  BY DEF Inv, IssueChallenge, history
<1> DEFINE t == [bind |-> req[g].client, expires |-> now + TokenTTL, gate |-> req[g].gate]
           T == [bind : Clients, expires : Nat, gate : Gates]
<1>2. PICK n \in Nonces \ DOMAIN tokens : tokens' = Put(tokens, n, t)
  BY DEF IssueChallenge
<1>3. t \in T
  BY <1>1, HandlerFields, ChallengeConstants DEF TypeOK
<1> HIDE DEF t
<1>4. /\ DOMAIN tokens' = DOMAIN tokens \cup {n} /\ tokens'[n] = t
      /\ \A m \in DOMAIN tokens : tokens'[m] = tokens[m]
      /\ tokens' = [m \in DOMAIN tokens' |-> tokens'[m]]
  BY <1>2 DEF Put
<1>5. DOMAIN tokens' \subseteq Nonces /\ tokens' \in [DOMAIN tokens' -> T]
  <2>1. \A m \in DOMAIN tokens : tokens[m] \in T  BY <1>1 DEF TypeOK
  <2> HIDE DEF T
  <2>2. \A m \in DOMAIN tokens' : tokens'[m] \in T  BY <1>3, <1>4, <2>1
  <2> QED  BY <1>1, <1>2, <1>4, <2>2 DEF TypeOK
<1>6. Alone(g) /\ req'[g].stage = "idle" /\ req' \in [Goroutines -> Handlers]  BY <1>1, OneMoves, IdleHandler
<1>7. TypeOK'  BY <1>1, <1>5, <1>6 DEF TypeOK
<1>8. NonceInv'
  <2>1. ~(redeemed[n] > 0)  BY <1>1, <1>2 DEF NonceInv, Issued
  <2>2. Ledger' /\ Issued' /\ UsedUntilExpiry'
    BY <1>1, <1>4, <2>1 DEF NonceInv, Ledger, Issued, UsedUntilExpiry
  <2>3. \A h \in Goroutines : Timely(h)'
    BY <1>1, <1>4, <1>6 DEF NonceInv, Timely, Alone
  <2>4. Once'  BY <1>1, <1>6 DEF NonceInv, Once, Alone
  <2> QED  BY <2>2, <2>3, <2>4 DEF NonceInv
<1>9. MemoryInv'  BY <1>1, <1>6, MemorySame
<1> QED  BY <1>7, <1>8, <1>9 DEF Inv

\* A sound payload: the handler goes for the lock with an unexpired token.
LEMMA PostVerifiedInv ==
    ASSUME Inv, NEW g \in Goroutines, NEW c \in Clients, NEW n \in Nonces, PostVerified(g, c, n)
    PROVE  Inv'
<1> DEFINE t == [stage |-> "consume", client |-> c, nonce |-> n, at |-> now]
<1>1. /\ TypeOK /\ NonceInv /\ MemoryInv /\ req' = [req EXCEPT ![g] = t]
      /\ n \in DOMAIN tokens /\ now <= tokens[n].expires
      /\ UNCHANGED <<now, cfg, tokens, used, risks, sweep, strikes, redeemed, cleared, failed>>
  BY DEF Inv, PostVerified, history
<1>2. t \in Handlers /\ t.stage = "consume" /\ t.nonce = n /\ t.at = now  BY <1>1 DEF Handlers, TypeOK
<1> HIDE DEF t
<1>3. Alone(g) /\ req'[g] = t /\ req' \in [Goroutines -> Handlers]  BY <1>1, <1>2, OneMoves
<1>4. TypeOK'  BY <1>1, <1>3 DEF TypeOK
<1>5. NonceInv'
  <2>1. Ledger' /\ Issued' /\ UsedUntilExpiry'
    BY <1>1 DEF NonceInv, Ledger, Issued, UsedUntilExpiry
  <2>2. \A h \in Goroutines : Timely(h)'
    BY <1>1, <1>2, <1>3, ChallengeConstants DEF NonceInv, Timely, Alone, TypeOK
  <2>3. Once'  BY <1>1, <1>2, <1>3 DEF NonceInv, Once, Alone
  <2> QED  BY <2>1, <2>2, <2>3 DEF NonceInv
<1>6. MemoryInv'  BY <1>1, <1>2, <1>3, MemorySame
<1> QED  BY <1>4, <1>5, <1>6 DEF Inv

\* The nonce is free: with no lag its token is unexpired, so it was never
\* consumed before, and no other handler holds it.
LEMMA ConsumeFree ==
    ASSUME Inv, NEW g \in Goroutines, Consume(g), req[g].nonce \notin DOMAIN used
    PROVE  Inv'
<1>0. PICK n : n = req[g].nonce  OBVIOUS
<1> DEFINE t == [req[g] EXCEPT !.stage = "judge"]
<1>1. /\ TypeOK /\ NonceInv /\ MemoryInv /\ req[g].stage = "consume" /\ req' = [req EXCEPT ![g] = t]
      /\ n \notin DOMAIN used /\ used' = Put(used, n, tokens[n].expires)
      /\ redeemed' = [redeemed EXCEPT ![n] = redeemed[n] + 1]
      /\ UNCHANGED <<now, cfg, tokens, risks, sweep, strikes, cleared, failed>>
  BY <1>0 DEF Inv, Consume
<1>2. req[g] \in [stage : {"consume", "judge"}, client : Clients, nonce : Nonces, at : Nat]
  BY <1>1, HandlerFields DEF TypeOK
<1>3. t \in Handlers /\ t.stage = "judge" /\ t.nonce = n  BY <1>0, <1>2 DEF Handlers
<1> HIDE DEF t
<1>4. Alone(g) /\ req'[g] = t /\ req' \in [Goroutines -> Handlers]  BY <1>1, <1>3, OneMoves
<1>5. n \in Nonces /\ n \in DOMAIN tokens /\ tokens[n].expires \in Nat
  <2>1. n \in Nonces  BY <1>0, <1>2
  <2>2. n \in DOMAIN tokens  BY <1>0, <1>1 DEF NonceInv, Timely
  <2> QED  BY <1>1, <2>1, <2>2 DEF TypeOK
<1>6. /\ DOMAIN used' = DOMAIN used \cup {n} /\ used'[n] = tokens[n].expires
      /\ \A m \in DOMAIN used : used'[m] = used[m]
      /\ used' \in [DOMAIN used' -> Nat]
  BY <1>1, <1>5 DEF Put, TypeOK
<1>7. /\ redeemed' \in [Nonces -> Nat] /\ redeemed'[n] = redeemed[n] + 1
      /\ \A m \in Nonces \ {n} : redeemed'[m] = redeemed[m]
  BY <1>1, <1>5 DEF TypeOK
<1>8. TypeOK'  BY <1>1, <1>4, <1>5, <1>6, <1>7 DEF TypeOK
<1>9. NonceInv'
  <2>1. Ledger'  BY <1>1, <1>5, <1>6 DEF NonceInv, Ledger
  <2>2. Issued'  BY <1>1, <1>5, <1>7 DEF NonceInv, Issued
  <2>3. UsedUntilExpiry'
    BY <1>1, <1>6, <1>7 DEF NonceInv, UsedUntilExpiry, TypeOK
  <2>4. \A h \in Goroutines : Timely(h)'
    BY <1>1, <1>3, <1>4 DEF NonceInv, Timely, Alone
  <2>5. Once'
    <3>1. MaxLag = 0 => redeemed[n] = 0
      <4>1. MaxLag = 0 => now <= tokens[n].expires
        BY <1>0, <1>1, <1>2, <1>5 DEF NonceInv, Timely, TypeOK
      <4>2. MaxLag = 0 => ~(redeemed[n] > 0)  BY <1>1, <1>5, <4>1 DEF NonceInv, UsedUntilExpiry
      <4> QED  BY <1>1, <1>5, <4>2 DEF TypeOK
    <3>2. MaxLag = 0 => \A h \in Goroutines \ {g} : req[h].stage = "judge" => req[h].nonce # n /\ req[h].nonce \in Nonces
      BY <1>1, <3>1, HandlerFields DEF NonceInv, Once, TypeOK
    <3>3. MaxLag = 0 => cleared[n] = 0
      BY <1>1, <1>5, <3>1 DEF NonceInv, Once, TypeOK
    <3>4. MaxLag = 0 => \A m \in Nonces : cleared'[m] <= redeemed'[m] /\ redeemed'[m] <= 1
      BY <1>1, <1>5, <1>7, <3>1, <3>3 DEF NonceInv, Once
    <3>5. MaxLag = 0 => \A h \in Goroutines : req'[h].stage = "judge" =>
                           redeemed'[req'[h].nonce] = 1 /\ cleared'[req'[h].nonce] = 0
      BY <1>1, <1>3, <1>4, <1>7, <3>1, <3>2, <3>3 DEF NonceInv, Once, Alone
    <3>6. MaxLag = 0 => \A h, k \in Goroutines :
            req'[h].stage = "judge" /\ req'[k].stage = "judge" /\ req'[h].nonce = req'[k].nonce => h = k
      BY <1>1, <1>3, <1>4, <3>2 DEF NonceInv, Once, Alone
    <3> QED  BY <3>4, <3>5, <3>6 DEF Once
  <2> QED  BY <2>1, <2>2, <2>3, <2>4, <2>5 DEF NonceInv
<1>10. MemoryInv'  BY <1>1, <1>3, <1>4, MemorySame
<1> QED  BY <1>8, <1>9, <1>10 DEF Inv

\* The nonce is free, or the attempt fails.
LEMMA ConsumeInv ==
    ASSUME Inv, NEW g \in Goroutines, Consume(g)
    PROVE  Inv'
<1>1. CASE req[g].nonce \notin DOMAIN used  BY <1>1, ConsumeFree
<1>2. CASE req[g].nonce \in DOMAIN used
  <2>1. /\ TypeOK /\ req[g].stage = "consume" /\ req' = [req EXCEPT ![g] = Idle] /\ Fail(req[g].client, FALSE)
        /\ UNCHANGED <<now, cfg, tokens, used, sweep, redeemed, cleared>>
    BY <1>2 DEF Inv, Consume
  <2>2. Alone(g) /\ req'[g].stage = "idle" /\ req' \in [Goroutines -> Handlers]  BY <2>1, OneMoves, IdleHandler
  <2>3. req[g].client \in Clients  BY <2>1, HandlerFields DEF TypeOK
  <2> QED  BY <2>1, <2>2, <2>3, FailInv
<1> QED  BY <1>1, <1>2

\* The handler gives up; the nonce stays used.
LEMMA CaptchaMissingInv ==
    ASSUME Inv, NEW g \in Goroutines, CaptchaMissing(g)
    PROVE  Inv'
<1>1. /\ TypeOK /\ NonceInv /\ MemoryInv /\ req' = [req EXCEPT ![g] = Idle]
      /\ UNCHANGED <<now, cfg, tokens, used, risks, sweep, strikes, redeemed, cleared, failed>>
  BY DEF Inv, CaptchaMissing, history
<1>2. Alone(g) /\ req'[g].stage = "idle" /\ req' \in [Goroutines -> Handlers]  BY <1>1, OneMoves, IdleHandler
<1>3. TypeOK'  BY <1>1, <1>2 DEF TypeOK
<1> QED  BY <1>1, <1>2, <1>3, NonceSame, MemorySame DEF Inv

\* The clearance: the one handler that holds the nonce spends it.
LEMMA ClearInv ==
    ASSUME Inv, NEW g \in Goroutines, Clear(g)
    PROVE  Inv'
<1>0. PICK n : n = req[g].nonce  OBVIOUS
<1>1. /\ TypeOK /\ NonceInv /\ MemoryInv /\ req[g].stage = "judge" /\ req' = [req EXCEPT ![g] = Idle]
      /\ cleared' = [cleared EXCEPT ![n] = cleared[n] + 1]
      /\ UNCHANGED <<now, cfg, tokens, used, risks, sweep, strikes, redeemed, failed>>
  BY <1>0 DEF Inv, Clear
<1>2. Alone(g) /\ req'[g].stage = "idle" /\ req' \in [Goroutines -> Handlers]  BY <1>1, OneMoves, IdleHandler
<1>3. n \in Nonces  BY <1>0, <1>1, HandlerFields DEF TypeOK
<1>4. /\ cleared' \in [Nonces -> Nat] /\ cleared'[n] = cleared[n] + 1
      /\ \A m \in Nonces \ {n} : cleared'[m] = cleared[m]
  BY <1>1, <1>3 DEF TypeOK
<1>5. TypeOK'  BY <1>1, <1>2, <1>4 DEF TypeOK
<1>6. NonceInv'
  <2>1. Ledger' /\ Issued' /\ UsedUntilExpiry'
    BY <1>1 DEF NonceInv, Ledger, Issued, UsedUntilExpiry
  <2>2. \A h \in Goroutines : Timely(h)'
    BY <1>1, <1>2 DEF NonceInv, Timely, Alone
  <2>3. Once'
    <3>1. MaxLag = 0 => redeemed[n] = 1 /\ cleared[n] = 0  BY <1>0, <1>1 DEF NonceInv, Once
    <3>2. MaxLag = 0 => \A h \in Goroutines \ {g} : req[h].stage = "judge" => req[h].nonce \in Nonces \ {n}
      BY <1>0, <1>1, HandlerFields DEF NonceInv, Once, TypeOK
    <3>3. MaxLag = 0 => \A m \in Nonces : cleared'[m] <= redeemed'[m] /\ redeemed'[m] <= 1
      BY <1>1, <1>3, <1>4, <3>1 DEF NonceInv, Once
    <3>4. MaxLag = 0 => \A h \in Goroutines : req'[h].stage = "judge" =>
                           redeemed'[req'[h].nonce] = 1 /\ cleared'[req'[h].nonce] = 0
      BY <1>1, <1>2, <1>4, <3>2 DEF NonceInv, Once, Alone
    <3>5. MaxLag = 0 => \A h, k \in Goroutines :
            req'[h].stage = "judge" /\ req'[k].stage = "judge" /\ req'[h].nonce = req'[k].nonce => h = k
      BY <1>1, <1>2 DEF NonceInv, Once, Alone
    <3> QED  BY <3>3, <3>4, <3>5 DEF Once
  <2> QED  BY <2>1, <2>2, <2>3 DEF NonceInv
<1>7. MemoryInv'  BY <1>1, <1>2, MemorySame
<1> QED  BY <1>5, <1>6, <1>7 DEF Inv
----------------------------------------------------------------------------
(* The sweeper, the configuration and the clock *)

\* A sweep begins with a cutoff that is the present.
LEMMA SweepStartInv ==
    ASSUME Inv, SweepStart
    PROVE  Inv'
<1> DEFINE s == [cutoff |-> now, todo |-> Nonces, risks |-> TRUE]
<1>1. /\ TypeOK /\ NonceInv /\ MemoryInv /\ sweep' = s
      /\ UNCHANGED <<now, cfg, tokens, used, risks, req, strikes, redeemed, cleared, failed>>
  BY DEF Inv, SweepStart, history
<1>2. s \in [cutoff : Nat, todo : SUBSET Nonces, risks : BOOLEAN] /\ s.cutoff = now
  BY <1>1 DEF TypeOK
<1> HIDE DEF s
<1>3. TypeOK'  BY <1>1, <1>2 DEF TypeOK
<1>4. NonceInv'
  BY <1>1, <1>2 DEF NonceInv, Ledger, Issued, UsedUntilExpiry, Timely, Once, TypeOK
<1> QED  BY <1>1, <1>3, <1>4, StillMemory DEF Inv

\* The sweep of a shard drops a nonce only when its token has expired, for the
\* cutoff is no later than the clock.
LEMMA SweepNonceInv ==
    ASSUME Inv, NEW n \in Nonces, SweepNonce(n)
    PROVE  Inv'
<1> DEFINE gone == {y \in {n} \cap DOMAIN used : used[y] < sweep.cutoff}
<1>1. /\ TypeOK /\ NonceInv /\ MemoryInv /\ sweep' = [sweep EXCEPT !.todo = sweep.todo \ {n}]
      /\ used' = [x \in DOMAIN used \ gone |-> used[x]]
      /\ UNCHANGED <<now, cfg, tokens, risks, req, strikes, redeemed, cleared, failed>>
  BY DEF Inv, SweepNonce, Expired, history
<1>2. /\ sweep' \in [cutoff : Nat, todo : SUBSET Nonces, risks : BOOLEAN]
      /\ sweep'.cutoff = sweep.cutoff /\ sweep.cutoff \in Nat
  BY <1>1 DEF TypeOK
<1>3. \A m \in gone : tokens[m].expires < now
  <2>1. \A m \in gone : m \in DOMAIN tokens /\ used[m] = tokens[m].expires /\ used[m] < sweep.cutoff
    BY <1>1 DEF NonceInv, Ledger
  <2>2. sweep.cutoff <= now  BY <1>1 DEF NonceInv, Ledger
  <2>3. \A m \in gone : used[m] \in Nat  BY <1>1 DEF TypeOK
  <2> HIDE DEF gone
  <2> QED  BY <1>1, <1>2, <2>1, <2>2, <2>3 DEF TypeOK
<1> HIDE DEF gone
<1>4. DOMAIN used' = DOMAIN used \ gone /\ \A m \in DOMAIN used' : used'[m] = used[m]
  BY <1>1
<1>5. used' \in [DOMAIN used' -> Nat] /\ DOMAIN used' \subseteq Nonces  BY <1>1, <1>4 DEF TypeOK
<1>6. TypeOK'  BY <1>1, <1>2, <1>5 DEF TypeOK
<1>7. NonceInv'
  <2>1. Ledger'  BY <1>1, <1>2, <1>4 DEF NonceInv, Ledger
  <2>2. UsedUntilExpiry'
    <3>1. \A m \in DOMAIN tokens : tokens[m].expires \in Nat  BY <1>1 DEF TypeOK
    <3> QED  BY <1>1, <1>3, <1>4, <3>1 DEF NonceInv, UsedUntilExpiry, TypeOK
  <2>3. Issued' /\ Once' /\ \A h \in Goroutines : Timely(h)'
    BY <1>1 DEF NonceInv, Issued, Once, Timely
  <2> QED  BY <2>1, <2>2, <2>3 DEF NonceInv
<1> QED  BY <1>1, <1>6, <1>7, StillMemory DEF Inv

\* ... and so for the cache: an entry that is to be remembered now outlives the
\* cutoff.
LEMMA SweepRisksInv ==
    ASSUME Inv, SweepRisks
    PROVE  Inv'
<1> DEFINE kept == {x \in DOMAIN risks : ~(risks[x].exp < sweep.cutoff)}
<1>1. /\ TypeOK /\ NonceInv /\ MemoryInv /\ sweep' = [sweep EXCEPT !.risks = FALSE]
      /\ risks' = [c \in kept |-> risks[c]]
      /\ UNCHANGED <<now, cfg, tokens, used, req, strikes, redeemed, cleared, failed>>
  BY DEF Inv, SweepRisks, Expired, history
<1>2. /\ sweep' \in [cutoff : Nat, todo : SUBSET Nonces, risks : BOOLEAN]
      /\ sweep'.cutoff = sweep.cutoff /\ sweep.cutoff \in Nat
  BY <1>1 DEF TypeOK
<1>3. \A c \in Clients : Remembered(c) => c \in kept
  <2>1. \A c \in Clients : Remembered(c) => c \in DOMAIN risks /\ failed[c] <= risks[c].exp /\ now <= failed[c]
    BY <1>1 DEF MemoryInv, Kept, Remembered
  <2>2. sweep.cutoff <= now /\ now \in Nat  BY <1>1 DEF NonceInv, Ledger, TypeOK
  <2>3. \A c \in DOMAIN risks : risks[c].exp \in Nat  BY <1>1 DEF TypeOK
  <2>4. \A c \in Clients : failed[c] \in Nat  BY <1>1 DEF TypeOK
  <2> QED  BY <1>2, <2>1, <2>2, <2>3, <2>4
<1>4. kept \subseteq DOMAIN risks  OBVIOUS
<1> HIDE DEF kept
<1>5. DOMAIN risks' = kept /\ \A c \in kept : risks'[c] = risks[c]  BY <1>1
<1>6. TypeOK'
  <2> DEFINE R == [level : Risks, gate : Gates, exp : Nat]
  <2>1. \A c \in DOMAIN risks : risks[c] \in R  BY <1>1 DEF TypeOK
  <2> HIDE DEF R
  <2>2. risks' \in [DOMAIN risks' -> R]  BY <1>1, <1>4, <2>1
  <2> USE DEF R
  <2>3. DOMAIN risks' \subseteq Clients  BY <1>1, <1>4, <1>5 DEF TypeOK
  <2> QED  BY <1>1, <1>2, <2>2, <2>3 DEF TypeOK
<1>7. MemoryInv'
  <2>1. \A c \in Clients : Kept(c)'  BY <1>1, <1>3, <1>5 DEF MemoryInv, Kept, Remembered
  <2>2. (\A h \in Goroutines : Passed(h)') /\ Recent'  BY <1>1 DEF MemoryInv, Passed, Remembered, Recent
  <2> QED  BY <2>1, <2>2 DEF MemoryInv
<1> QED  BY <1>1, <1>2, <1>6, <1>7, StillNonce DEF Inv

\* New settings change neither nonces nor what is remembered.
LEMMA ApplyConfigInv ==
    ASSUME Inv, ApplyGateConfig
    PROVE  Inv'
<1>1. /\ TypeOK /\ NonceInv /\ MemoryInv /\ cfg' \in GateConfig
      /\ UNCHANGED <<now, tokens, used, risks, req, sweep, strikes, redeemed, cleared, failed>>
  BY DEF Inv, ApplyGateConfig, history
<1>2. TypeOK'  BY <1>1 DEF TypeOK
<1> QED  BY <1>1, <1>2, StillNonce, StillMemory DEF Inv

\* A second passes.
LEMMA TickInv ==
    ASSUME Inv, Tick
    PROVE  Inv'
<1>1. /\ TypeOK /\ NonceInv /\ MemoryInv /\ now \in Nat /\ now' = now + 1
      /\ \A g \in Goroutines : req[g].stage = "consume" => now < req[g].at + MaxLag
      /\ UNCHANGED <<cfg, tokens, used, risks, req, sweep, strikes, redeemed, cleared, failed>>
  BY DEF Inv, Tick, TypeOK, history
<1>2. TypeOK'  BY <1>1 DEF TypeOK
<1>3. NonceInv'
  <2>1. Ledger'  BY <1>1 DEF NonceInv, Ledger, TypeOK
  <2>2. UsedUntilExpiry'
    <3>1. \A m \in DOMAIN tokens : tokens[m].expires \in Nat  BY <1>1 DEF TypeOK
    <3> QED  BY <1>1, <3>1 DEF NonceInv, UsedUntilExpiry
  <2>3. ASSUME NEW g \in Goroutines PROVE Timely(g)'
    <3>1. req[g].stage = "consume" => req[g].at \in Nat  BY <1>1, HandlerFields DEF TypeOK
    <3> QED  BY <1>1, <3>1, ChallengeConstants DEF NonceInv, Timely
  <2>4. Issued' /\ Once'  BY <1>1 DEF NonceInv, Issued, Once
  <2> QED  BY <2>1, <2>2, <2>3, <2>4 DEF NonceInv
<1>4. MemoryInv'
  <2>1. \A c \in Clients : failed[c] \in Nat /\ (Remembered(c)' => Remembered(c))
    BY <1>1 DEF Remembered, TypeOK
  <2>2. \A c \in Clients : Kept(c)'  BY <1>1, <2>1 DEF MemoryInv, Kept
  <2>3. ASSUME NEW g \in Goroutines PROVE Passed(g)'
    <3>1. req[g].stage \in {"page", "issue"} => req[g].client \in Clients  BY <1>1, HandlerFields DEF TypeOK
    <3>2. Passed(g) /\ req' = req  BY <1>1 DEF MemoryInv
    <3>3. req[g].stage \in {"page", "issue"} => (Remembered(req[g].client)' => Remembered(req[g].client))
      BY <1>1, <3>1 DEF Remembered, TypeOK
    <3> QED  BY <3>2, <3>3 DEF Passed
  <2>4. Recent'  BY <1>1, <2>1, ChallengeConstants DEF MemoryInv, Recent
  <2> QED  BY <2>2, <2>3, <2>4 DEF MemoryInv
<1> QED  BY <1>2, <1>3, <1>4 DEF Inv

----------------------------------------------------------------------------
(* The theorems *)

\* Every step preserves the invariant.
LEMMA NextInv == Inv /\ [Next]_vars => Inv'
<1> SUFFICES ASSUME Inv, [Next]_vars PROVE Inv'  OBVIOUS
<1>1. ASSUME NEW g \in Goroutines, NEW c \in Clients, NEW risk \in Risks, ServeChallenge(g, c, risk)
      PROVE  Inv'
  BY <1>1, ServeChallengeInv
<1>2. ASSUME NEW c \in Clients, NEW score \in Risks, SoftPass(c, score) PROVE Inv'
  BY <1>2, SoftPassInv
<1>3. ASSUME NEW g \in Goroutines, NEW c \in Clients, ChallengeV1GET(g, c) \/ PostRejected(g, c) PROVE Inv'
  BY <1>3, ChallengeV1GETInv, PostRejectedInv
<1>4. ASSUME NEW g \in Goroutines, NEW c \in Clients, NEW n \in Nonces, PostVerified(g, c, n) PROVE Inv'
  BY <1>4, PostVerifiedInv
<1>5. ASSUME NEW g \in Goroutines, PageRemember(g) \/ IssueChallenge(g) \/ Consume(g) PROVE Inv'
  BY <1>5, PageRememberInv, IssueChallengeInv, ConsumeInv
<1>6. ASSUME NEW g \in Goroutines, EnvRefused(g) \/ CaptchaRefused(g) \/ CaptchaMissing(g) \/ Clear(g) PROVE Inv'
  BY <1>6, RefusedInv, CaptchaMissingInv, ClearInv
<1>7. ASSUME NEW n \in Nonces, SweepNonce(n) PROVE Inv'  BY <1>7, SweepNonceInv
<1>8. CASE SweepStart \/ SweepRisks \/ ApplyGateConfig \/ Tick
  BY <1>8, SweepStartInv, SweepRisksInv, ApplyConfigInv, TickInv
<1>9. CASE UNCHANGED vars
  <2>1. TypeOK'  BY <1>9 DEF Inv, TypeOK, vars
  <2> QED  BY <1>9, <2>1, StillNonce, StillMemory DEF Inv, vars
<1> QED  BY <1>1, <1>2, <1>3, <1>4, <1>5, <1>6, <1>7, <1>8, <1>9 DEF Next

\* The conjunction is an invariant of the challenge manager and its handlers.
THEOREM Invariance == Spec => []Inv
<1> QED  BY InitInv, NextInv, PTL DEF Spec

\* Every handler, the two maps and the sweeper keep to their types.
THEOREM TypeCorrect == Spec => []TypeOK
<1>1. Inv => TypeOK  BY DEF Inv
<1> QED  BY <1>1, Invariance, PTL

\* A challenge is single-use: with ConsumeNonce's clock and lock in the same
\* second, no number of racing POSTs and sweeps consumes a nonce twice or buys a
\* second clearance with it, and the sweeper keeps a used nonce until its token
\* has expired.
THEOREM ChallengesAreSingleUse == Spec => []SingleUse
<1>1. Inv => SingleUse  BY DEF Inv, NonceInv, Once, SingleUse
<1> QED  BY <1>1, Invariance, PTL

\* A failed attempt stays in the risk cache for TokenTTL, whatever other requests,
\* sweeps and settings follow.
THEOREM FailuresAreRemembered == Spec => []FailureRemembered
<1>1. ASSUME Inv, NEW c \in Clients, failed[c] > 0, now <= failed[c]
      PROVE  TakeChallenge(c) = [level |-> RiskHigh, gate |-> GateInteractive]
  BY <1>1, TakeRemembered DEF Inv, MemoryInv, Remembered
<1>2. Inv => FailureRemembered  BY <1>1 DEF FailureRemembered
<1> QED  BY <1>2, Invariance, PTL

\* No challenge that is signed while a failure of its client is to be remembered
\* has the invisible gate.
THEOREM FailuresEscalate == Spec => FailureEscalates
<1>1. Inv => \A g \in Goroutines :
               IssueChallenge(g) /\ failed[req[g].client] > 0 /\ now <= failed[req[g].client]
               => req[g].gate = GateInteractive
  BY DEF Inv, MemoryInv, Passed, Remembered, IssueChallenge
<1> QED  BY <1>1, Invariance, PTL DEF FailureEscalates

----------------------------------------------------------------------------
(* Trackers: the inductive invariant *)
Trackers == {"nf", "pen", "beh"}

\* What the proof needs to know of an entry.
Behaviour(e) == {"start", "reqs", "strikes"} \subseteq DOMAIN e /\ e.start \in Int /\ e.reqs \in Nat /\ e.strikes \in Nat

Answers(e) == {"start", "count"} \subseteq DOMAIN e /\ e.start \in Int /\ e.count \in Nat

EntryOf(k, e) == IF k = "beh" THEN Behaviour(e) ELSE Answers(e)

Asking == {"record", "strikes", "score", "nf", "pen"}

Asked == [stage : Asking \cup {"respond", "answered", "counted"}, at : Int, client : Visitors, visit : Visits,
          scored : BOOLEAN, status : Statuses \cup {0}]

EntsTyped ==
    /\ DOMAIN ents = Trackers
    /\ \A k \in Trackers : \A c \in DOMAIN ents[k] : c \in Visitors /\ EntryOf(k, ents[k][c])

CallsTyped ==
    /\ asked \in [Callers -> {NotAsked} \cup Asked]
    /\ \A g \in Callers : asked[g].stage \in Asking => asked[g].scored

LogTyped == log \in [Trackers -> [Visitors -> [since : Int, n : Nat]]]

TrackerTyped == settings \in Settings /\ clock \in Int /\ EntsTyped /\ CallsTyped /\ LogTyped

\* The requests of c that tracker k has let through and not counted, or, of
\* the behaviour tracker, counted and not let through.
Past(k) ==
    IF k = "beh" THEN {"strikes", "score"}
    ELSE IF k = "nf" THEN {"pen", "respond", "answered"} ELSE {"respond", "answered", "counted"}

Between(k, c) == {g \in Callers : asked[g].stage \in Past(k) /\ asked[g].client = c /\ asked[g].scored}

\* The history goes with the entry, and outlasts its window.
Begun(k, c) ==
    MaxAge >= Window + MaxLate =>
      IF c \in DOMAIN ents[k] THEN ents[k][c].start = log[k][c].since ELSE clock - log[k][c].since > Window

\* Everything let through was counted, and what is still to be counted fits.
Answered(k, c) ==
    /\ log[k][c].n <= Threshold[k] - 1 + Cardinality(Callers)
    /\ c \in DOMAIN ents[k] =>
         /\ log[k][c].n <= ents[k][c].count
         /\ log[k][c].n + Cardinality(Between(k, c)) <= Threshold[k] - 1 + Cardinality(Callers)

\* Everything let through or about to ask was counted, but for what a window
\* found in flight when it began; without a window all that is left may pass.
Behaved(c) ==
    IF c \in DOMAIN ents.beh
    THEN /\ log.beh[c].n + Cardinality(Between("beh", c)) <= ents.beh[c].reqs + Cardinality(Callers)
         /\ log.beh[c].n <= Threshold["beh"] - 1 + Cardinality(Callers)
    ELSE log.beh[c].n + Cardinality(Between("beh", c)) <= Threshold["beh"] - 1 + 2 * Cardinality(Callers)

Quota(k, c) == IsLimit(k) => IF k = "beh" THEN Behaved(c) ELSE Answered(k, c)

TrackerInv == TrackerTyped /\ \A k \in Trackers, c \in Visitors : Begun(k, c) /\ Quota(k, c)

----------------------------------------------------------------------------
(* Trackers: what the parts of a step do *)

\* Numbers are numbers.
LEMMA TrackerNumbers ==
    /\ Window \in Nat /\ MaxAge \in Nat /\ MaxLate \in Nat /\ MaxClock \in Nat /\ BlockScore \in Int
    /\ IsFiniteSet(Callers) /\ Cardinality(Callers) \in Nat
  BY TrackerConstants, FS_CardinalityType

\* A threshold is positive.
LEMMA Thresholds ==
    ASSUME settings \in Settings, NEW k \in Trackers
    PROVE  Threshold[k] \in Int /\ Threshold[k] >= 1
<1>1. settings.nf \in Int /\ settings.pen \in Int /\ settings.limits["burst"] \in Int
  BY TrackerConstants DEF DefaultLimits
<1>2. NewBehaviorTracker.burst \in Int /\ NewBehaviorTracker.burst >= 1
  BY <1>1 DEF NewBehaviorTracker, DefaultLimits
<1>3. NewNotFoundTracker \in Int /\ NewNotFoundTracker >= 1 /\ NewPenaltyTracker \in Int /\ NewPenaltyTracker >= 1
  BY <1>1 DEF NewNotFoundTracker, NewPenaltyTracker
<1> QED BY <1>2, <1>3 DEF Threshold, Trackers

\* Where a request may stand, and what is known of it there.
LEMMA AskedFields ==
    ASSUME CallsTyped, NEW g \in Callers
    PROVE  /\ asked[g].stage = "idle" <=> asked[g] = NotAsked
           /\ asked[g].stage # "idle" => asked[g] \in Asked
           /\ asked[g].at \in Int
  BY DEF CallsTyped, Asked, Asking, NotAsked

\* How many requests lie between the question and the answer.
LEMMA Census ==
    ASSUME NEW k \in Trackers, NEW c \in Visitors
    PROVE  /\ IsFiniteSet(Between(k, c)) /\ Cardinality(Between(k, c)) \in Nat
           /\ Cardinality(Between(k, c)) <= Cardinality(Callers)
<1>1. Between(k, c) \subseteq Callers
  BY DEF Between
<1> QED BY <1>1, TrackerNumbers, FS_Subset, FS_CardinalityType

\* The same of the next state.
LEMMA CensusNext ==
    ASSUME NEW k \in Trackers, NEW c \in Visitors
    PROVE  /\ IsFiniteSet(Between(k, c)') /\ Cardinality(Between(k, c)') \in Nat
           /\ Cardinality(Between(k, c)') <= Cardinality(Callers)
<1>1. Between(k, c)' \subseteq Callers
  BY DEF Between
<1> QED BY <1>1, TrackerNumbers, FS_Subset, FS_CardinalityType

\* The other requests stay where they are.
Stay(g) == \A h \in Callers \ {g} : asked'[h] = asked[h]

\* One request moves, and the census with it.
LEMMA CensusMoves ==
    ASSUME NEW k \in Trackers, NEW c \in Visitors, NEW g \in Callers, Stay(g)
    PROVE  /\ (g \in Between(k, c)' <=> g \in Between(k, c)) => Cardinality(Between(k, c)') = Cardinality(Between(k, c))
           /\ g \in Between(k, c)' /\ g \notin Between(k, c) =>
                Cardinality(Between(k, c)') = Cardinality(Between(k, c)) + 1
           /\ g \notin Between(k, c)' /\ g \in Between(k, c) =>
                Cardinality(Between(k, c)') = Cardinality(Between(k, c)) - 1
<1>1. \A h \in Callers \ {g} : h \in Between(k, c)' <=> h \in Between(k, c)
  BY DEF Between, Stay
<1>2. Between(k, c) \subseteq Callers /\ Between(k, c)' \subseteq Callers
  BY DEF Between
<1> DEFINE A == Between(k, c)
           B == Between(k, c)'
<1>3. IsFiniteSet(A) /\ IsFiniteSet(B) /\ Cardinality(A) \in Nat /\ Cardinality(B) \in Nat
  BY Census, CensusNext
<1>4. A \subseteq Callers /\ B \subseteq Callers /\ \A h \in Callers \ {g} : h \in B <=> h \in A
  BY <1>1, <1>2
<1> HIDE DEF A, B
<1>5. (g \in B <=> g \in A) => B = A
  BY <1>4
<1>6. g \in B /\ g \notin A => B = A \cup {g}
  BY <1>4
<1>7. g \notin B /\ g \in A => A = B \cup {g}
  BY <1>4
<1>8. g \in B /\ g \notin A => Cardinality(B) = Cardinality(A) + 1
  BY <1>3, <1>6, FS_AddElement
<1>9. g \notin B /\ g \in A => Cardinality(A) = Cardinality(B) + 1
  BY <1>3, <1>7, FS_AddElement
<1> QED BY <1>3, <1>5, <1>8, <1>9 DEF A, B

\* Tracker k keeps its entry of c.
Held(k, c) ==
    /\ c \in DOMAIN ents'[k] <=> c \in DOMAIN ents[k]
    /\ c \in DOMAIN ents[k] => ents'[k][c] = ents[k][c]

\* An entry is written.
LEMMA EntsPut ==
    ASSUME EntsTyped, NEW k0 \in Trackers, NEW c0 \in Visitors, NEW e, EntryOf(k0, e),
           ents' = [ents EXCEPT ![k0] = PutEntry(ents[k0], c0, e)]
    PROVE  /\ EntsTyped' /\ c0 \in DOMAIN ents'[k0] /\ ents'[k0][c0] = e
           /\ \A k \in Trackers, c \in Visitors : k # k0 \/ c # c0 => Held(k, c)
<1> DEFINE f == PutEntry(ents[k0], c0, e)
<1>1. DOMAIN f = DOMAIN ents[k0] \cup {c0} /\ f[c0] = e /\ \A c \in DOMAIN ents[k0] : c # c0 => f[c] = ents[k0][c]
  BY DEF PutEntry
<1> HIDE DEF f
<1>2. DOMAIN ents' = Trackers /\ ents'[k0] = f /\ \A k \in Trackers : k # k0 => ents'[k] = ents[k]
  BY DEF EntsTyped, f
<1>3. EntsTyped'
  <2>1. ASSUME NEW k \in Trackers, NEW c \in DOMAIN ents'[k]
        PROVE  c \in Visitors /\ EntryOf(k, ents'[k][c])
    BY <1>1, <1>2 DEF EntsTyped
  <2> QED BY <1>2, <2>1 DEF EntsTyped
<1> QED BY <1>1, <1>2, <1>3 DEF Held

\* An entry is deleted.
LEMMA EntsDrop ==
    ASSUME EntsTyped, NEW k0 \in Trackers, NEW c0 \in Visitors,
           ents' = [ents EXCEPT ![k0] = Drop(ents[k0], c0)]
    PROVE  /\ EntsTyped' /\ c0 \notin DOMAIN ents'[k0]
           /\ \A k \in Trackers, c \in Visitors : k # k0 \/ c # c0 => Held(k, c)
<1> DEFINE f == Drop(ents[k0], c0)
<1>1. DOMAIN f = DOMAIN ents[k0] \ {c0} /\ \A c \in DOMAIN f : f[c] = ents[k0][c]
  BY DEF Drop
<1> HIDE DEF f
<1>2. DOMAIN ents' = Trackers /\ ents'[k0] = f /\ \A k \in Trackers : k # k0 => ents'[k] = ents[k]
  BY DEF EntsTyped, f
<1>3. EntsTyped'
  <2>1. ASSUME NEW k \in Trackers, NEW c \in DOMAIN ents'[k]
        PROVE  c \in Visitors /\ EntryOf(k, ents'[k][c])
    BY <1>1, <1>2 DEF EntsTyped
  <2> QED BY <1>2, <2>1 DEF EntsTyped
<1> QED BY <1>1, <1>2, <1>3 DEF Held

\* Nothing is written.
LEMMA EntsSame ==
    ASSUME EntsTyped, ents' = ents
    PROVE  EntsTyped' /\ \A k \in Trackers, c \in Visitors : Held(k, c)
  BY DEF EntsTyped, Held, EntryOf, Behaviour, Answers

\* What a look leaves behind.
LEMMA EntsPurged ==
    ASSUME EntsTyped, NEW k0 \in Trackers, NEW c0 \in Visitors, NEW at, ents' = Purged(k0, c0, at)
    PROVE  /\ EntsTyped'
           /\ \A k \in Trackers, c \in Visitors : k # k0 \/ c # c0 => Held(k, c)
           /\ Running(k0, c0, at) => Held(k0, c0)
           /\ ~Running(k0, c0, at) => c0 \notin DOMAIN ents'[k0]
<1>1. CASE Running(k0, c0, at)
  BY <1>1, EntsSame DEF Purged
<1>2. CASE ~Running(k0, c0, at)
  BY <1>2, EntsDrop DEF Purged
<1> QED BY <1>1, <1>2

\* Other clients' and other trackers' parts of the history stay, and n more
\* requests belong to this one.
LEMMA LogPut ==
    ASSUME TrackerTyped, NEW k0 \in Trackers, NEW c0 \in Visitors, NEW at \in Int, NEW n \in Nat, Logged(k0, c0, at, n)
    PROVE  /\ LogTyped'
           /\ \A k \in Trackers, c \in Visitors : k # k0 \/ c # c0 => log'[k][c] = log[k][c]
           /\ log'[k0][c0] = IF ~Running(k0, c0, at) /\ clock - log[k0][c0].since > Window
                             THEN [since |-> at, n |-> n]
                             ELSE [since |-> log[k0][c0].since, n |-> log[k0][c0].n + n]
<1> DEFINE over == ~Running(k0, c0, at) /\ clock - log[k0][c0].since > Window
           r == IF over THEN [since |-> at, n |-> n] ELSE [since |-> log[k0][c0].since, n |-> log[k0][c0].n + n]
<1>1. log[k0][c0] \in [since : Int, n : Nat]
  BY DEF TrackerTyped, LogTyped
<1>2. log' = [log EXCEPT ![k0][c0] = r]
  BY DEF Logged
<1>3. r \in [since : Int, n : Nat]
      /\ r = IF over THEN [since |-> at, n |-> n] ELSE [since |-> log[k0][c0].since, n |-> log[k0][c0].n + n]
  BY <1>1
<1> HIDE DEF r, over
<1>4. LogTyped' /\ log'[k0][c0] = r
      /\ \A k \in Trackers, c \in Visitors : k # k0 \/ c # c0 => log'[k][c] = log[k][c]
  BY <1>2, <1>3 DEF TrackerTyped, LogTyped
<1> QED BY <1>3, <1>4 DEF over

\* A request goes on to stage s with clock at.
LEMMA CallsMoveTo ==
    ASSUME CallsTyped, NEW g \in Callers, NEW s, NEW at \in Int, MoveTo(g, s, at), asked[g] \in Asked,
           s \in Asking \cup {"respond", "answered", "counted"}, s \in Asking => asked[g].scored
    PROVE  /\ CallsTyped' /\ Stay(g) /\ asked'[g].stage = s /\ asked'[g].client = asked[g].client
           /\ asked'[g].scored = asked[g].scored
<1> DEFINE r == [asked[g] EXCEPT !.stage = s, !.at = at]
<1>1. asked' = [asked EXCEPT ![g] = r]
  BY DEF MoveTo, CallsTyped
<1>2. r \in Asked /\ r.stage = s /\ r.client = asked[g].client /\ r.scored = asked[g].scored
  BY DEF Asked
<1> HIDE DEF r
<1> QED BY <1>1, <1>2 DEF CallsTyped, Stay

\* A request is over.
LEMMA CallsReturn ==
    ASSUME CallsTyped, NEW g \in Callers, Return(g)
    PROVE  CallsTyped' /\ Stay(g) /\ asked'[g].stage = "idle"
  BY DEF CallsTyped, Stay, Return, NotAsked, Asking

\* An idle request is counted nowhere.
LEMMA IdleNowhere ==
    ASSUME NEW g, asked'[g].stage \in {"idle", "record"}, NEW k \in Trackers, NEW c
    PROVE  g \notin Between(k, c)'
  BY DEF Between, Past, Trackers

\* Points are numbers and never negative.
LEMMA PointsAdd ==
    ASSUME settings \in Settings, NEW b,
           NEW f \in {"burst", "fanout", "write", "repeat", "forge", "strike", "ua"}
    PROVE  Adds(f, b) \in Nat
<1>1. settings.points[f] \in Int
  BY TrackerConstants DEF DefaultLimits
<1>2. CASE b /\ settings.points[f] > 0
  BY <1>1, <1>2 DEF Adds
<1>3. CASE ~(b /\ settings.points[f] > 0)
  BY <1>1, <1>3 DEF Adds
<1> QED BY <1>2, <1>3

\* If bursts alone are refused, a client that passes is below the limit.
LEMMA PassedBelow ==
    ASSUME settings \in Settings, NEW e, Behaviour(e), IsLimit("beh"), ~(Score(e) >= BlockScore)
    PROVE  e.reqs < Threshold["beh"]
<1> DEFINE lim == NewBehaviorTracker
           burst == Adds("burst", e.reqs >= lim.burst)
           fan == Adds("fanout", Cardinality(e.paths) >= lim.fanout)
           seq == Adds("fanout", e.seqHits >= 8)
           wr == Adds("write", e.writes >= lim.write)
           rep == Adds("repeat", e.samePathWrite >= lim.repeat)
           forge == Adds("forge", e.forgeHits >= lim.forge)
           st == Adds("strike", e.strikes > 0)
           ua == Adds("ua", Cardinality(e.uas) >= lim.ua)
<1>1. Threshold["beh"] = lim.burst /\ lim.burst \in Int /\ e.reqs \in Nat /\ e.strikes \in Nat
  BY Thresholds DEF Threshold, Trackers, Behaviour
<1> SUFFICES ASSUME e.reqs >= lim.burst
             PROVE  FALSE
  BY <1>1
<1>2. settings.points.burst >= BlockScore /\ settings.points.burst \in Int /\ BlockScore \in Int
  BY TrackerConstants, TrackerNumbers DEF IsLimit, DefaultLimits
<1>3. burst \in Nat /\ burst >= BlockScore
  BY <1>2 DEF Adds
<1>4. fan \in Nat /\ seq \in Nat /\ wr \in Nat
  BY PointsAdd
<1>5. rep \in Nat /\ forge \in Nat /\ st \in Nat /\ ua \in Nat
  BY PointsAdd
<1>6. Score(e) = burst + fan + seq \div 2 + wr + rep + forge + e.strikes * st + ua
  BY DEF Score
<1> HIDE DEF lim, burst, fan, seq, wr, rep, forge, st, ua
<1>7. e.strikes * st \in Nat
  BY <1>1, <1>5
<1>8. seq \div 2 \in Nat
  BY <1>4
<1> DEFINE half == seq \div 2
           all == e.strikes * st
<1>9. half \in Nat /\ all \in Nat /\ Score(e) = burst + fan + half + wr + rep + forge + all + ua
  BY <1>6, <1>7, <1>8
<1> HIDE DEF half, all
<1>10. Score(e) >= BlockScore
  BY <1>2, <1>3, <1>4, <1>5, <1>9
<1> QED BY <1>10

\* Whoever does not find a window running comes after the last one.
LEMMA PastWindow ==
    ASSUME TrackerInv, NEW k \in Trackers, NEW c \in Visitors, NEW at \in Int, at <= clock,
           ~Running(k, c, at), MaxAge >= Window + MaxLate
    PROVE  clock - log[k][c].since > Window
<1>1. Begun(k, c) /\ clock \in Int /\ log[k][c].since \in Int /\ Window \in Nat
  BY TrackerNumbers DEF TrackerInv, TrackerTyped, LogTyped
<1>2. CASE c \in DOMAIN ents[k]
  <2>1. ents[k][c].start = log[k][c].since
    BY <1>1, <1>2 DEF Begun
  <2>2. ~(at - ents[k][c].start <= Window)
    BY <1>2 DEF Running
  <2> QED BY <1>1, <2>1, <2>2
<1>3. CASE c \notin DOMAIN ents[k]
  BY <1>1, <1>3 DEF Begun
<1> QED BY <1>2, <1>3

\* The settings stay.
LEMMA SettingsStay ==
    ASSUME settings' = settings
    PROVE  Threshold' = Threshold /\ \A k \in Trackers : (IsLimit(k))' = IsLimit(k)
  BY DEF Threshold, IsLimit, NewNotFoundTracker, NewPenaltyTracker, NewBehaviorTracker

\* The quota of a client in numbers, now and afterwards.
LEMMA QuotaIs ==
    ASSUME TrackerInv, settings' = settings, LogTyped', EntsTyped',
           NEW k \in Trackers, NEW c \in Visitors
    PROVE  LET a == Cardinality(Between(k, c))
               b == Cardinality(Between(k, c)')
               N == Cardinality(Callers)
               lim == Threshold[k]
               n == log[k][c].n
               m == log'[k][c].n
           IN  /\ a \in Nat /\ b \in Nat /\ a <= N /\ b <= N /\ N \in Nat /\ lim \in Int /\ lim >= 1
               /\ n \in Nat /\ m \in Nat
               /\ k = "beh" =>
                    /\ c \in DOMAIN ents[k] => Behaviour(ents[k][c])
                    /\ c \in DOMAIN ents'[k] => Behaviour(ents'[k][c])
                    /\ IsLimit(k) =>
                         IF c \in DOMAIN ents[k] THEN n + a <= ents[k][c].reqs + N /\ n <= lim - 1 + N
                         ELSE n + a <= lim - 1 + 2 * N
                    /\ (IsLimit(k) =>
                          IF c \in DOMAIN ents'[k] THEN m + b <= ents'[k][c].reqs + N /\ m <= lim - 1 + N
                          ELSE m + b <= lim - 1 + 2 * N) => Quota(k, c)'
               /\ k # "beh" =>
                    /\ c \in DOMAIN ents[k] => Answers(ents[k][c])
                    /\ c \in DOMAIN ents'[k] => Answers(ents'[k][c])
                    /\ IsLimit(k) =>
                         n <= lim - 1 + N /\ (c \in DOMAIN ents[k] => n <= ents[k][c].count /\ n + a <= lim - 1 + N)
                    /\ (IsLimit(k) =>
                          m <= lim - 1 + N /\ (c \in DOMAIN ents'[k] => m <= ents'[k][c].count /\ m + b <= lim - 1 + N))
                         => Quota(k, c)'
<1>1. settings \in Settings /\ log[k][c] \in [since : Int, n : Nat] /\ log'[k][c] \in [since : Int, n : Nat]
  BY DEF TrackerInv, TrackerTyped, LogTyped
<1>2. /\ Cardinality(Between(k, c)) \in Nat /\ Cardinality(Between(k, c)') \in Nat /\ Cardinality(Callers) \in Nat
      /\ Cardinality(Between(k, c)) <= Cardinality(Callers) /\ Cardinality(Between(k, c)') <= Cardinality(Callers)
  BY Census, CensusNext, TrackerNumbers
<1>3. Threshold[k] \in Int /\ Threshold[k] >= 1
  BY <1>1, Thresholds
<1>4. /\ c \in DOMAIN ents[k] => EntryOf(k, ents[k][c])
      /\ c \in DOMAIN ents'[k] => EntryOf(k, ents'[k][c])
  BY DEF TrackerInv, TrackerTyped, EntsTyped
<1>5. Quota(k, c) /\ Threshold' = Threshold /\ (IsLimit(k))' = IsLimit(k)
  BY SettingsStay DEF TrackerInv
<1>6. CASE k = "beh"
  <2>1. IsLimit(k) => Behaved(c)
    BY <1>5, <1>6 DEF Quota
  <2>2. (IsLimit(k) => Behaved(c)') => Quota(k, c)'
    BY <1>5, <1>6 DEF Quota
  <2> QED BY <1>1, <1>2, <1>3, <1>4, <1>5, <1>6, <2>1, <2>2 DEF Behaved, EntryOf
<1>7. CASE k # "beh"
  <2>1. IsLimit(k) => Answered(k, c)
    BY <1>5, <1>7 DEF Quota
  <2>2. (IsLimit(k) => Answered(k, c)') => Quota(k, c)'
    BY <1>5, <1>7 DEF Quota
  <2> QED BY <1>1, <1>2, <1>3, <1>4, <1>5, <1>7, <2>1, <2>2 DEF Answered, EntryOf
<1> QED BY <1>6, <1>7

\* What neither changes its entry nor lets anything through.
LEMMA Framed ==
    ASSUME TrackerInv, settings' = settings, clock' \in Int, clock' >= clock, LogTyped', EntsTyped',
           NEW k \in Trackers, NEW c \in Visitors, Held(k, c), log'[k][c] = log[k][c],
           Cardinality(Between(k, c)') <= Cardinality(Between(k, c))
    PROVE  Begun(k, c)' /\ Quota(k, c)'
<1>1. Begun(k, c)'
  <2>1. Begun(k, c) /\ clock \in Int /\ log[k][c].since \in Int /\ Window \in Nat
    BY TrackerNumbers DEF TrackerInv, TrackerTyped, LogTyped
  <2> QED BY <2>1 DEF Begun, Held
<1>2. c \in DOMAIN ents[k] => /\ k = "beh" => ents[k][c].reqs \in Nat
                              /\ k # "beh" => ents[k][c].count \in Nat
  BY DEF TrackerInv, TrackerTyped, EntsTyped, EntryOf, Behaviour, Answers
<1>3. Quota(k, c)'
  BY <1>2, QuotaIs DEF Held
<1> QED BY <1>1, <1>3

\* An entry is gone.
LEMMA Dropped ==
    ASSUME TrackerInv, settings' = settings, clock' = clock, LogTyped', EntsTyped',
           NEW k \in Trackers, NEW c \in Visitors, c \notin DOMAIN ents'[k], log'[k][c].since = log[k][c].since,
           MaxAge >= Window + MaxLate => clock - log[k][c].since > Window,
           k # "beh" => log'[k][c].n = log[k][c].n,
           k = "beh" => log'[k][c].n + Cardinality(Between(k, c)') <= log[k][c].n + Cardinality(Between(k, c))
    PROVE  Begun(k, c)' /\ Quota(k, c)'
<1>1. Begun(k, c)'
  BY DEF Begun
<1>2. Quota(k, c)'
  BY QuotaIs
<1> QED BY <1>1, <1>2

----------------------------------------------------------------------------
(* Trackers: one lemma per action *)

\* A step of one request that touches no tracker.
LEMMA QuietStep ==
    ASSUME TrackerInv, settings' = settings, clock' = clock, ents' = ents, log' = log, CallsTyped',
           NEW g \in Callers, Stay(g),
           \A k \in Trackers, c \in Visitors : g \in Between(k, c)' => g \in Between(k, c)
    PROVE  TrackerInv'
<1>1. EntsTyped' /\ (\A k \in Trackers, c \in Visitors : Held(k, c)) /\ LogTyped' /\ clock \in Int
  BY EntsSame DEF TrackerInv, TrackerTyped, LogTyped
<1>2. TrackerTyped'
  BY <1>1 DEF TrackerInv, TrackerTyped
<1>3. ASSUME NEW k \in Trackers, NEW c \in Visitors
      PROVE  Begun(k, c)' /\ Quota(k, c)'
  <2>1. Cardinality(Between(k, c)') <= Cardinality(Between(k, c))
    BY Census, CensusMoves, CensusNext
  <2> QED BY <1>1, <2>1, Framed
<1> QED BY <1>2, <1>3 DEF TrackerInv

\* A request comes in: it is counted nowhere yet.
LEMMA ArriveStep ==
    ASSUME TrackerInv, NEW g \in Callers, NEW c \in Visitors, NEW v \in Visits,
           NEW s \in BOOLEAN, Enter(g, c, v, s)
    PROVE  TrackerInv'
<1> DEFINE r == [stage |-> IF s THEN "record" ELSE "respond", at |-> 0, client |-> c, visit |-> v, scored |-> s,
                 status |-> 0]
<1>1. asked' = [asked EXCEPT ![g] = r] /\ CallsTyped
  BY DEF Enter, TrackerInv, TrackerTyped
<1>2. r \in Asked /\ (r.stage \in Asking => r.scored) /\ (r.scored => r.stage = "record") /\ r.scored = s
  BY DEF Asked, Asking
<1> HIDE DEF r
<1>3. CallsTyped' /\ Stay(g) /\ asked'[g] = r
  BY <1>1, <1>2 DEF CallsTyped, Stay
<1>4. \A k \in Trackers, d \in Visitors : g \notin Between(k, d)'
  BY <1>2, <1>3 DEF Between, Past, Trackers
<1> QED BY <1>3, <1>4, QuietStep DEF Enter

\* A request that guard answers itself is counted nowhere any more.
LEMMA LeaveStep ==
    ASSUME TrackerInv, NEW g \in Callers, Exit(g)
    PROVE  TrackerInv'
<1>1. CallsTyped' /\ Stay(g) /\ asked'[g].stage = "idle"
  BY CallsReturn DEF Exit, TrackerInv, TrackerTyped
<1>2. \A k \in Trackers, d \in Visitors : g \notin Between(k, d)'
  BY <1>1, IdleNowhere
<1> QED BY <1>1, <1>2, QuietStep DEF Exit

\* An answer leaves the request between question and count.
LEMMA RespondStep ==
    ASSUME TrackerInv, NEW g \in Callers, NEW s \in Statuses, Respond(g, s)
    PROVE  TrackerInv'
<1> DEFINE r == [asked[g] EXCEPT !.stage = "answered", !.status = s]
<1>1. CallsTyped /\ asked[g].stage = "respond" /\ asked[g] \in Asked
  BY AskedFields DEF Respond, TrackerInv, TrackerTyped
<1>2. asked' = [asked EXCEPT ![g] = r]
  BY <1>1 DEF Respond, CallsTyped
<1>3. r \in Asked /\ r.stage = "answered" /\ r.client = asked[g].client /\ r.scored = asked[g].scored
  BY <1>1 DEF Asked
<1> HIDE DEF r
<1>4. CallsTyped' /\ Stay(g) /\ asked'[g] = r
  BY <1>1, <1>2, <1>3 DEF CallsTyped, Stay, Asking
<1>5. \A k \in Trackers, d \in Visitors : g \in Between(k, d)' => g \in Between(k, d)
  BY <1>1, <1>3, <1>4 DEF Between, Past, Trackers
<1> QED BY <1>4, <1>5, QuietStep DEF Respond

\* A window that is over stays over as time goes on.
LEMMA TickStep ==
    ASSUME TrackerInv, ClockTick
    PROVE  TrackerInv'
<1>1. /\ EntsTyped' /\ (\A k \in Trackers, c \in Visitors : Held(k, c)) /\ LogTyped' /\ clock \in Int
      /\ CallsTyped' /\ settings' = settings /\ log' = log /\ asked' = asked
  BY EntsSame DEF TrackerInv, TrackerTyped, LogTyped, CallsTyped, ClockTick
<1>2. clock' \in Int /\ clock' >= clock
  BY <1>1 DEF ClockTick
<1>3. TrackerTyped'
  BY <1>1, <1>2 DEF TrackerInv, TrackerTyped
<1>4. ASSUME NEW k \in Trackers, NEW c \in Visitors
      PROVE  Begun(k, c)' /\ Quota(k, c)'
  <2>1. Between(k, c)' = Between(k, c)
    BY <1>1 DEF Between
  <2>2. Cardinality(Between(k, c)') <= Cardinality(Between(k, c))
    BY <2>1, Census
  <2> QED BY <1>1, <1>2, <2>2, Framed
<1> QED BY <1>3, <1>4 DEF TrackerInv

\* The behaviour of c0 is noted: d more requests, which are about to ask.
LEMMA BehaviourNoted ==
    ASSUME TrackerInv, settings' = settings, clock' = clock, CallsTyped',
           NEW c0 \in Visitors, NEW at \in Int, at <= clock, NEW e, Behaviour(e), NEW d \in {0, 1},
           ents' = [ents EXCEPT !["beh"] = PutEntry(ents["beh"], c0, e)], Logged("beh", c0, at, 0),
           e.start = IF Running("beh", c0, at) THEN ents["beh"][c0].start ELSE at,
           e.reqs = IF Running("beh", c0, at) THEN ents["beh"][c0].reqs + d ELSE d,
           Cardinality(Between("beh", c0)') <= Cardinality(Between("beh", c0)) + d,
           \A k \in Trackers, c \in Visitors :
              k # "beh" \/ c # c0 => Cardinality(Between(k, c)') <= Cardinality(Between(k, c))
    PROVE  TrackerInv'
<1>1. "beh" \in Trackers /\ TrackerTyped /\ EntsTyped /\ EntryOf("beh", e)
  BY DEF Trackers, TrackerInv, TrackerTyped, EntryOf
<1>2. /\ EntsTyped' /\ c0 \in DOMAIN ents'["beh"] /\ ents'["beh"][c0] = e
      /\ \A k \in Trackers, c \in Visitors : k # "beh" \/ c # c0 => Held(k, c)
  BY <1>1, EntsPut
<1>3. /\ LogTyped'
      /\ \A k \in Trackers, c \in Visitors : k # "beh" \/ c # c0 => log'[k][c] = log[k][c]
      /\ log'["beh"][c0] = IF ~Running("beh", c0, at) /\ clock - log["beh"][c0].since > Window
                           THEN [since |-> at, n |-> 0]
                           ELSE [since |-> log["beh"][c0].since, n |-> log["beh"][c0].n + 0]
  BY <1>1, LogPut
<1>4. TrackerTyped'
  BY <1>1, <1>2, <1>3 DEF TrackerTyped
<1>5. clock \in Int /\ clock' >= clock /\ Window \in Nat
  BY <1>1, TrackerNumbers DEF TrackerTyped
<1>6. ASSUME NEW k \in Trackers, NEW c \in Visitors, k # "beh" \/ c # c0
      PROVE  Begun(k, c)' /\ Quota(k, c)'
  BY <1>2, <1>3, <1>5, <1>6, Framed
<1>7. CASE Running("beh", c0, at)
  <2>1. c0 \in DOMAIN ents["beh"] /\ Behaviour(ents["beh"][c0])
    BY <1>1, <1>7 DEF Running, EntsTyped, EntryOf
  <2>2. log'["beh"][c0].since = log["beh"][c0].since /\ log'["beh"][c0].n = log["beh"][c0].n
    BY <1>1, <1>3, <1>7 DEF TrackerTyped, LogTyped
  <2>3. Begun("beh", c0)'
    <3>1. Begun("beh", c0)
      BY <1>1 DEF TrackerInv
    <3> QED BY <1>2, <1>7, <2>1, <2>2, <3>1 DEF Begun
  <2>4. ents["beh"][c0].reqs \in Nat /\ ents'["beh"][c0].reqs = ents["beh"][c0].reqs + d
    BY <1>2, <1>7, <2>1 DEF Behaviour
  <2>5. Quota("beh", c0)'
    BY <1>1, <1>2, <1>3, <2>1, <2>2, <2>4, QuotaIs
  <2> QED BY <1>4, <1>6, <2>3, <2>5 DEF TrackerInv
<1>8. CASE ~Running("beh", c0, at)
  <2>1. MaxAge >= Window + MaxLate => log'["beh"][c0] = [since |-> at, n |-> 0]
    BY <1>1, <1>3, <1>8, PastWindow
  <2>2. Begun("beh", c0)'
    BY <1>2, <1>8, <2>1 DEF Begun
  <2>3. IsLimit("beh") => log'["beh"][c0].n = 0
    BY <2>1 DEF IsLimit
  <2>4. Quota("beh", c0)'
    BY <1>1, <1>2, <1>3, <1>8, <2>3, QuotaIs
  <2> QED BY <1>4, <1>6, <2>2, <2>4 DEF TrackerInv
<1> QED BY <1>7, <1>8

\* The clock a request carries is none of the future.
LEMMA ClockPast ==
    ASSUME TrackerInv, NEW g \in Callers, NEW at \in Clock(g)
    PROVE  at \in Int /\ at <= clock
<1>1. clock \in Int /\ MaxLate \in Nat
  BY TrackerNumbers DEF TrackerInv, TrackerTyped
<1> QED BY <1>1 DEF Clock

\* The entry a method works on.
LEMMA EntryTyped ==
    ASSUME TrackerInv, NEW c \in Visitors, NEW at \in Int
    PROVE  /\ Behaviour(entryLocked(c, at))
           /\ entryLocked(c, at).start = IF Running("beh", c, at) THEN ents["beh"][c].start ELSE at
           /\ entryLocked(c, at).reqs = IF Running("beh", c, at) THEN ents["beh"][c].reqs ELSE 0
<1>1. CASE Running("beh", c, at)
  <2>1. Behaviour(ents["beh"][c])
    BY <1>1 DEF Running, TrackerInv, TrackerTyped, EntsTyped, EntryOf, Trackers
  <2> QED BY <1>1, <2>1 DEF entryLocked
<1>2. CASE ~Running("beh", c, at)
  BY <1>2 DEF entryLocked, NoBehaviour, Behaviour
<1> QED BY <1>1, <1>2

\* A write leaves the window and the number of requests.
LEMMA WroteTyped ==
    ASSUME NEW e, Behaviour(e), NEW v
    PROVE  Behaviour(Wrote(e, v)) /\ Wrote(e, v).start = e.start /\ Wrote(e, v).reqs = e.reqs
  BY DEF Wrote, Behaviour

\* Record counts the request before the tracker is asked about it.
LEMMA RecordStep ==
    ASSUME TrackerInv, NEW g \in Callers, Record(g)
    PROVE  TrackerInv'
<1>0. PICK c \in Visitors : c = asked[g].client /\ asked[g].stage = "record" /\ asked[g] \in Asked /\ asked[g].scored
  BY AskedFields DEF Record, TrackerInv, TrackerTyped, CallsTyped, Asked, Asking
<1> DEFINE v == asked[g].visit
<1>1. CallsTyped
  BY DEF TrackerInv, TrackerTyped
<1> DEFINE old(at) == Wrote(entryLocked(c, at), v)
           new(at) == [old(at) EXCEPT
                         !.reqs = @ + 1,
                         !.uas = IF Cardinality(@) < maxTrackedUAs THEN @ \cup {v.ua} ELSE @,
                         !.paths = @ \cup {v.path},
                         !.seqHits = IF sequentialPath(old(at).lastPath, v.path) THEN @ + 1 ELSE @,
                         !.lastPath = v.path,
                         !.forgeHits = IF v.path \in Forge THEN @ + 1 ELSE @]
<1>2. PICK at \in Clock(g) :
        /\ ents' = [ents EXCEPT !.beh = PutEntry(ents.beh, c, new(at))]
        /\ MoveTo(g, "strikes", at) /\ Logged("beh", c, at, 0)
        /\ UNCHANGED <<settings, clock, events>>
  BY <1>0 DEF Record
<1>3. at \in Int /\ at <= clock
  BY ClockPast
<1>4. /\ Behaviour(old(at))
      /\ old(at).start = IF Running("beh", c, at) THEN ents["beh"][c].start ELSE at
      /\ old(at).reqs = IF Running("beh", c, at) THEN ents["beh"][c].reqs ELSE 0
  BY <1>3, EntryTyped, WroteTyped
<1> HIDE DEF old
<1>6. Behaviour(new(at)) /\ new(at).start = old(at).start /\ new(at).reqs = old(at).reqs + 1
  BY <1>4 DEF Behaviour
<1> DEFINE e == new(at)
<1>7. Behaviour(e) /\ e.start = old(at).start /\ e.reqs = old(at).reqs + 1
      /\ ents' = [ents EXCEPT !["beh"] = PutEntry(ents["beh"], c, e)]
  BY <1>2, <1>6
<1> HIDE DEF new, e
<1>8. CallsTyped' /\ Stay(g) /\ asked'[g].stage = "strikes" /\ asked'[g].client = c /\ asked'[g].scored = asked[g].scored
  BY <1>0, <1>1, <1>2, <1>3, CallsMoveTo DEF Asking
<1>9. /\ \A k \in Trackers, d \in Visitors : g \notin Between(k, d)
      /\ \A k \in Trackers, d \in Visitors : g \in Between(k, d)' => k = "beh" /\ d = c
  BY <1>0, <1>8 DEF Between, Past, Trackers
<1>10. Cardinality(Between("beh", c)') <= Cardinality(Between("beh", c)) + 1
  BY <1>8, Census, CensusNext, CensusMoves DEF Trackers
<1>11. ASSUME NEW k \in Trackers, NEW d \in Visitors, k # "beh" \/ d # c
       PROVE  Cardinality(Between(k, d)') <= Cardinality(Between(k, d))
  BY <1>8, <1>9, <1>11, Census, CensusMoves
<1>12. /\ e.start = IF Running("beh", c, at) THEN ents["beh"][c].start ELSE at
       /\ e.reqs = IF Running("beh", c, at) THEN ents["beh"][c].reqs + 1 ELSE 1
  BY <1>4, <1>7
<1> QED BY <1>2, <1>3, <1>7, <1>8, <1>10, <1>11, <1>12, BehaviourNoted

\* A strike counts no request and may begin a window.
LEMMA StrikeStep ==
    ASSUME TrackerInv, NEW c \in Visitors, Strike(c)
    PROVE  TrackerInv'
<1>1. clock \in Int /\ MaxLate \in Nat /\ CallsTyped
  BY TrackerNumbers DEF TrackerInv, TrackerTyped
<1> DEFINE new(at) == [entryLocked(c, at) EXCEPT !.strikes = @ + 1]
<1>2. PICK at \in (clock - MaxLate)..clock :
        /\ ents' = [ents EXCEPT !.beh = PutEntry(ents.beh, c, new(at))]
        /\ Logged("beh", c, at, 0)
        /\ UNCHANGED <<settings, clock, asked>>
  BY DEF Strike
<1>3. at \in Int /\ at <= clock
  BY <1>1
<1> DEFINE e == new(at)
<1>4. /\ Behaviour(e)
      /\ e.start = IF Running("beh", c, at) THEN ents["beh"][c].start ELSE at
      /\ e.reqs = IF Running("beh", c, at) THEN ents["beh"][c].reqs ELSE 0
  BY <1>3, EntryTyped DEF Behaviour
<1>5. ents' = [ents EXCEPT !["beh"] = PutEntry(ents["beh"], c, e)] /\ CallsTyped'
  BY <1>1, <1>2 DEF CallsTyped
<1> HIDE DEF new, e
<1>6. \A k \in Trackers, d \in Visitors : Between(k, d)' = Between(k, d)
  BY <1>2 DEF Between
<1>7. \A k \in Trackers, d \in Visitors : Cardinality(Between(k, d)') <= Cardinality(Between(k, d)) + 0
                                          /\ Cardinality(Between(k, d)') <= Cardinality(Between(k, d))
  BY <1>6, Census
<1>8. Running("beh", c, at) => ents["beh"][c].reqs \in Nat
  BY DEF Running, TrackerInv, TrackerTyped, EntsTyped, EntryOf, Trackers, Behaviour
<1>9. e.reqs = IF Running("beh", c, at) THEN ents["beh"][c].reqs + 0 ELSE 0
  BY <1>4, <1>8
<1> QED BY <1>2, <1>3, <1>4, <1>5, <1>7, <1>9, BehaviourNoted DEF Trackers

\* A request asks the behaviour tracker about strikes.
LEMMA StrikesExceededStep ==
    ASSUME TrackerInv, NEW g \in Callers, StrikesExceeded(g)
    PROVE  TrackerInv'
<1> DEFINE c0 == asked[g].client
<1>1. /\ CallsTyped /\ asked[g].stage = "strikes" /\ asked[g] \in Asked /\ c0 \in Visitors /\ asked[g].scored
      /\ "beh" \in Trackers /\ TrackerTyped
  BY AskedFields DEF StrikesExceeded, TrackerInv, TrackerTyped, CallsTyped, Asked, Asking, Trackers
<1>2. PICK at \in Clock(g) :
        /\ ents' = Purged("beh", c0, at)
        /\ Return(g) \/ MoveTo(g, "score", at)
        /\ UNCHANGED <<settings, clock, events, log>>
  BY DEF StrikesExceeded
<1>3. at \in Int /\ at <= clock /\ clock \in Int
  BY <1>1, ClockPast DEF TrackerTyped
<1>4. /\ CallsTyped' /\ Stay(g)
      /\ asked'[g].stage = "idle"
         \/ (asked'[g].stage = "score" /\ asked'[g].client = c0 /\ asked'[g].scored = asked[g].scored)
  <2>1. CASE Return(g)
    BY <1>1, <2>1, CallsReturn
  <2>2. CASE MoveTo(g, "score", at)
    BY <1>1, <1>3, <2>2, CallsMoveTo DEF Asking
  <2> QED BY <1>2, <2>1, <2>2
<1>5. /\ EntsTyped' /\ LogTyped'
      /\ \A k \in Trackers, c \in Visitors : k # "beh" \/ c # c0 => Held(k, c)
      /\ Running("beh", c0, at) => Held("beh", c0)
      /\ ~Running("beh", c0, at) => c0 \notin DOMAIN ents'["beh"]
  BY <1>1, <1>2, EntsPurged DEF TrackerTyped, LogTyped
<1>6. TrackerTyped'
  BY <1>1, <1>2, <1>4, <1>5 DEF TrackerTyped
<1>7. ASSUME NEW k \in Trackers, NEW c \in Visitors
      PROVE  Cardinality(Between(k, c)') <= Cardinality(Between(k, c))
  <2>1. g \in Between(k, c)' => g \in Between(k, c)
    BY <1>1, <1>4 DEF Between, Past, Trackers
  <2> QED BY <1>4, <2>1, Census, CensusNext, CensusMoves
<1>8. ASSUME NEW k \in Trackers, NEW c \in Visitors
      PROVE  Begun(k, c)' /\ Quota(k, c)'
  <2>1. CASE Held(k, c)
    BY <1>2, <1>3, <1>5, <1>7, <2>1, Framed
  <2>2. CASE ~Held(k, c)
    <3>1. k = "beh" /\ c = c0 /\ ~Running("beh", c0, at)
      BY <1>5, <2>2
    <3>2. MaxAge >= Window + MaxLate => clock - log[k][c].since > Window
      BY <1>3, <3>1, PastWindow
    <3>3. log[k][c].n \in Nat
      BY <1>1 DEF TrackerTyped, LogTyped
    <3>4. log'[k][c].n + Cardinality(Between(k, c)') <= log[k][c].n + Cardinality(Between(k, c))
      BY <1>2, <1>7, <3>3, Census, CensusNext
    <3> QED BY <1>2, <1>5, <3>1, <3>2, <3>4, Dropped
  <2> QED BY <2>1, <2>2
<1> QED BY <1>6, <1>8 DEF TrackerInv

\* A request that is let through by its score goes to this window's account.
LEMMA ScoredStep ==
    ASSUME TrackerInv, NEW g \in Callers, Scored(g)
    PROVE  TrackerInv'
<1>1. CallsTyped /\ "beh" \in Trackers /\ TrackerTyped
  BY DEF TrackerInv, TrackerTyped, Trackers
<1>2. PICK c0 \in Visitors : c0 = asked[g].client /\ asked[g].stage = "score" /\ asked[g] \in Asked /\ asked[g].scored
  BY <1>1, AskedFields DEF Scored, CallsTyped, Asked, Asking
<1> DEFINE refused(at) == Running("beh", c0, at) /\ Score(ents.beh[c0]) >= BlockScore
<1>3. PICK at \in Clock(g) :
        /\ ents' = Purged("beh", c0, at)
        /\ IF refused(at) THEN Return(g) /\ log' = log
                          ELSE MoveTo(g, "nf", at) /\ log' = [log EXCEPT !.beh[c0].n = @ + 1]
        /\ UNCHANGED <<settings, clock, events>>
  BY <1>2 DEF Scored
<1>4. at \in Int /\ at <= clock /\ clock \in Int
  BY <1>1, ClockPast DEF TrackerTyped
<1>5. /\ EntsTyped'
      /\ \A k \in Trackers, c \in Visitors : k # "beh" \/ c # c0 => Held(k, c)
      /\ Running("beh", c0, at) => Held("beh", c0)
      /\ ~Running("beh", c0, at) => c0 \notin DOMAIN ents'["beh"]
  BY <1>1, <1>3, EntsPurged DEF TrackerTyped
<1>6. CallsTyped' /\ Stay(g) /\ asked'[g].stage \in {"idle", "nf"}
  <2>1. CASE refused(at)
    BY <1>1, <1>3, <2>1, CallsReturn
  <2>2. CASE ~refused(at)
    BY <1>1, <1>2, <1>3, <1>4, <2>2, CallsMoveTo DEF Asking
  <2> QED BY <2>1, <2>2
<1>7. /\ \A k \in Trackers, c \in Visitors : g \notin Between(k, c)'
      /\ \A k \in Trackers, c \in Visitors : g \in Between(k, c) <=> k = "beh" /\ c = c0
  BY <1>2, <1>6 DEF Between, Past, Trackers
<1>8. /\ \A k \in Trackers, c \in Visitors : Cardinality(Between(k, c)') <= Cardinality(Between(k, c))
      /\ Cardinality(Between("beh", c0)') = Cardinality(Between("beh", c0)) - 1
  BY <1>1, <1>6, <1>7, Census, CensusNext, CensusMoves
<1>9. CASE refused(at)
  <2>1. log' = log /\ LogTyped' /\ Held("beh", c0)
    BY <1>1, <1>3, <1>5, <1>9 DEF TrackerTyped, LogTyped
  <2>2. TrackerTyped'
    BY <1>1, <1>3, <1>5, <1>6, <2>1 DEF TrackerTyped
  <2>3. ASSUME NEW k \in Trackers, NEW c \in Visitors
        PROVE  Begun(k, c)' /\ Quota(k, c)'
    BY <1>3, <1>4, <1>5, <1>8, <2>1, Framed
  <2> QED BY <2>2, <2>3 DEF TrackerInv
<1>10. CASE ~refused(at)
  <2>1. log["beh"][c0] \in [since : Int, n : Nat]
    BY <1>1 DEF TrackerTyped, LogTyped
  <2>2. /\ LogTyped'
        /\ \A k \in Trackers, c \in Visitors : k # "beh" \/ c # c0 => log'[k][c] = log[k][c]
        /\ log'["beh"][c0].since = log["beh"][c0].since /\ log'["beh"][c0].n = log["beh"][c0].n + 1
    <3> DEFINE r == [log["beh"][c0] EXCEPT !.n = log["beh"][c0].n + 1]
    <3>1. r \in [since : Int, n : Nat] /\ r.since = log["beh"][c0].since /\ r.n = log["beh"][c0].n + 1
      BY <2>1
    <3>2. log' = [log EXCEPT !["beh"][c0] = r]
      BY <1>1, <1>3, <1>10, <2>1 DEF TrackerTyped, LogTyped
    <3> HIDE DEF r
    <3> QED BY <1>1, <3>1, <3>2 DEF TrackerTyped, LogTyped
  <2>3. TrackerTyped'
    BY <1>1, <1>3, <1>5, <1>6, <2>2 DEF TrackerTyped
  <2>4. ASSUME NEW k \in Trackers, NEW c \in Visitors, k # "beh" \/ c # c0
        PROVE  Begun(k, c)' /\ Quota(k, c)'
    BY <1>3, <1>4, <1>5, <1>8, <2>2, <2>4, Framed
  <2>5. CASE Running("beh", c0, at)
    <3>1. c0 \in DOMAIN ents["beh"] /\ Behaviour(ents["beh"][c0]) /\ Held("beh", c0)
      BY <1>1, <1>5, <2>5 DEF Running, TrackerTyped, EntsTyped, EntryOf
    <3>2. c0 \in DOMAIN ents'["beh"] /\ ents'["beh"][c0] = ents["beh"][c0] /\ ents["beh"][c0].reqs \in Nat
      BY <3>1 DEF Held, Behaviour
    <3>3. Begun("beh", c0)'
      <4>1. Begun("beh", c0)
        BY <1>1 DEF TrackerInv
      <4> QED BY <2>2, <3>1, <3>2, <4>1 DEF Begun
    <3>4. IsLimit("beh") => ents["beh"][c0].reqs < Threshold["beh"]
      BY <1>1, <1>10, <2>5, <3>1, PassedBelow DEF TrackerTyped
    <3>5. Quota("beh", c0)'
      BY <1>1, <1>3, <1>5, <1>8, <2>2, <3>1, <3>2, <3>4, QuotaIs
    <3> QED BY <2>3, <2>4, <3>3, <3>5 DEF TrackerInv
  <2>6. CASE ~Running("beh", c0, at)
    <3>1. MaxAge >= Window + MaxLate => clock - log["beh"][c0].since > Window
      BY <1>1, <1>4, <2>6, PastWindow
    <3>2. log'["beh"][c0].n + Cardinality(Between("beh", c0)') <= log["beh"][c0].n + Cardinality(Between("beh", c0))
      BY <1>1, <1>8, <2>1, <2>2, Census
    <3>3. Begun("beh", c0)' /\ Quota("beh", c0)'
      BY <1>1, <1>3, <1>5, <2>2, <2>6, <3>1, <3>2, Dropped
    <3> QED BY <2>3, <2>4, <3>3 DEF TrackerInv
  <2> QED BY <2>5, <2>6
<1> QED BY <1>9, <1>10

\* One of the other trackers is asked: a request that passes finds less than
\* the threshold counted, and everyone in flight may still follow it.
LEMMA AskStep ==
    ASSUME TrackerInv, NEW g \in Callers, NEW k0 \in {"nf", "pen"}, NEW next,
           next = IF k0 = "nf" THEN "pen" ELSE "respond", Ask(g, k0, next)
    PROVE  TrackerInv'
<1>1. CallsTyped /\ k0 \in Trackers /\ k0 # "beh" /\ TrackerTyped
  BY DEF TrackerInv, TrackerTyped, Trackers
<1>2. PICK c0 \in Visitors : c0 = asked[g].client /\ asked[g].stage = k0 /\ asked[g] \in Asked /\ asked[g].scored
  BY <1>1, AskedFields DEF Ask, CallsTyped, Asked, Asking
<1>3. PICK at \in Clock(g) :
        /\ ents' = Purged(k0, c0, at)
        /\ IF Exceeded(k0, c0, at) /\ k0 \in settings.refusing THEN Return(g) ELSE MoveTo(g, next, at)
        /\ UNCHANGED <<settings, clock, events, log>>
  BY <1>2 DEF Ask
<1>4. at \in Int /\ at <= clock /\ clock \in Int
  BY <1>1, ClockPast DEF TrackerTyped
<1>5. /\ EntsTyped' /\ LogTyped'
      /\ \A k \in Trackers, c \in Visitors : k # k0 \/ c # c0 => Held(k, c)
      /\ Running(k0, c0, at) => Held(k0, c0)
      /\ ~Running(k0, c0, at) => c0 \notin DOMAIN ents'[k0]
  BY <1>1, <1>3, EntsPurged DEF TrackerTyped, LogTyped
<1>6. /\ CallsTyped' /\ Stay(g)
      /\ \/ asked'[g].stage = "idle" /\ Exceeded(k0, c0, at)
         \/ /\ asked'[g].stage = next /\ asked'[g].client = c0 /\ asked'[g].scored
            /\ ~(Exceeded(k0, c0, at) /\ k0 \in settings.refusing)
  <2>1. CASE Exceeded(k0, c0, at) /\ k0 \in settings.refusing
    BY <1>1, <1>3, <2>1, CallsReturn
  <2>2. CASE ~(Exceeded(k0, c0, at) /\ k0 \in settings.refusing)
    BY <1>1, <1>2, <1>3, <1>4, <2>2, CallsMoveTo DEF Asking
  <2> QED BY <2>1, <2>2
<1>7. TrackerTyped'
  BY <1>1, <1>3, <1>5, <1>6 DEF TrackerTyped
<1>8. ASSUME NEW k \in Trackers, NEW c \in Visitors, k # k0 \/ c # c0
      PROVE  Cardinality(Between(k, c)') <= Cardinality(Between(k, c))
  <2>1. g \in Between(k, c)' => g \in Between(k, c)
    BY <1>2, <1>6, <1>8 DEF Between, Past, Trackers
  <2> QED BY <1>6, <2>1, Census, CensusNext, CensusMoves
<1>9. ASSUME NEW k \in Trackers, NEW c \in Visitors, k # k0 \/ c # c0
      PROVE  Begun(k, c)' /\ Quota(k, c)'
  BY <1>3, <1>4, <1>5, <1>8, <1>9, Framed
<1>10. CASE ~Running(k0, c0, at)
  <2>1. MaxAge >= Window + MaxLate => clock - log[k0][c0].since > Window
    BY <1>1, <1>4, <1>10, PastWindow
  <2>2. Begun(k0, c0)' /\ Quota(k0, c0)'
    BY <1>1, <1>3, <1>5, <1>10, <2>1, Dropped
  <2> QED BY <1>7, <1>9, <2>2 DEF TrackerInv
<1>11. CASE Running(k0, c0, at)
  <2>1. c0 \in DOMAIN ents[k0] /\ Answers(ents[k0][c0]) /\ Held(k0, c0)
    BY <1>1, <1>5, <1>11 DEF Running, TrackerTyped, EntsTyped, EntryOf
  <2>2. c0 \in DOMAIN ents'[k0] /\ ents'[k0][c0] = ents[k0][c0] /\ ents[k0][c0].count \in Nat
    BY <2>1 DEF Held, Answers
  <2>3. Begun(k0, c0)'
    <3>1. Begun(k0, c0)
      BY <1>1 DEF TrackerInv
    <3> QED BY <1>3, <2>1, <2>2, <3>1 DEF Begun
  <2>4. Threshold[k0] \in Int
    BY <1>1, Thresholds DEF TrackerTyped
  <2>5. CASE asked'[g].stage = "idle"
    <3>1. g \notin Between(k0, c0)'
      BY <1>1, <2>5, IdleNowhere
    <3>2. Cardinality(Between(k0, c0)') <= Cardinality(Between(k0, c0))
      BY <1>1, <1>6, <3>1, Census, CensusNext, CensusMoves
    <3>3. Quota(k0, c0)'
      BY <1>1, <1>3, <1>4, <1>5, <2>1, <3>2, Framed
    <3> QED BY <1>7, <1>9, <2>3, <3>3 DEF TrackerInv
  <2>6. CASE ~(Exceeded(k0, c0, at) /\ k0 \in settings.refusing)
    <3>1. IsLimit(k0) => ents[k0][c0].count < Threshold[k0]
      BY <1>1, <1>11, <2>2, <2>4, <2>6 DEF IsLimit, Exceeded
    <3>2. Quota(k0, c0)'
      BY <1>1, <1>3, <1>5, <2>1, <2>2, <3>1, QuotaIs
    <3> QED BY <1>7, <1>9, <2>3, <3>2 DEF TrackerInv
  <2> QED BY <1>6, <2>5, <2>6
<1> QED BY <1>10, <1>11

\* An answer is counted: what was let through becomes what is counted.
LEMMA CountStep ==
    ASSUME TrackerInv, NEW g \in Callers, NEW k0 \in {"nf", "pen"}, NEW at \in Clock(g),
           asked[g].stage = IF k0 = "nf" THEN "answered" ELSE "counted",
           Count(g, k0, at), IF k0 = "nf" THEN MoveTo(g, "counted", at) ELSE Return(g)
    PROVE  TrackerInv'
<1>1. CallsTyped /\ k0 \in Trackers /\ k0 # "beh" /\ TrackerTyped
  BY DEF TrackerInv, TrackerTyped, Trackers
<1>2. PICK c0 \in Visitors : c0 = asked[g].client /\ asked[g] \in Asked /\ asked[g].scored \in BOOLEAN
  BY <1>1, AskedFields DEF CallsTyped, Asked, Asking
<1>3. at \in Int /\ at <= clock /\ clock \in Int /\ settings' = settings /\ clock' = clock
  BY <1>1, ClockPast DEF TrackerTyped, Count
<1>4. /\ CallsTyped' /\ Stay(g)
      /\ \/ k0 = "pen" /\ asked'[g].stage = "idle"
         \/ k0 = "nf" /\ asked'[g].stage = "counted" /\ asked'[g].client = c0 /\ asked'[g].scored = asked[g].scored
  <2>1. CASE k0 = "nf"
    BY <1>1, <1>2, <1>3, <2>1, CallsMoveTo DEF Asking
  <2>2. CASE k0 = "pen"
    BY <1>1, <2>2, CallsReturn
  <2> QED BY <2>1, <2>2
<1>5. /\ \A k \in Trackers, c \in Visitors : g \in Between(k, c)' => g \in Between(k, c)
      /\ g \notin Between(k0, c0)' /\ (g \in Between(k0, c0) <=> asked[g].scored)
  BY <1>1, <1>2, <1>4 DEF Between, Past, Trackers
<1> DEFINE s == IF asked[g].scored THEN 1 ELSE 0
<1>6. /\ \A k \in Trackers, c \in Visitors : Cardinality(Between(k, c)') <= Cardinality(Between(k, c))
      /\ Cardinality(Between(k0, c0)') = Cardinality(Between(k0, c0)) - s
  BY <1>1, <1>2, <1>4, <1>5, Census, CensusNext, CensusMoves
<1>7. CASE ~Counts(k0, asked[g].status)
  <2>1. ents' = ents /\ log' = log
    BY <1>7 DEF Count
  <2> QED BY <1>3, <1>4, <1>5, <2>1, QuietStep
<1>8. CASE Counts(k0, asked[g].status)
  <2> DEFINE e == IF Running(k0, c0, at) THEN [ents[k0][c0] EXCEPT !.count = @ + 1] ELSE [count |-> 1, start |-> at]
  <2>1. ents' = [ents EXCEPT ![k0] = PutEntry(ents[k0], c0, e)] /\ Logged(k0, c0, at, s)
    BY <1>2, <1>8 DEF Count
  <2>2. Running(k0, c0, at) => c0 \in DOMAIN ents[k0] /\ Answers(ents[k0][c0])
    BY <1>1 DEF Running, TrackerTyped, EntsTyped, EntryOf
  <2>3. /\ EntryOf(k0, e)
        /\ e.start = IF Running(k0, c0, at) THEN ents[k0][c0].start ELSE at
        /\ e.count = IF Running(k0, c0, at) THEN ents[k0][c0].count + 1 ELSE 1
    BY <1>1, <1>3, <2>2 DEF EntryOf, Answers
  <2> HIDE DEF e
  <2>4. /\ EntsTyped' /\ c0 \in DOMAIN ents'[k0] /\ ents'[k0][c0] = e
        /\ \A k \in Trackers, c \in Visitors : k # k0 \/ c # c0 => Held(k, c)
    BY <1>1, <2>1, <2>3, EntsPut DEF TrackerTyped
  <2>5. s \in {0, 1} /\ s \in Nat
    OBVIOUS
  <2> HIDE DEF s
  <2>6. /\ LogTyped'
        /\ \A k \in Trackers, c \in Visitors : k # k0 \/ c # c0 => log'[k][c] = log[k][c]
        /\ log'[k0][c0] = IF ~Running(k0, c0, at) /\ clock - log[k0][c0].since > Window
                          THEN [since |-> at, n |-> s]
                          ELSE [since |-> log[k0][c0].since, n |-> log[k0][c0].n + s]
    BY <1>1, <1>3, <2>1, <2>5, LogPut
  <2>7. TrackerTyped'
    BY <1>1, <1>3, <1>4, <2>4, <2>6 DEF TrackerTyped
  <2>8. ASSUME NEW k \in Trackers, NEW c \in Visitors, k # k0 \/ c # c0
        PROVE  Begun(k, c)' /\ Quota(k, c)'
    BY <1>3, <1>6, <2>4, <2>6, <2>8, Framed
  <2>9. CASE Running(k0, c0, at)
    <3>1. log'[k0][c0].since = log[k0][c0].since /\ log'[k0][c0].n = log[k0][c0].n + s
      BY <2>6, <2>9
    <3>2. Begun(k0, c0)'
      <4>1. Begun(k0, c0)
        BY <1>1 DEF TrackerInv
      <4> QED BY <2>2, <2>3, <2>4, <2>9, <3>1, <4>1 DEF Begun
    <3>3. ents[k0][c0].count \in Nat /\ ents'[k0][c0].count = ents[k0][c0].count + 1
      BY <2>2, <2>3, <2>4, <2>9 DEF Answers
    <3>4. Quota(k0, c0)'
      BY <1>1, <1>3, <1>6, <2>2, <2>4, <2>5, <2>6, <2>9, <3>1, <3>3, QuotaIs
    <3> QED BY <2>7, <2>8, <3>2, <3>4 DEF TrackerInv
  <2>10. CASE ~Running(k0, c0, at)
    <3>1. MaxAge >= Window + MaxLate => log'[k0][c0] = [since |-> at, n |-> s]
      BY <1>1, <1>3, <2>6, <2>10, PastWindow
    <3>2. Begun(k0, c0)'
      BY <2>3, <2>4, <2>10, <3>1 DEF Begun
    <3>3. IsLimit(k0) => log'[k0][c0].n = s
      BY <3>1 DEF IsLimit
    <3>4. ents'[k0][c0].count = 1
      BY <2>3, <2>4, <2>10
    <3>5. Quota(k0, c0)'
      BY <1>1, <1>3, <1>6, <2>4, <2>5, <2>6, <3>3, <3>4, QuotaIs
    <3> QED BY <2>7, <2>8, <3>2, <3>5 DEF TrackerInv
  <2> QED BY <2>9, <2>10
<1> QED BY <1>7, <1>8

\* A sweep deletes only entries whose windows are over, if entries are kept
\* for longer than a window.
LEMMA SweepClientStep ==
    ASSUME TrackerInv, NEW k0 \in Trackers, NEW c0 \in Visitors, SweepClient(k0, c0)
    PROVE  TrackerInv'
<1>1. /\ TrackerTyped /\ clock \in Int /\ Window \in Nat /\ MaxAge \in Nat /\ MaxLate \in Nat
      /\ settings' = settings /\ clock' = clock /\ log' = log /\ asked' = asked
  BY TrackerNumbers DEF TrackerInv, TrackerTyped, SweepClient
<1>2. /\ EntsTyped' /\ c0 \notin DOMAIN ents'[k0]
      /\ \A k \in Trackers, c \in Visitors : k # k0 \/ c # c0 => Held(k, c)
  BY <1>1, EntsDrop DEF TrackerTyped, SweepClient
<1>3. TrackerTyped' /\ LogTyped'
  BY <1>1, <1>2 DEF TrackerTyped, CallsTyped, LogTyped
<1>4. ASSUME NEW k \in Trackers, NEW c \in Visitors
      PROVE  Cardinality(Between(k, c)') <= Cardinality(Between(k, c))
  <2>1. Between(k, c)' = Between(k, c)
    BY <1>1 DEF Between
  <2> QED BY <2>1, Census
<1>5. ASSUME NEW k \in Trackers, NEW c \in Visitors, k # k0 \/ c # c0
      PROVE  Begun(k, c)' /\ Quota(k, c)'
  BY <1>1, <1>2, <1>3, <1>4, <1>5, Framed
<1>6. MaxAge >= Window + MaxLate => clock - log[k0][c0].since > Window
  <2>1. PICK at \in (clock - MaxLate)..clock : c0 \in DOMAIN ents[k0] /\ ents[k0][c0].start < at - MaxAge
    BY DEF SweepClient, Stale
  <2>2. ents[k0][c0].start \in Int
    BY <1>1, <2>1 DEF TrackerTyped, EntsTyped, EntryOf, Behaviour, Answers
  <2>3. MaxAge >= Window + MaxLate => ents[k0][c0].start = log[k0][c0].since
    BY <2>1 DEF TrackerInv, Begun
  <2> QED BY <1>1, <2>1, <2>2, <2>3
<1>7. log[k0][c0].n \in Nat
  BY <1>1 DEF TrackerTyped, LogTyped
<1>8. log'[k0][c0].n + Cardinality(Between(k0, c0)') <= log[k0][c0].n + Cardinality(Between(k0, c0))
  BY <1>1, <1>4, <1>7, Census, CensusNext
<1>9. Begun(k0, c0)' /\ Quota(k0, c0)'
  BY <1>1, <1>2, <1>3, <1>6, <1>8, Dropped
<1> QED BY <1>3, <1>5, <1>9 DEF TrackerInv

\* Nothing happens.
LEMMA TrackersIdle ==
    ASSUME TrackerInv, UNCHANGED trackerVars
    PROVE  TrackerInv'
<1>1. settings' = settings /\ clock' = clock /\ ents' = ents /\ asked' = asked /\ log' = log
  BY DEF trackerVars
<1>2. TrackerTyped /\ clock \in Int
  BY DEF TrackerInv, TrackerTyped
<1>3. /\ EntsTyped' /\ LogTyped' /\ CallsTyped'
      /\ \A k \in Trackers, c \in Visitors : Held(k, c)
  BY <1>1, <1>2, EntsSame DEF TrackerTyped, LogTyped, CallsTyped
<1>4. ASSUME NEW k \in Trackers, NEW c \in Visitors
      PROVE  Begun(k, c)' /\ Quota(k, c)'
  <2>1. Between(k, c)' = Between(k, c)
    BY <1>1 DEF Between
  <2>2. Cardinality(Between(k, c)') <= Cardinality(Between(k, c))
    BY <2>1, Census
  <2> QED BY <1>1, <1>2, <1>3, <2>2, Framed
<1> QED BY <1>1, <1>2, <1>3, <1>4 DEF TrackerInv, TrackerTyped

\* At the start there is no entry, nothing was let through and the last window
\* is over.
LEMMA TrackersInitInv ==
    ASSUME TrackersInit
    PROVE  TrackerInv
<1>1. DOMAIN ents = Trackers /\ \A k \in Trackers : DOMAIN ents[k] = {}
  BY DEF TrackersInit, Trackers
<1>2. clock = 1 /\ settings \in Settings /\ Window \in Nat /\ -Window \in Int
  BY TrackerNumbers DEF TrackersInit
<1>3. log = [k \in Trackers |-> [c \in Visitors |-> [since |-> -Window, n |-> 0]]]
  BY <1>1 DEF TrackersInit
<1>4. asked = [g \in Callers |-> NotAsked]
  BY DEF TrackersInit
<1>5. LogTyped
  BY <1>2, <1>3 DEF LogTyped
<1>6. TrackerTyped
  BY <1>1, <1>2, <1>4, <1>5 DEF TrackerTyped, EntsTyped, CallsTyped, NotAsked, Asking
<1>7. ASSUME NEW k \in Trackers, NEW c \in Visitors
      PROVE  Begun(k, c) /\ Quota(k, c)
  <2>1. log[k][c].since = -Window /\ log[k][c].n = 0 /\ c \notin DOMAIN ents[k]
    BY <1>1, <1>3
  <2>2. Between(k, c) = {}
    BY <1>4 DEF Between, Past, NotAsked, Trackers
  <2>3. Cardinality(Between(k, c)) = 0
    BY <2>2, FS_EmptySet
  <2>4. Threshold[k] \in Int /\ Threshold[k] >= 1 /\ Cardinality(Callers) \in Nat
    BY <1>2, Thresholds, TrackerNumbers
  <2>5. Begun(k, c)
    BY <1>2, <2>1 DEF Begun
  <2>6. CASE k = "beh"
    BY <2>1, <2>3, <2>4, <2>5, <2>6 DEF Quota, Behaved
  <2>7. CASE k # "beh"
    BY <2>1, <2>4, <2>5, <2>7 DEF Quota, Answered
  <2> QED BY <2>6, <2>7
<1> QED BY <1>6, <1>7 DEF TrackerInv

\* Every step of the trackers keeps the invariant.
LEMMA TrackersNextInv ==
    ASSUME TrackerInv, [TrackersNext]_(trackerVars)
    PROVE  TrackerInv'
<1>1. ASSUME NEW g \in Callers, NEW c \in Visitors, NEW v \in Visits, NEW s \in BOOLEAN, Enter(g, c, v, s)
      PROVE  TrackerInv'
  BY <1>1, ArriveStep
<1>2. ASSUME NEW g \in Callers, Exit(g)
      PROVE  TrackerInv'
  BY <1>2, LeaveStep
<1>3. ASSUME NEW g \in Callers, Record(g)
      PROVE  TrackerInv'
  BY <1>3, RecordStep
<1>4. ASSUME NEW g \in Callers, StrikesExceeded(g)
      PROVE  TrackerInv'
  BY <1>4, StrikesExceededStep
<1>5. ASSUME NEW g \in Callers, Scored(g)
      PROVE  TrackerInv'
  BY <1>5, ScoredStep
<1>6. ASSUME NEW g \in Callers, NotFoundExceeded(g)
      PROVE  TrackerInv'
  BY <1>6, AskStep DEF NotFoundExceeded
<1>7. ASSUME NEW g \in Callers, PenaltyExceeded(g)
      PROVE  TrackerInv'
  BY <1>7, AskStep DEF PenaltyExceeded
<1>8. ASSUME NEW g \in Callers, NotFoundRecord(g)
      PROVE  TrackerInv'
  <2>1. PICK at \in Clock(g) : Count(g, "nf", at) /\ MoveTo(g, "counted", at)
    BY <1>8 DEF NotFoundRecord
  <2>2. asked[g].stage = "answered"
    BY <1>8 DEF NotFoundRecord
  <2> QED BY <2>1, <2>2, CountStep
<1>9. ASSUME NEW g \in Callers, PenaltyRecord(g)
      PROVE  TrackerInv'
  <2>1. PICK at \in Clock(g) : Count(g, "pen", at) /\ Return(g)
    BY <1>9 DEF PenaltyRecord
  <2>2. asked[g].stage = "counted"
    BY <1>9 DEF PenaltyRecord
  <2> QED BY <2>1, <2>2, CountStep
<1>10. ASSUME NEW g \in Callers, NEW s \in Statuses, Respond(g, s)
       PROVE  TrackerInv'
  BY <1>10, RespondStep
<1>11. ASSUME NEW c \in Visitors, Strike(c)
       PROVE  TrackerInv'
  BY <1>11, StrikeStep
<1>12. ASSUME NEW c \in Visitors, NEW k \in DOMAIN ents, SweepClient(k, c)
       PROVE  TrackerInv'
  <2>1. k \in Trackers
    BY <1>12 DEF TrackerInv, TrackerTyped, EntsTyped
  <2> QED BY <1>12, <2>1, SweepClientStep
<1>13. CASE ClockTick
  BY <1>13, TickStep
<1>14. CASE UNCHANGED trackerVars
  BY <1>14, TrackersIdle
<1> QED BY <1>1, <1>2, <1>3, <1>4, <1>5, <1>6, <1>7, <1>8, <1>9, <1>10, <1>11, <1>12, <1>13, <1>14 DEF TrackersNext

----------------------------------------------------------------------------
(* Trackers: the theorems *)

\* In every state of the trackers the entries and the history agree, and what
\* is in flight fits under the thresholds.
THEOREM TrackerInvariance ==
    TrackersSpec => []TrackerInv
<1>1. TrackersInit => TrackerInv
  BY TrackersInitInv
<1>2. TrackerInv /\ [TrackersNext]_(trackerVars) => TrackerInv'
  BY TrackersNextInv
<1> QED BY <1>1, <1>2, PTL DEF TrackersSpec

\* No client gets further against a tracker of internal/detect than its
\* threshold and the requests in flight, however late the clocks of the
\* methods are and whatever the sweepers delete.
THEOREM WindowsAreKept ==
    TrackersSpec => []WindowsHold
<1>1. TrackerInv => WindowsHold
  <2> SUFFICES ASSUME TrackerInv, NEW k \in DOMAIN ents, IsLimit(k), NEW c \in Visitors
               PROVE  log[k][c].n <= Threshold[k] - 1 + Slack(k)
    BY DEF WindowsHold
  <2>1. k \in Trackers /\ settings \in Settings /\ log[k][c].n \in Nat
    BY DEF TrackerInv, TrackerTyped, EntsTyped, LogTyped
  <2>2. Slack(k) = IF k = "beh" THEN 2 * Cardinality(Callers) ELSE Cardinality(Callers)
    BY DEF Slack
  <2>3. Threshold[k] \in Int /\ Cardinality(Callers) \in Nat /\ Cardinality(Between(k, c)) \in Nat
    BY <2>1, Thresholds, TrackerNumbers, Census
  <2>4. CASE k = "beh"
    <3>1. Behaved(c)
      BY <2>1, <2>4 DEF TrackerInv, Quota
    <3> QED BY <2>1, <2>2, <2>3, <2>4, <3>1 DEF Behaved
  <2>5. CASE k # "beh"
    <3>1. Answered(k, c)
      BY <2>1, <2>5 DEF TrackerInv, Quota
    <3> QED BY <2>1, <2>2, <2>3, <2>5, <3>1 DEF Answered
  <2> QED BY <2>4, <2>5
<1> QED BY <1>1, TrackerInvariance, PTL
=============================================================================
