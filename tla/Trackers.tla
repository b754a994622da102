------------------------------ MODULE Trackers ------------------------------
(***************************************************************************)
(* The counters guard keeps of a client's past (internal/detect): missing  *)
(* pages (NotFoundTracker), expensive responses (PenaltyTracker) and       *)
(* behaviour (BehaviorTracker).  Each keeps one entry per client for a     *)
(* window of time that begins with the first event; guard asks them before *)
(* it lets a request through, and proxy tells them how it was answered.    *)
(*                                                                         *)
(* Every method reads the clock and then waits for the shard's mutex, so   *)
(* that it may carry a time up to MaxLag old.  A path is a model value:    *)
(* Follows, Forum and Forge say what the string tests make of it.          *)
(***************************************************************************)
EXTENDS Integers, FiniteSets

CONSTANTS
    Visitors,    \* bind keys
    Callers,     \* requests in flight
    Visits,      \* requests as the trackers see them: [path, write, ua]
    Statuses,    \* upstream answers
    Follows,     \* the path that continues a path with a number at its end
    Forum,       \* paths with a segment that attracts spam
    Forge,       \* paths that are expensive on a code forge
    Settings,    \* configurations: thresholds nf and pen, the limits and the points
                 \* of BehaviorConfig, and the trackers whose action is block or tarpit
    BlockScore,  \* detect.block_score
    Window,      \* length of the windows
    MaxAge,      \* retention passed to the sweepers
    MaxLate,     \* how old the clock of a method may be
    MaxClock,    \* bound: the clock stops here
    MaxEvents,   \* bound: requests and failed challenges
    NoPath       \* no path yet

VARIABLES
    settings,    \* the configuration, read at the start
    clock,       \* the wall clock
    ents,        \* the entries of the trackers, by client
    asked,       \* the requests in flight
    events,      \* requests and failed challenges so far
    log          \* history: what the trackers let through in the window that
                 \* began at since, by tracker and client

trackerVars == <<settings, clock, ents, asked, events, log>>

----------------------------------------------------------------------------
\* A threshold that is not positive gets the default.
NewNotFoundTracker == IF settings.nf <= 0 THEN 20 ELSE settings.nf
NewPenaltyTracker == IF settings.pen <= 0 THEN 30 ELSE settings.pen

DefaultLimits ==
    [burst |-> 60, fanout |-> 40, strike |-> 3, write |-> 20, repeat |-> 8, forge |-> 24, ua |-> 4]

NewBehaviorTracker ==
    [f \in DOMAIN DefaultLimits |-> IF settings.limits[f] <= 0 THEN DefaultLimits[f] ELSE settings.limits[f]]

Threshold == [nf |-> NewNotFoundTracker, pen |-> NewPenaltyTracker, beh |-> NewBehaviorTracker.burst]

ASSUME TrackerConstants ==
    /\ IsFiniteSet(Callers)
    /\ {Window, MaxAge, MaxLate, MaxClock, MaxEvents} \subseteq Nat /\ BlockScore \in Int
    /\ \A s \in Settings :
         /\ s.nf \in Int /\ s.pen \in Int
         /\ \A f \in DOMAIN DefaultLimits : s.limits[f] \in Int /\ s.points[f] \in Int

NotAsked == [stage |-> "idle", at |-> 0]

\* The clocks a method of g may carry: the goroutine's own clock never goes back.
Clock(g) == {t \in (clock - MaxLate)..clock : t >= asked[g].at}

Running(k, c, at) == c \in DOMAIN ents[k] /\ at - ents[k][c].start <= Window

PutEntry(f, c, e) == [d \in DOMAIN f \cup {c} |-> IF d = c THEN e ELSE f[d]]

Drop(f, c) == [d \in DOMAIN f \ {c} |-> f[d]]

\* What a look at c leaves of tracker k: an entry whose window is over is deleted.
Purged(k, c, at) ==
    IF Running(k, c, at) THEN ents ELSE [ents EXCEPT ![k] = Drop(ents[k], c)]

\* An entry is used with clock at, and n requests are let through with it.  The
\* history starts over when a new entry starts and the last window is past.
Logged(k, c, at, n) ==
    LET over == ~Running(k, c, at) /\ clock - log[k][c].since > Window IN
    log' = [log EXCEPT ![k][c] = IF over THEN [since |-> at, n |-> n] ELSE [since |-> @.since, n |-> @.n + n]]

MoveTo(g, s, at) == asked' = [asked EXCEPT ![g].stage = s, ![g].at = at]
Return(g) == asked' = [asked EXCEPT ![g] = NotAsked]

----------------------------------------------------------------------------
TrackersInit ==
    /\ settings \in Settings
    /\ clock = 1
    /\ ents = [nf |-> <<>>, pen |-> <<>>, beh |-> <<>>]
    /\ asked = [g \in Callers |-> NotAsked]
    /\ events = 0
    /\ log = [k \in DOMAIN ents |-> [c \in Visitors |-> [since |-> -Window, n |-> 0]]]

\* A request comes in.  Those of the allowlist and of git are not scored, and
\* their answers count all the same.
Enter(g, c, v, scored) ==
    /\ asked[g] = NotAsked /\ events < MaxEvents
    /\ events' = events + 1
    /\ asked' = [asked EXCEPT ![g] = [stage |-> IF scored THEN "record" ELSE "respond", at |-> 0,
                                      client |-> c, visit |-> v, scored |-> scored, status |-> 0]]
    /\ UNCHANGED <<settings, clock, ents, log>>

\* Any other part of guard may answer the request itself, and what proxy
\* answers to a stream is not recorded.
Exit(g) ==
    /\ asked[g].stage \in {"strikes", "nf", "respond"}
    /\ Return(g)
    /\ UNCHANGED <<settings, clock, ents, events, log>>

sequentialPath(prev, cur) == prev # NoPath /\ prev # cur /\ Follows[prev] = cur

NoBehaviour(at) ==
    [start |-> at, reqs |-> 0, writes |-> 0, paths |-> {}, uas |-> {}, strikes |-> 0, lastPath |-> NoPath,
     seqHits |-> 0, lastWritePath |-> NoPath, samePathWrite |-> 0, forgeHits |-> 0]

entryLocked(c, at) == IF Running("beh", c, at) THEN ents.beh[c] ELSE NoBehaviour(at)

maxTrackedUAs == 64

\* The writes of a client: only those to spam-prone paths are compared.
Wrote(e, v) ==
    IF ~v.write THEN e
    ELSE [e EXCEPT !.writes = @ + 1,
                   !.lastWritePath = IF v.path \in Forum THEN v.path ELSE NoPath,
                   !.samePathWrite = IF v.path \notin Forum THEN 0
                                     ELSE IF v.path = e.lastWritePath THEN @ + 1 ELSE 1]

\* BehaviorTracker.Record
Record(g) ==
    \E at \in Clock(g) :
      LET c == asked[g].client  v == asked[g].visit
          e == Wrote(entryLocked(c, at), v) IN
      /\ asked[g].stage = "record"
      /\ ents' = [ents EXCEPT !.beh = PutEntry(ents.beh, c,
                   [e EXCEPT !.reqs = @ + 1,
                             !.uas = IF Cardinality(@) < maxTrackedUAs THEN @ \cup {v.ua} ELSE @,
                             !.paths = @ \cup {v.path},
                             !.seqHits = IF sequentialPath(e.lastPath, v.path) THEN @ + 1 ELSE @,
                             !.lastPath = v.path,
                             !.forgeHits = IF v.path \in Forge THEN @ + 1 ELSE @])]
      /\ MoveTo(g, "strikes", at)
      /\ Logged("beh", c, at, 0)
      /\ UNCHANGED <<settings, clock, events>>

\* BehaviorTracker.StrikesExceeded: the request is refused and the client banned.
StrikesExceeded(g) ==
    \E at \in Clock(g) :
      LET c == asked[g].client IN
      /\ asked[g].stage = "strikes"
      /\ ents' = Purged("beh", c, at)
      /\ IF Running("beh", c, at) /\ ents.beh[c].strikes >= NewBehaviorTracker.strike
           THEN Return(g) ELSE MoveTo(g, "score", at)
      /\ UNCHANGED <<settings, clock, events, log>>

\* Points that are not positive add nothing.
Adds(f, reached) == IF reached /\ settings.points[f] > 0 THEN settings.points[f] ELSE 0

\* BehaviorTracker.Score: the points of every kind of behaviour at its limit.
Score(e) ==
    LET lim == NewBehaviorTracker IN
      Adds("burst", e.reqs >= lim.burst)
        + Adds("fanout", Cardinality(e.paths) >= lim.fanout) + Adds("fanout", e.seqHits >= 8) \div 2
        + Adds("write", e.writes >= lim.write) + Adds("repeat", e.samePathWrite >= lim.repeat)
        + Adds("forge", e.forgeHits >= lim.forge) + e.strikes * Adds("strike", e.strikes > 0)
        + Adds("ua", Cardinality(e.uas) >= lim.ua)

\* guard adds the score of the behaviour and refuses at BlockScore.
Scored(g) ==
    \E at \in Clock(g) :
      LET c == asked[g].client
          refused == Running("beh", c, at) /\ Score(ents.beh[c]) >= BlockScore IN
      /\ asked[g].stage = "score"
      /\ ents' = Purged("beh", c, at)
      /\ IF refused THEN Return(g) /\ log' = log
                    ELSE MoveTo(g, "nf", at) /\ log' = [log EXCEPT !.beh[c].n = @ + 1]
      /\ UNCHANGED <<settings, clock, events>>

\* Fault: the event at the threshold is let through.
Exceeded_Late(k, c, at) == Running(k, c, at) /\ ents[k][c].count > Threshold[k]

\* Exceeded of the other two.
Exceeded(k, c, at) == Running(k, c, at) /\ ents[k][c].count >= Threshold[k]

Ask(g, k, next) ==
    \E at \in Clock(g) :
      LET c == asked[g].client IN
      /\ asked[g].stage = k
      /\ ents' = Purged(k, c, at)
      /\ IF Exceeded(k, c, at) /\ k \in settings.refusing THEN Return(g) ELSE MoveTo(g, next, at)
      /\ UNCHANGED <<settings, clock, events, log>>

NotFoundExceeded(g) == Ask(g, "nf", "pen")
PenaltyExceeded(g) == Ask(g, "pen", "respond")

----------------------------------------------------------------------------
\* The upstream answers.
Respond(g, status) ==
    /\ asked[g].stage = "respond"
    /\ asked' = [asked EXCEPT ![g].stage = "answered", ![g].status = status]
    /\ UNCHANGED <<settings, clock, ents, events, log>>

ExpensiveStatus(status) == status \in {404, 410, 301, 302, 303, 307, 308} \cup (500..599)

Counts(k, status) == IF k = "nf" THEN status = 404 ELSE ExpensiveStatus(status)

\* Record of the other two: the first event starts the window.
Count(g, k, at) ==
    LET c == asked[g].client IN
      /\ IF Counts(k, asked[g].status)
           THEN /\ ents' = [ents EXCEPT ![k] = PutEntry(ents[k], c,
                             IF Running(k, c, at) THEN [ents[k][c] EXCEPT !.count = @ + 1]
                                                  ELSE [count |-> 1, start |-> at])]
                /\ Logged(k, c, at, IF asked[g].scored THEN 1 ELSE 0)
           ELSE UNCHANGED <<ents, log>>
      /\ UNCHANGED <<settings, clock, events>>

NotFoundRecord(g) ==
    /\ asked[g].stage = "answered"
    /\ \E at \in Clock(g) : Count(g, "nf", at) /\ MoveTo(g, "counted", at)

PenaltyRecord(g) ==
    /\ asked[g].stage = "counted"
    /\ \E at \in Clock(g) : Count(g, "pen", at) /\ Return(g)

\* BehaviorTracker.Strike: a challenge is answered wrongly.
Strike(c) ==
    /\ events < MaxEvents
    /\ events' = events + 1
    /\ \E at \in (clock - MaxLate)..clock :
         LET e == entryLocked(c, at) IN
         /\ ents' = [ents EXCEPT !.beh = PutEntry(ents.beh, c, [e EXCEPT !.strikes = @ + 1])]
         /\ Logged("beh", c, at, 0)
    /\ UNCHANGED <<settings, clock, asked>>

Stale(k, c, at) == c \in DOMAIN ents[k] /\ ents[k][c].start < at - MaxAge

\* Sweep of tracker k, at the entry of c.
SweepClient(k, c) ==
    /\ \E at \in (clock - MaxLate)..clock : Stale(k, c, at)
    /\ ents' = [ents EXCEPT ![k] = Drop(ents[k], c)]
    /\ UNCHANGED <<settings, clock, asked, events, log>>

ClockTick ==
    /\ clock' = IF clock < MaxClock THEN clock + 1 ELSE clock
    /\ UNCHANGED <<settings, ents, asked, events, log>>

TrackersNext ==
    \/ \E g \in Callers, c \in Visitors, v \in Visits, s \in BOOLEAN : Enter(g, c, v, s)
    \/ \E g \in Callers :
         \/ Exit(g) \/ Record(g) \/ StrikesExceeded(g) \/ Scored(g)
         \/ NotFoundExceeded(g) \/ PenaltyExceeded(g)
         \/ NotFoundRecord(g) \/ PenaltyRecord(g)
         \/ \E s \in Statuses : Respond(g, s)
    \/ \E c \in Visitors : Strike(c) \/ \E k \in DOMAIN ents : SweepClient(k, c)
    \/ ClockTick

TrackersSpec == TrackersInit /\ [][TrackersNext]_trackerVars

----------------------------------------------------------------------------
\* The configuration makes a tracker a limit: it refuses, and its entries are
\* kept for longer than a window (the default retention is 30 minutes, the
\* default windows are a minute; nothing in the code relates the two).
IsLimit(k) ==
    /\ IF k = "beh" THEN settings.points.burst >= BlockScore ELSE k \in settings.refusing
    /\ MaxAge >= Window + MaxLate

\* The requests a window may let through although its threshold is reached:
\* those that were past the question by then, and of the behaviour tracker,
\* which counts before it is asked, also those that have been counted when the
\* window ends and ask afterwards.
Slack(k) == IF k = "beh" THEN 2 * Cardinality(Callers) ELSE Cardinality(Callers)

\* How far one client gets against the trackers.  In one window a tracker that
\* refuses lets through what stays below the threshold and some requests that
\* were in flight; and no window ends before its time.  Late clocks, answers
\* that count without being refused and the sweepers never add to that.
WindowsHold ==
    \A k \in DOMAIN ents : IsLimit(k) =>
        \A c \in Visitors : log[k][c].n <= Threshold[k] - 1 + Slack(k)
=============================================================================
