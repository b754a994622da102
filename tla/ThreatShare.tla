---------------------------- MODULE ThreatShare ----------------------------
(***************************************************************************)
(* The threat ledger of the hub and the proxies that share bans over it.   *)
(*                                                                         *)
(* A proxy queues what it banned and reports it; the hub stores a report,  *)
(* an administrator's ban or a feed in one transaction, then reads which   *)
(* sessions are registered and sends each the new entries from goroutines  *)
(* that nothing orders.  A proxy that connects asks for the ledger once;   *)
(* the hub reads that request only after it has registered the session.    *)
(* A proxy remembers the ids it applied.  The hub keeps its ledger over a  *)
(* restart, a proxy keeps nothing.  The hub's own guard, which a ban of an *)
(* administrator also reaches, is left to BanLedger.                       *)
(***************************************************************************)
EXTENDS Naturals, Sequences, FiniteSets

CONSTANTS
    Peers,        \* the proxies of the fleet
    Keys,         \* what an entry names: a key with its type
    Binds,        \* of them, those of type bind or ip_hash, which the guard bans
    UAs,          \* those of type ua
    BadIPs,       \* those of type ip that are no address, a network for instance
    Hub,          \* the source of entries that no proxy reported
    NoKey,        \* an indicator that is no ledger key
    TTLs,         \* the lifetimes of entries of an administrator or a feed
    BanTTLs,      \* the lifetimes of a proxy's own bans
    ReportTTL,    \* protect.ban_ttl, the lifetime of a reported entry
    QueueMax,     \* 1024 in Reporter.enqueue
    SeenMax,      \* Overlay.maxEnts
    LedgerMax,    \* threatMaxEntries
    PullLimit,    \* the limit pullThreats asks for
    ListMax,      \* the largest limit ListThreatSince accepts
    ListDefault,  \* the one it uses instead of a larger one
    FeedSlack,    \* what ingestIOCs adds to the number of rows it stored
    FeedLen,      \* bound: entries of a feed
    MaxRev,       \* bound: entries ever stored
    MaxNow,       \* bound: clock ticks
    MaxEvents     \* bound: lost connections, restarts and bans at a proxy

ASSUME ShareAssumption ==
    /\ Hub \notin Peers /\ NoKey \notin Keys
    /\ Binds \subseteq Keys /\ UAs \subseteq Keys \ Binds /\ BadIPs \subseteq Keys \ (Binds \cup UAs)
    /\ TTLs \cup BanTTLs \cup {ReportTTL, QueueMax, SeenMax, LedgerMax, PullLimit, ListMax, ListDefault, FeedSlack,
                               FeedLen, MaxRev, MaxNow, MaxEvents} \subseteq Nat

VARIABLES
    now, events,
    rows,       \* table threat_entries
    rev,        \* threat_meta.revision
    stored,     \* batches stored and not yet fanned out
    calls,      \* calls of FanOut that have not looked their session up
    wire,       \* threat.apply requests and pull answers a proxy works on
    reports,    \* threat.report requests on their way
    link,       \* the proxy's connection
    registered, \* Registry.sessions has one of the proxy
    pull,       \* pullThreats of the current connection
    queue,      \* Reporter.queue
    applied,    \* Overlay.seen
    until,      \* expiry per key: the guard's bans and the overlay's maps
    protect,    \* the proxy's guard is enabled
    skipped,    \* history: entries nobody sent to the proxy, or that it dropped
    short,      \* history: keys whose expiry a later write lowered
    lifted      \* history: applied entries of a key when it was last unbanned

clock == <<now, events>>
ledger == <<rows, rev>>
transit == <<stored, calls, wire, reports>>
session == <<link, registered, pull>>
node == <<queue, applied, until, protect, skipped, short, lifted>>
shareVars == <<clock, ledger, transit, session, node>>

\* What may happen MaxEvents times.
Event == events < MaxEvents /\ events' = events + 1

Revs(es) == {e.rev : e \in es}

\* The n entries of es with the lowest revisions: ORDER BY revision LIMIT n.
Oldest(es, n) == {e \in es : Cardinality({f \in es : f.rev < e.rev}) < n}

ShareInit ==
    /\ now = 0 /\ events = 0
    /\ rows = {} /\ rev = 0
    /\ stored = {} /\ calls = {} /\ wire = {} /\ reports = {}
    /\ link = [p \in Peers |-> "down"]
    /\ registered = {}
    /\ pull = [p \in Peers |-> "none"]
    /\ queue = [p \in Peers |-> <<>>]
    /\ applied = [p \in Peers |-> {}]
    /\ until = [p \in Peers |-> [k \in Keys |-> 0]]
    /\ protect \in [Peers -> BOOLEAN]
    /\ skipped = [p \in Peers |-> {}]
    /\ short = [p \in Peers |-> {}]
    /\ lifted = [p \in Peers |-> [k \in Keys |-> {}]]

----------------------------------------------------------------------------
(* A proxy's guard and overlay *)

\* putUA, putIP, putJA4, putDNS and BanUntil replace the expiry.
Put(p, k, t) ==
    /\ until' = [until EXCEPT ![p][k] = t]
    /\ short' = [short EXCEPT ![p] = IF t < until[p][k] THEN @ \cup {k} ELSE @]

\* UABlocked, IPBlocked, JA4Blocked, DNSBlocked and IsBanned.
Blocked(p, k) == now < until[p][k]

\* Reporter.enqueue: dropped without a word when the queue is full.
Enqueue(p, k) ==
    queue' = [queue EXCEPT ![p] = IF Len(@) >= QueueMax THEN @
                                  ELSE Append(@, [key |-> k, exp |-> now + ReportTTL])]

\* The pipeline finds the guard enabled, bans a client and reports it.  BanNow
\* and BanUntil read the setting again and do nothing where it is off by then.
ReportBind(p, k, ttl) ==
    /\ Event
    /\ protect[p]
    /\ \E on \in BOOLEAN :
        /\ protect' = [protect EXCEPT ![p] = on]
        /\ IF on THEN Put(p, k, now + ttl) ELSE UNCHANGED <<until, short>>
    /\ Enqueue(p, k)
    /\ UNCHANGED <<now, ledger, transit, session, applied, skipped, lifted>>

\* A client of the user-agent list is refused and its agent reported: the
\* proxy has the list and writes nothing.
ReportUA(p, k) ==
    /\ Event
    /\ Enqueue(p, k)
    /\ UNCHANGED <<now, ledger, transit, session, applied, until, protect, skipped, short, lifted>>

\* The panel bans a key at this proxy only: bans.create, nothing where the
\* guard is off.
RemoteBan(p, k, ttl) ==
    /\ Event
    /\ protect[p]
    /\ Put(p, k, now + ttl)
    /\ UNCHANGED <<now, ledger, transit, session, queue, applied, protect, skipped, lifted>>

\* The guard is enabled or disabled; it keeps its bans.
SetProtect(p) ==
    /\ Event
    /\ protect' = [protect EXCEPT ![p] = ~@]
    /\ UNCHANGED <<now, ledger, transit, session, queue, applied, until, skipped, short, lifted>>

\* It lifts a ban: bans.delete.
Unban(p, k) ==
    /\ Blocked(p, k)
    /\ until' = [until EXCEPT ![p][k] = 0]
    /\ short' = [short EXCEPT ![p] = @ \cup {k}]
    /\ lifted' = [lifted EXCEPT ![p][k] = applied[p] \ UNION {Revs(c.put) : c \in {c \in wire : c.to = p}}]
    /\ UNCHANGED <<clock, ledger, transit, session, queue, applied, protect, skipped>>

\* Overlay.Sweep, and the guard's own sweep of expired bans.
Sweep(p) ==
    /\ until' = [until EXCEPT ![p] = [k \in Keys |-> IF @[k] < now THEN 0 ELSE @[k]]]
    /\ LET wipe == Cardinality(applied[p]) > SeenMax \div 2
       IN  /\ applied' = [applied EXCEPT ![p] = IF wipe THEN {} ELSE @]
           /\ lifted' = [lifted EXCEPT ![p] = IF wipe THEN [k \in Keys |-> {}] ELSE @]
    /\ UNCHANGED <<clock, ledger, transit, session, queue, protect, skipped, short>>

\* The next entry a request works on.
Heads(c) == {e \in c.es : \A f \in c.es : e.rev <= f.rev}

Step(c, d) == wire' = (wire \ {c}) \cup (IF d.es = {} /\ d.put = {} THEN {} ELSE {d})

\* Fault: an id is remembered and never looked up.
MarkSeen_NoLookup(c) ==
    /\ c.put = {}
    /\ \E e \in Heads(c) :
        /\ Step(c, [c EXCEPT !.es = @ \ {e}, !.put = IF e.exp > now THEN {e} ELSE {}])
        /\ applied' = [applied EXCEPT ![c.to] = @ \cup {e.rev}]
    /\ UNCHANGED <<clock, ledger, stored, calls, reports, session, queue, until, protect, skipped, short, lifted>>

\* ApplyOne up to the first unlock: an expired, a known or a surplus entry is
\* dropped, any other is remembered before it is applied.
MarkSeen(c) ==
    /\ c.put = {}
    /\ \E e \in Heads(c) :
       LET new == e.exp > now /\ e.rev \notin applied[c.to]
           ok == new /\ Cardinality(applied[c.to]) < SeenMax
       IN  /\ Step(c, [c EXCEPT !.es = @ \ {e}, !.put = IF ok THEN {e} ELSE {}])
           /\ applied' = [applied EXCEPT ![c.to] = IF ok THEN @ \cup {e.rev} ELSE @]
           /\ skipped' = [skipped EXCEPT ![c.to] = IF ok THEN @ \ {e.rev} ELSE IF new THEN @ \cup {e.rev} ELSE @]
    /\ UNCHANGED <<clock, ledger, stored, calls, reports, session, queue, until, protect, short, lifted>>

\* BanUntil does nothing where the guard is off or the deadline is over, and
\* an address that does not parse is refused; the other types are written.
Accepts(p, e) ==
    IF e.key \in Binds THEN protect[p] /\ e.exp >= now ELSE e.key \notin BadIPs

\* ApplyOne, the rest.
ApplyOne(c) ==
    /\ \E e \in c.put :
        /\ Step(c, [c EXCEPT !.put = {}])
        /\ IF Accepts(c.to, e)
           THEN Put(c.to, e.key, e.exp) /\ UNCHANGED skipped
           ELSE /\ skipped' = [skipped EXCEPT ![c.to] = @ \cup {e.rev}]
                /\ UNCHANGED <<until, short>>
    /\ UNCHANGED <<clock, ledger, stored, calls, reports, session, queue, applied, protect, lifted>>

----------------------------------------------------------------------------
(* The hub's ledger *)

\* A report is stored with its own deadline if that is still to come.
Deadline(e) == IF e.exp > now THEN e.exp ELSE now + ReportTTL

\* The entries of a batch, by their place in it, get the next revisions in order.
Place(es, i) == Cardinality({j \in DOMAIN es : j <= i})

New(src, es) ==
    {[rev |-> rev + Place(es, i), key |-> es[i].key, exp |-> Deadline(es[i]), src |-> src] : i \in DOMAIN es}

\* InsertThreatEntries: one transaction, with the trim of the oldest rows.
InsertThreatEntries(src, es) ==
    /\ rev + Cardinality(DOMAIN es) <= MaxRev
    /\ rev' = rev + Cardinality(DOMAIN es)
    /\ rows' = LET all == rows \cup New(src, es)
               IN  all \ Oldest(all, IF Cardinality(all) > LedgerMax
                                     THEN Cardinality(all) - LedgerMax ELSE 0)

\* ListThreatSince: unexpired rows above a revision, the oldest first.
ListThreatSince(since, limit) ==
    Oldest({e \in rows : e.rev > since /\ e.exp > now},
           IF limit > ListMax THEN ListDefault ELSE limit)

\* SweepThreatEntries.
SweepThreatEntries ==
    /\ \E e \in rows : e.exp <= now
    /\ rows' = {e \in rows : e.exp > now}
    /\ UNCHANGED <<clock, rev, transit, session, node>>

\* What the caller will fan out; fanOutThreat returns at once without entries.
Stored(src, es) == stored' = IF es = {} THEN stored ELSE stored \cup {[src |-> src, es |-> es]}

\* handleAgentOp, HandleAgentThreatOp, ingestThreat: a report is stored.
IngestReport(r) ==
    /\ InsertThreatEntries(r.src, r.es)
    /\ Stored(r.src, New(r.src, r.es))
    /\ reports' = reports \ {r}
    /\ UNCHANGED <<clock, calls, wire, session, node>>

\* An entry of the panel is stored, after the hub's own guard has banned.
AdminEntry(k, ttl) ==
    /\ LET es == <<[key |-> k, exp |-> now + ttl]>>
       IN  /\ InsertThreatEntries(Hub, es)
           /\ Stored(Hub, New(Hub, es))
    /\ UNCHANGED <<clock, calls, wire, reports, session, node>>

\* POST /threat, with a lifetime of its own, and POST /bans.
handleThreat == \E k \in Keys, ttl \in TTLs : AdminEntry(k, ttl)
handleBans == \E k \in Binds : AdminEntry(k, ReportTTL)

\* ToThreatEntry: indicators of an unknown type or without a key are skipped,
\* and so are addresses that do not parse.
ToThreatEntry(ioc) == ioc.key # NoKey

\* ingestIOCs: a feed is stored, and what is fanned out is read back, with
\* the limit of ListThreatSince; rows stored in between would only be sent
\* twice.  The error of the read is ignored: then nothing is fanned out.
IngestIOCs(iocs) ==
    LET es == [i \in {i \in DOMAIN iocs : ToThreatEntry(iocs[i])} |-> iocs[i]]
        len == Cardinality(DOMAIN es)
        n == IF len + FeedSlack > ListMax THEN ListDefault ELSE len + FeedSlack
    IN  /\ len # 0
        /\ InsertThreatEntries(Hub, es)
        /\ \E sent \in {{}, Oldest({e \in rows' : e.rev > rev}, n)} :
            /\ Stored(Hub, sent)
            /\ skipped' = [p \in Peers |-> skipped[p] \cup Revs(New(Hub, es) \ sent)]
        /\ UNCHANGED <<clock, calls, wire, reports, session, queue, applied, until, protect, short, lifted>>

Feeds == [1..FeedLen -> [key : (Keys \ BadIPs) \cup {NoKey}, exp : {now + t : t \in TTLs}]]

\* What the panel uploads or fetches, and what the poller fetches again and again.
handleThreatIntelIngest == \E iocs \in Feeds : IngestIOCs(iocs)
RunThreatIntelPoller == \E iocs \in Feeds : IngestIOCs(iocs)

\* Registry.ListOnline.
ListOnline == registered

\* fanOutThreat: ListOnline, without the source, and a goroutine for each.
FanOutThreat(b) ==
    /\ stored' = stored \ {b}
    /\ calls' = calls \cup {[to |-> p, es |-> b.es] : p \in ListOnline \ {b.src}}
    /\ UNCHANGED <<clock, ledger, wire, reports, session, node>>

\* Registry.Call: the session is looked up now; without one, or on a dead
\* connection, the call fails and nobody tries again.
Call(c) ==
    /\ calls' = calls \ {c}
    /\ wire' = IF c.to \in registered /\ link[c.to] = "up"
               THEN wire \cup {[to |-> c.to, es |-> c.es, put |-> {}]} ELSE wire
    /\ UNCHANGED <<clock, ledger, stored, reports, session, node>>

----------------------------------------------------------------------------
(* Connections *)

\* The agent has its answer and starts pullThreats; the hub goes on to Put.
PeerConnect(p) ==
    /\ link[p] = "down"
    /\ link' = [link EXCEPT ![p] = "hello"]
    /\ pull' = [pull EXCEPT ![p] = "sent"]
    /\ UNCHANGED <<clock, ledger, transit, registered, node>>

\* Registry.Put; the read loop starts.
Register(p) ==
    /\ link[p] = "hello"
    /\ link' = [link EXCEPT ![p] = "up"]
    /\ registered' = registered \cup {p}
    /\ UNCHANGED <<clock, ledger, transit, pull, node>>

\* The read loop of an ended connection returns: Registry.Remove.
PeerRemove(p) ==
    /\ p \in registered /\ link[p] # "up"
    /\ registered' = registered \ {p}
    /\ UNCHANGED <<clock, ledger, transit, link, pull, node>>

\* pullThreats hands the answer to the dispatcher.
pullThreats(p, es) ==
    wire' = IF es = {} THEN wire ELSE wire \cup {[to |-> p, es |-> es, put |-> {}]}

\* Fault: the hub answers requests before it has registered the session.
ThreatPull_Early(p) ==
    /\ link[p] = "hello" /\ pull[p] = "sent"
    /\ pullThreats(p, ListThreatSince(0, PullLimit))
    /\ pull' = [pull EXCEPT ![p] = "done"]
    /\ UNCHANGED <<clock, ledger, stored, calls, reports, link, registered, node>>

\* threat.pull is answered, by a read loop that starts after Register.
ThreatPull(p) ==
    /\ link[p] = "up" /\ pull[p] = "sent"
    /\ LET es == ListThreatSince(0, PullLimit)
       IN  /\ pullThreats(p, es)
           /\ skipped' = [skipped EXCEPT ![p] = (@ \cap applied[p]) \cup Revs({e \in rows : e.exp > now} \ es)]
    /\ pull' = [pull EXCEPT ![p] = "done"]
    /\ UNCHANGED <<clock, ledger, stored, calls, reports, link, registered, queue, applied, until, protect, short, lifted>>

\* The pull fails or times out; it is not repeated on this connection.
PullFailed(p) ==
    /\ pull[p] = "sent"
    /\ pull' = [pull EXCEPT ![p] = "failed"]
    /\ UNCHANGED <<clock, ledger, transit, link, registered, node>>

\* Reporter.flush: the batch leaves the queue, and is lost without a connection.
Flush(p) ==
    /\ queue[p] # <<>>
    /\ queue' = [queue EXCEPT ![p] = <<>>]
    /\ reports' = IF link[p] = "down" THEN reports
                  ELSE reports \cup {[src |-> p, es |-> queue[p]]}
    /\ UNCHANGED <<clock, ledger, stored, calls, wire, session, applied, until, protect, skipped, short, lifted>>

\* The hub refuses a report: the store fails.
ReportFailed(r) ==
    /\ reports' = reports \ {r}
    /\ UNCHANGED <<clock, ledger, stored, calls, wire, session, node>>

----------------------------------------------------------------------------
(* Failures and time *)

Lost(p) ==
    /\ link' = [link EXCEPT ![p] = "down"]
    /\ pull' = [pull EXCEPT ![p] = "none"]

\* The connection ends; what was sent on it may or may not have arrived.
PeerLinkDown(p) ==
    /\ Event
    /\ link[p] # "down"
    /\ Lost(p)
    /\ \E gone \in SUBSET {c \in wire : c.to = p /\ c.put = {}} : wire' = wire \ gone
    /\ \E gone \in SUBSET {r \in reports : r.src = p} : reports' = reports \ gone
    /\ UNCHANGED <<now, ledger, stored, calls, registered, node>>

\* The proxy's process is restarted, with a configuration of its own.
RestartProxy(p) ==
    /\ Event
    /\ Lost(p)
    /\ wire' = {c \in wire : c.to # p}
    /\ queue' = [queue EXCEPT ![p] = <<>>]
    /\ applied' = [applied EXCEPT ![p] = {}]
    /\ until' = [until EXCEPT ![p] = [k \in Keys |-> 0]]
    /\ \E on \in BOOLEAN : protect' = [protect EXCEPT ![p] = on]
    /\ skipped' = [skipped EXCEPT ![p] = {}]
    /\ short' = [short EXCEPT ![p] = {}]
    /\ lifted' = [lifted EXCEPT ![p] = [k \in Keys |-> {}]]
    /\ UNCHANGED <<now, ledger, stored, calls, reports, registered>>

\* The hub's process is restarted, perhaps between a transaction and its fan-out.
RestartHub ==
    /\ Event
    /\ link' = [p \in Peers |-> "down"]
    /\ pull' = [p \in Peers |-> "none"]
    /\ registered' = {}
    /\ stored' = {} /\ calls' = {} /\ reports' = {}
    /\ UNCHANGED <<now, ledger, wire, node>>

Tick ==
    /\ now < MaxNow
    /\ now' = now + 1
    /\ UNCHANGED <<events, ledger, transit, session, node>>

ShareNext ==
    \/ \E p \in Peers, k \in Binds, ttl \in BanTTLs : ReportBind(p, k, ttl) \/ RemoteBan(p, k, ttl)
    \/ \E p \in Peers, k \in UAs : ReportUA(p, k)
    \/ \E p \in Peers, k \in Binds : Unban(p, k)
    \/ handleThreat \/ handleBans
    \/ \E p \in Peers : SetProtect(p) \/ Sweep(p) \/ PeerConnect(p) \/ Register(p) \/ PeerRemove(p) \/ ThreatPull(p)
                        \/ PullFailed(p) \/ Flush(p) \/ PeerLinkDown(p) \/ RestartProxy(p)
    \/ \E c \in wire : MarkSeen(c) \/ ApplyOne(c)
    \/ \E r \in reports : IngestReport(r) \/ ReportFailed(r)
    \/ handleThreatIntelIngest \/ RunThreatIntelPoller
    \/ \E b \in stored : FanOutThreat(b)
    \/ \E c \in calls : Call(c)
    \/ SweepThreatEntries \/ RestartHub \/ Tick

ShareSpec == ShareInit /\ [][ShareNext]_shareVars

----------------------------------------------------------------------------
(* Properties *)

\* Entry e is still on its way to p.
Coming(p, e) ==
    \/ \E b \in stored : e \in b.es
    \/ \E c \in calls : c.to = p /\ e \in c.es
    \/ \E c \in wire : c.to = p /\ e \in c.es \cup c.put

\* No entry falls between the catch-up of a connection and the fan-out: a
\* proxy whose pull was answered knows every entry of the ledger that it did
\* not report itself and that is not on its way, until its deadline, after
\* lost connections and restarts of either side too.  The exceptions are the
\* ones the code makes, entry by entry: a later write for the key ended
\* sooner, the pull's limit or the read-back of a feed left the entry out, or
\* the proxy dropped it, for want of room among its ids, because its guard
\* was off, or because the address does not parse.
Covered ==
    \A p \in Peers, e \in rows :
        (/\ link[p] = "up" /\ pull[p] = "done"
         /\ e.exp > now /\ e.src # p /\ ~Coming(p, e))
        => until[p][e.key] >= e.exp \/ e.key \in short[p] \/ e.rev \in skipped[p]

\* A ban that was lifted stays lifted however often the entries it came from
\* are delivered: only another entry or a ban of the proxy itself brings it
\* back, as long as the proxy remembers its ids.
LiftedStays ==
    [][\A p \in Peers, k \in Keys :
        until[p][k] = 0 /\ until'[p][k] # 0 /\ wire' # wire =>
            \E c \in wire \ wire' : c.to = p /\ \E e \in c.put : e.rev \notin lifted[p][k]]_shareVars
=============================================================================
