--------------------------- MODULE SessionRegistry -------------------------
(***************************************************************************)
(* What the hub's registry of agent sessions promises, without locks,      *)
(* handshakes or goroutines: a proxy has at most one session, a session    *)
(* is displaced only after it has been closed, and a session whose         *)
(* connection is up is never dropped.                                      *)
(***************************************************************************)
CONSTANTS Proxies, Sessions, Nobody

VARIABLES
    owner,  \* the session each proxy is reached through, or Nobody
    over,   \* the sessions that have been closed
    lost    \* the sessions whose connection has gone down

vars == <<owner, over, lost>>

Registered == {owner[p] : p \in Proxies}

Init ==
    /\ owner = [p \in Proxies |-> Nobody]
    /\ over = {}
    /\ lost = Sessions

\* A new session becomes the proxy's; the one before it is already closed.
Join(p, s) ==
    /\ owner[p] \in over \cup {Nobody}
    /\ s \notin Registered \cup over
    /\ owner' = [owner EXCEPT ![p] = s]
    /\ UNCHANGED <<over, lost>>

\* A session leaves once its connection is down.
Leave(p) ==
    /\ owner[p] \in lost
    /\ owner' = [owner EXCEPT ![p] = Nobody]
    /\ UNCHANGED <<over, lost>>

\* A session is closed, once, and its connection with it.
Close(s) ==
    /\ s \notin over
    /\ over' = over \cup {s}
    /\ lost' = lost \cup {s}
    /\ UNCHANGED owner

\* The network, or the agent, ends the connection.
Lose(s) ==
    /\ lost' = lost \cup {s}
    /\ UNCHANGED <<owner, over>>

\* A name of a session that is not registered is used for a new one.
Renew(s) ==
    /\ s \notin Registered
    /\ over' = over \ {s}
    /\ lost' = lost \ {s}
    /\ UNCHANGED owner

Next ==
    \/ \E p \in Proxies, s \in Sessions : Join(p, s)
    \/ \E p \in Proxies : Leave(p)
    \/ \E s \in Sessions : Close(s) \/ Lose(s) \/ Renew(s)

Spec == Init /\ [][Next]_vars
============================================================================
