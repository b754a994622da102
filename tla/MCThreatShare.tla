--------------------------- MODULE MCThreatShare ---------------------------
(* A small instance of ThreatShare: a proxy, the hub with its other         *)
(* sources, a key of the guard, a user agent and an address that does not   *)
(* parse, every limit within reach of three entries.                       *)
EXTENDS ThreatShare

CONSTANTS p1, k1, u1, x1

MCPeers == {p1}
MCKeys == {k1, u1, x1}
MCBinds == {k1}
MCUAs == {u1}
MCBadIPs == {x1}
MCTTLs == {2}
MCBanTTLs == {1}

\* What a behaviour is about: a key of the guard, which is switched on and off,
\* in two entries, or keys of the overlay in three, the second of which may be
\* an address that does not parse.
VARIABLE focus

InPlay == IF focus = "guard" THEN {k1} ELSE {u1, x1}

\* The step stays with what its behaviour is about.
Focused ==
    /\ \A e \in rows' \ rows : e.key \in InPlay
    /\ \A i \in DOMAIN queue'[p1] : queue'[p1][i].key \in InPlay
    /\ focus = "guard" => rev' < MaxRev
    /\ focus = "feeds" => protect' = protect /\ \A e \in rows' : e.key = x1 => e.rev = 2

MCInit == ShareInit /\ focus \in {"guard", "feeds"} /\ (focus = "feeds" => protect[p1])
MCNext == ShareNext /\ Focused /\ UNCHANGED focus
MCSpec == MCInit /\ [][MCNext]_<<shareVars, focus>>
=============================================================================
