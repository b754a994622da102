--------------------------- MODULE MCGuardSlots ----------------------------
(* GuardSlots and Trackers, the limits of a client's requests, for TLC.  They
   share no state, so every behaviour moves one of them.  Requests and
   clients are interchangeable.                                             *)
EXTENDS GuardSlots, Trackers, TLC

VARIABLE moves     \* the part that moves

----------------------------------------------------------------------------
\* A write to a page of a listing.
MCVisits == {[path |-> "/p/1", write |-> TRUE, ua |-> "x"]}

OnePageOn == ("/p/1" :> "/p/2") @@ ("/p/2" :> "/p/3")

\* Threshold t for the answers, limit b for bursts, which are worth p points.
Setting(t, b, p, refusing) ==
    [nf |-> t, pen |-> t, refusing |-> refusing,
     limits |-> [burst |-> b, fanout |-> 2, strike |-> 1, write |-> 2, repeat |-> 2, forge |-> 1, ua |-> 0],
     points |-> [burst |-> p, fanout |-> 1, strike |-> 1, write |-> 1, repeat |-> 1, forge |-> 1, ua |-> 1]]

\* Either bursts are limited, or missing pages and expensive answers.
Bursts == Setting(0, 1, BlockScore, {})
Answers == Setting(1, 0, 0, {"nf", "pen"})
MCSettings == {Bursts, Answers}

\* Bound: the events against the trackers of answers, which are counted late.
MaxAnswers == 3

\* A request that has its score does nothing more to the behaviour tracker:
\* where that one alone is a limit, it is followed no further.
Followed ==
    IF settings.refusing = {} THEN \A g \in Callers : asked'[g].stage \in {"idle", "record", "strikes", "score", "nf"}
    ELSE events' <= MaxAnswers

----------------------------------------------------------------------------
\* A new counter takes the first cell that nobody points to.
FirstFree ==
    \A k \in DOMAIN clients' \ DOMAIN clients : clients'[k] \notin Reachable =>
        \A x \in Cells \ Reachable : clients'[k] <= x

MCInit ==
    /\ Init /\ \A r \in Requests : cell[r] = 1 /\ TrackersInit
    /\ moves \in {"slots", "trackers"}
    /\ moves = "slots" => settings = Bursts

MCNext ==
    \/ moves = "slots" /\ Next /\ FirstFree /\ UNCHANGED <<moves, trackerVars>>
    \/ moves = "trackers" /\ TrackersNext /\ Followed /\ UNCHANGED <<moves, vars>>

MCSpec == MCInit /\ [][MCNext]_<<moves, vars, trackerVars>>

Symmetry == Permutations(Requests) \cup Permutations(Keys)
============================================================================
