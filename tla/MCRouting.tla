----------------------------- MODULE MCRouting -----------------------------
(* Routing and Lists for TLC: the rows and the lines that administrators
   write and the edge reloads.  The two share no state, so every behaviour
   moves one of them.                                                       *)
EXTENDS Routing, Lists

VARIABLES
    moves,      \* the component that moves
    focus       \* of the lists, the one that is worked on

----------------------------------------------------------------------------
(* Routing: policies that refuse and that admit the client.                 *)

MCPolicyRows == {[mode |-> "all", rules |-> {"auth", "pass"}], [mode |-> "any", rules |-> {"pass", "fail"}]}
MCSchemaRows == {[mode |-> "blocks"]}

----------------------------------------------------------------------------
(* Lists, with addresses and user agents.  As an address, a is what is typed
   and net the form it is listed in, and a comment is refused.  As user
   agents a and net are two words, and a comment is accepted and never read.
   The requests of a behaviour are about one of the lists.                  *)
CONSTANTS a, net, hash

MCKind == <<"ip", "ua">>
MCBad == [k \in {"ip", "ua"} |-> IF k = "ip" THEN {hash} ELSE {}]
MCListed == [k \in {"ip", "ua"} |-> [l \in Line |-> IF k = "ip" /\ l = a THEN net ELSE l]]
MCEntry == [k \in {"ip", "ua"} |-> [l \in Line |-> l]]

\* The one request that may be an edit of two different lines.
Lead == CHOOSE w \in Worker : TRUE

\* The operator and two requests are at work on the first file of addresses; the
\* user agents are in two files that one request changes.
Focused ==
    /\ \A w \in Worker : \A i \in DOMAIN acts'[w].todo : acts'[w].todo[i].k = focus
    /\ \A w \in Worker \ {Lead} : Len(acts'[w].todo) < 2
    /\ Len(acts'[Lead].todo) > 2 => acts'[Lead].todo[1].v # acts'[Lead].todo[2].v
    /\ focus = "ua" => edits' = 0 /\ ops' < MaxOps
    /\ \A k \in Kinds, j \in File : <<k, j>> # <<"ip", 1>> =>
         (j \in gone'[k] <=> j \in gone[k]) /\ (k # focus \/ focus = "ip" => source'[k][j] = source[k][j])

----------------------------------------------------------------------------
MCInit ==
    /\ RoutingInit /\ ListsInit
    /\ moves \in {"routing", "lists"} /\ focus \in Kinds
    /\ moves = "lists" =>
        /\ \A k \in Kinds \ {focus}, j \in File : source[k][j] = {}
        /\ focus = "ip" => source[focus][NFiles] = {}
        /\ \A u \in Upstream : db.ups[u] = None
    /\ moves = "routing" => focus = "ip" /\ \A k \in Kinds, j \in File : source[k][j] = {}

MCNext ==
    /\ \/ moves = "routing" /\ RoutingNext /\ UNCHANGED listVars
       \/ moves = "lists" /\ ListsNext /\ Focused /\ UNCHANGED routingVars
    /\ UNCHANGED <<moves, focus>>

\* The fairness of each specification, for the component that moves.
MCSpec ==
    /\ MCInit /\ [][MCNext]_<<moves, focus, routingVars, listVars>>
    /\ \A h \in Admin : WF_routingVars(moves = "routing" /\ HandlerStep(h))
    /\ \A g \in Gen : WF_routingVars(moves = "routing" /\ LoopEnds(g))
    /\ \A b \in Actor : WF_listVars(moves = "lists" /\ Step(b))
    /\ WF_listVars(moves = "lists" /\ StartReload)
=============================================================================
