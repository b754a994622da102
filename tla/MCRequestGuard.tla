--------------------------- MODULE MCRequestGuard --------------------------
(***************************************************************************)
(* RequestGuard for TLC.  The configurations differ in every setting and   *)
(* each of their values occurs; an operator moves between them at will.    *)
(***************************************************************************)
EXTENDS RequestGuard

\* A harmless request and its transport and credentials: it has clearance or
\* meets the access policy, but not both.
Visitors ==
    {f \in Fact : /\ f.match = "none" /\ f.score = 0 /\ f.rating = "none"
                  /\ f.allowed => f.kind \in {"page", "ws"} /\ ~f.cookie
                  /\ f.kind = "git" => ~f.cookie
                  /\ f.auth <=> ~f.allowed /\ ~f.cookie}

\* What lists, traps and signatures name, with everything else in its favour.
Hostile ==
    {f \in Fact : /\ f.match # "none" /\ f.score = 0 /\ f.rating = "none"
                  /\ f.kind = (IF f.allowed THEN "ws" ELSE "page") /\ f.cookie /\ f.auth}

\* What scores or is rated by the semantic engine, with nothing in its favour.
Suspect ==
    {f \in Fact : /\ f.match = "none" /\ (f.score = 0) # (f.rating = "none")
                  /\ f.kind = "page" /\ ~f.cookie /\ ~f.allowed /\ f.auth}

Arrivals == Visitors \cup Hostile \cup Suspect

Strict ==
    [chal |-> TRUE, always |-> TRUE, prot |-> TRUE, attackBlock |-> TRUE, rate |-> TRUE,
     over |-> TRUE, detect |-> TRUE, waf |-> FALSE, coraza |-> "block", sem |-> "block", ml |-> "block",
     trap |-> "ban", nf |-> "block", pen |-> "tarpit", ai |-> "block"]

Lenient ==
    [Strict EXCEPT !.chal = FALSE, !.prot = FALSE, !.over = FALSE, !.waf = TRUE, !.coraza = "detect",
                   !.sem = "challenge", !.ml = "challenge", !.trap = "challenge",
                   !.nf = "tarpit", !.pen = "challenge", !.ai = "pay"]

Detecting ==
    [Strict EXCEPT !.always = FALSE, !.attackBlock = FALSE, !.over = FALSE, !.waf = TRUE,
                   !.sem = "shadow", !.ml = "shadow", !.trap = "tarpit", !.nf = "challenge",
                   !.pen = "block", !.ai = "allow"]

AllConfigs == {Strict, Lenient, Detecting}

Vault == [up |-> "vault", policy |-> TRUE, schema |-> FALSE, skip |-> FALSE]
App == [up |-> "app", policy |-> FALSE, schema |-> TRUE, skip |-> TRUE]

TwoRoutes == {Vault, App}
============================================================================
