---------------------------- MODULE MCLiveConfig ----------------------------
(* LiveConfig for TLC.  The files enable and disable what main builds, the
   bodies are the panel's (everything named) and scripts' (little named).   *)
EXTENDS LiveConfig

Nothing == [f \in {} |-> 0]
Edge == [file |-> [admin |-> TRUE, data |-> TRUE, trust |-> "", chal |-> FALSE],
         env |-> Nothing, flags |-> Nothing]
Proxied == [file |-> [admin |-> TRUE, data |-> TRUE, prot |-> FALSE, limit |-> FALSE, trust |-> "behind", qf |-> TRUE],
            env |-> [proxies |-> "nets", token |-> TRUE], flags |-> [secret |-> TRUE]]
Plain == [file |-> [chal |-> FALSE], env |-> Nothing, flags |-> Nothing]
NoProxies == [file |-> [admin |-> TRUE, data |-> TRUE, trust |-> "behind", chal |-> FALSE],
              env |-> Nothing, flags |-> Nothing]

MCFiles == {Edge, Proxied, Plain, NoProxies}

Panel == [prot |-> TRUE, limit |-> TRUE, rate |-> 2, chal |-> TRUE, diff |-> 2, coraza |-> TRUE,
          ml |-> "block", low |-> 3, high |-> 3, logo |-> 0, trust |-> "behind", proxies |-> "nets",
          ids |-> FALSE, qf |-> [on |-> TRUE, token |-> FALSE]]
Script == [Blank EXCEPT !.high = 1, !.trust = "edge"]
Broken == [Blank EXCEPT !.trust = "behind"]
Unparsed == [Blank EXCEPT !.trust = "behind", !.proxies = "bad"]

MCBodies == {Panel, Script, Broken, Unparsed}
MCFeeds == [on : BOOLEAN, token : BOOLEAN]
=============================================================================
