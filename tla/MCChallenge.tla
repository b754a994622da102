---------------------------- MODULE MCChallenge -----------------------------
(* Challenge and LiveConfig for TLC.  They share no state, so every behaviour
   moves one of them: the handlers of challenges, or the panel's saves and the
   starts of the process.  Clients, nonces, goroutines and savers are
   interchangeable.                                                         *)
EXTENDS Challenge, MCLiveConfig, TLC

VARIABLE moves     \* the part that moves

\* The state of LiveConfig between a stop and the next start.
Stopped ==
    /\ inputs = Plain /\ proc = Absent /\ overrides = Absent /\ defaults = Absent
    /\ job = [h \in Saver |-> NoJob] /\ saves = 0 /\ last = Absent /\ clean = FALSE /\ lost = FALSE

MCInit ==
    /\ Init
    /\ \/ moves = "challenge" /\ Stopped
       \/ moves = "config" /\ ConfigInit /\ cfg.mode = "detect" /\ ~cfg.captcha

MCNext ==
    \/ moves = "challenge" /\ Next /\ UNCHANGED <<moves, configVars>>
    \/ moves = "config" /\ ConfigNext /\ UNCHANGED <<moves, vars>>

MCSpec == MCInit /\ [][MCNext]_<<moves, vars, configVars>>

Symmetry == Permutations(Clients) \cup Permutations(Nonces) \cup Permutations(Goroutines)
=============================================================================
