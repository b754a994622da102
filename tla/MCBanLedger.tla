---------------------------- MODULE MCBanLedger ----------------------------
(* BanLedger for TLC: clients and goroutines are interchangeable.  The     *)
(* times of the ledger are small numbers; what they are in Go's arithmetic *)
(* is the subject of BanDuration.                                          *)
EXTENDS BanLedger, BanDuration, TLC

Symmetry == Permutations(Clients) \cup Permutations(Callers)

\* The default of ban_ttl: ten minutes, the unit of TTLs here.
BanTTL == 600

\* "Cap at 1 << 30 to avoid overflow of the time.Duration multiplication"
\* (protect.go:290): the product that makes the ban of every client in the
\* ledger is, in 64 bits, the one of the integers.
BanTimeFits ==
    \A k \in DOMAIN ents : ents[k].bans > 0 =>
        Duration64(BanTTL, ledgerCfg.esc, ents[k].bans) = Mantissa(BanTTL)
============================================================================
