---------------------------- MODULE BanDuration ----------------------------
(***************************************************************************)
(* banTTLWithEscalation (internal/protect) in the arithmetic of Go: a      *)
(* time.Duration is a signed 64-bit count of nanoseconds and the product   *)
(* BanTTL * (1 << shift) wraps around.                                     *)
(*                                                                         *)
(* A second is 10^9 = 1953125 * 2^9 nanoseconds, so every product is       *)
(* m * 2^e with m = seconds * 1953125 and e = 9 + shift, and it is kept as *)
(* that pair: reducing m * 2^e modulo 2^64 reduces m modulo 2^(64 - e).    *)
(* The ban time ttl is in seconds, at most 1099 for m to stay below 2^31.  *)
(***************************************************************************)
EXTENDS Integers

Mantissa(ttl) == ttl * 1953125

\* shift := min(bans-1, cfg.BanEscalation), capped at 30.
CappedShift(esc, n) ==
    LET shift == IF n - 1 < esc THEN n - 1 ELSE esc
    IN  IF shift > 30 THEN 30 ELSE shift

\* The doublings of the n-th ban.
Shift(esc, n) == IF esc <= 0 \/ n <= 1 THEN 0 ELSE CappedShift(esc, n)

\* What a factor m of m * 2^e has become once the product wrapped around.
Wrapped(m, e) ==
    IF 64 - e > 31 THEN m
    ELSE LET half == 2^(63 - e)  r == m % half
         IN  IF (m \div half) % 2 = 0 THEN r ELSE r - half

\* The n-th ban lasts Duration64(ttl, esc, n) * 2^(9 + Shift(esc, n)) nanoseconds.
Duration64(ttl, esc, n) == Wrapped(Mantissa(ttl), 9 + Shift(esc, n))
============================================================================
