-------------------------- MODULE MCRedisRateLimit --------------------------
(* Two instances and two connections; every limit is one. *)
EXTENDS RedisRateLimit, TLC

CONSTANTS i1, i2, r1, r2

Routes == (r1 :> {i1, i2}) @@ (r2 :> {i2})

OneConnection == [x \in Apps |-> 1]

\* Bound: the exploration ends where the counters of a live instance are
\* deleted.
NotWiped == ~wiped
=============================================================================
