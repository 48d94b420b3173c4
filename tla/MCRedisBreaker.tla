-------------------------- MODULE MCRedisBreaker ---------------------------
(* Small instances of RedisBreaker for TLC. *)
EXTENDS RedisBreaker, TLC

CONSTANTS c1, c2, c3, k1, k2, k3

Symm == Permutations({c1, c2, c3}) \cup Permutations({k1, k2, k3})
=============================================================================
