--------------------------- MODULE MCRedisLease ----------------------------
(* Small instances of RedisLease for TLC. *)
EXTENDS RedisLease

CONSTANTS r1, r2, r3, h1, h2

\* r1 and r3 on one replica, r2 on the other.
MCHome == [r \in Reqs |-> IF r = r2 THEN h2 ELSE h1]
=============================================================================
