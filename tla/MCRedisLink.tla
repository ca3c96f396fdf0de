------------------------------ MODULE MCRedisLink ------------------------------
(* Instance of RedisLink for TLC. Two dispatch threads and the three publish *)
(* connections that can be referenced at once (token, game thread, new one); *)
(* the identities are interchangeable.                                       *)
EXTENDS RedisLink, TLC

Symmetry == Permutations(Threads) \cup Permutations(Pubs)
================================================================================
