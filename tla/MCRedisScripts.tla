--------------------------- MODULE MCRedisScripts ---------------------------
(* Two users, two writers; one amount exceeds the limit of a user.           *)
EXTENDS RedisScripts
=============================================================================
