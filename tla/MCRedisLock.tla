---------------------------- MODULE MCRedisLock ----------------------------
(* RedisLock with two lock objects over two keys.  The lists hold one key,   *)
(* both keys, and a repeated key; the stamps allow equal and distinct ones.  *)
EXTENDS RedisLock

CONSTANTS a, b

MCKeys == {a, b}
MCKeyLists == {<<a, b>>, <<b, b>>}
=============================================================================
