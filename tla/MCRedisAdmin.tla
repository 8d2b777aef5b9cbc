---------------------------- MODULE MCRedisAdmin ----------------------------
(* Small instances of RedisAdmin for TLC. *)
EXTENDS RedisAdmin, TLC

CONSTANTS set, hset, boot       \* fixture commands

MCFile == {set, hset, boot}
MCFixtureLists == {<<>>, <<set, hset>>}
MCBootFixtures == <<boot>>
MCNone == <<>>
=============================================================================
