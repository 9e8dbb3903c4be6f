---------------------------- MODULE MCRedisDict ----------------------------
(***************************************************************************)
(* RedisDict with a few keys.  A key is a number, its hash a word of 4     *)
(* bits.                                                                   *)
(***************************************************************************)
EXTENDS RedisDict

(* Keys 1, 2 and 4 collide in a table of 4, 2 and 4 in one of 8 also.      *)
Hash4 == [k \in Key |-> <<1, 5, 2, 13>>[k] % 2^Width]
============================================================================
