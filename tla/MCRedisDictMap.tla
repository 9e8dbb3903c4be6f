--------------------------- MODULE MCRedisDictMap ---------------------------
(***************************************************************************)
(* RedisDictMap with a few keys, their hashes words of 4 bits.             *)
(***************************************************************************)
EXTENDS RedisDictMap

Hash4 == [k \in Key |-> <<1, 5, 2, 13>>[k] % 2^Width]
=============================================================================
