---------------------------- MODULE MCAdapters ----------------------------
(***************************************************************************)
(* Adapters with two threads for art.c and one for the others; as many     *)
(* keys as each data structure needs to rebalance and to expand.           *)
(***************************************************************************)
EXTENDS Adapters

CONSTANTS v1, v2

Added ==
  {<<"art", 1, v1>>, <<"art", 1, v2>>, <<"art", 2, v1>>,
   <<"stl", 1, v1>>, <<"stl", 1, v2>>, <<"stl", 2, v1>>,
   <<"sparse", 1, v1>>, <<"sparse", 1, v2>>, <<"sparse", 2, v1>>,
   <<"uthash", 1, v2>>}
    \cup {<<"bsdtree", k, v1>> : k \in 1 .. 10}
    \cup {<<"uthash", k, v1>> : k \in 1 .. 5}

(* Four keys that collide in every table, so that expanding is given up,   *)
(* and one that does not.                                                  *)
Hashes == [k \in Key |-> IF k = 5 THEN 1 ELSE 0]
===========================================================================
