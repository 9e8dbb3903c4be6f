------------------------------ MODULE MCBench ------------------------------
(***************************************************************************)
(* Bench with a few threads, iterations and keys.                          *)
(***************************************************************************)
EXTENDS Bench

MCRand == [j \in Index |-> j]
============================================================================
