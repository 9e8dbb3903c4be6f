----------------------------- MODULE CritbitMap -----------------------------
(***************************************************************************)
(* The crit-bit tree behind the functions init, add, find, del and clear   *)
(* of critbit_common.h implements the map of helper.h.                     *)
(***************************************************************************)
EXTENDS Critbit

(* The operation of helper.h that thread t is in.                          *)
OpOf(t) ==
  CASE pc[t] = "idle" -> "none"
    [] pc[t] \in {"g_rdlock", "g_head", "g_walk", "g_unlock"} -> "find"
    [] pc[t] \in {"i_near", "i_slot", "w_unlock"} -> "add"
    [] OTHER -> "del"

(* Its result, once the operation has taken effect.                        *)
ResOf(t) ==
  CASE pc[t] \in {"g_unlock", "w_unlock"} -> {ret[t]}
    [] pc[t] \in {"d_swap", "d_wait", "d_unlock"} -> {IF p[t] = NULL THEN 1 ELSE 0}
    [] pc[t] \in {"d_cmp", "d_free"} -> {0}
    [] OTHER -> {}

Map ==
  INSTANCE MapSpec WITH
    map <- TreeMap,
    op <- [t \in Thread |-> OpOf(t)],
    arg <- key, argv <- val,
    res <- [t \in Thread |-> ResOf(t)]

(* A find of a key that was not there all the time of the call does not   *)
(* return: the tree was empty when critbit_get read its head, and strcmp   *)
(* reads the NULL that find_nearest hands on.                              *)
EmptyFind ==
  \E t \in Thread :
    /\ pc[t] = "g_walk" /\ p[t] = NULL /\ NULL \in seen[t]
    /\ fault' = "null" /\ UNCHANGED Map!vars

(* The tree is the map of helper.h: every call of add, find and del takes  *)
(* effect once, between its call and its return, and returns what the map  *)
(* says, whatever the interleaving of the steps of critbit_insert,         *)
(* critbit_delete and critbit_get, as long as there is memory.  The one    *)
(* call that fails is EmptyFind, where helper.h has "returns NULL if not   *)
(* exists".                                                                *)
ImplementsMap ==
  /\ Map!Init /\ fault = "none"
  /\ [][(Map!Next /\ UNCHANGED fault) \/ EmptyFind]_<<Map!vars, fault>>
=============================================================================
