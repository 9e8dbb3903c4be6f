------------------------------ MODULE MapSpec ------------------------------
(***************************************************************************)
(* What helper.h promises of every data structure of the benchmark: a map  *)
(* from keys to values with                                                *)
(*   add   returns 0 if success, 1 if failed (already exists)              *)
(*   find  returns NULL if not exists                                      *)
(*   del   returns 0 if success, 1 if failed (not exists)                  *)
(* used by threads whose calls overlap (helper.c, get_threaded).  add and  *)
(* del take effect at one moment between call and return.  find returns a  *)
(* binding its key has had at some moment since the call, which is         *)
(* linearizability for an operation on one key.                            *)
(***************************************************************************)
CONSTANTS Thread, Key, Val, NULL

VARIABLES
  map,   (* the value bound to each key, NULL if there is none             *)
  op,    (* the operation each thread is in: "none" if none                *)
  arg,   (* its key                                                        *)
  argv,  (* the value an add is to bind                                    *)
  seen,  (* the bindings the key of a find has had since the call          *)
  res    (* {r} once the operation has taken effect with result r, else {} *)

vars == <<map, op, arg, argv, seen, res>>

Init ==
  /\ map = [k \in Key |-> NULL]
  /\ op = [t \in Thread |-> "none"]
  /\ arg = [t \in Thread |-> NULL]
  /\ argv = [t \in Thread |-> NULL]
  /\ seen = [t \in Thread |-> {}]
  /\ res = [t \in Thread |-> {}]

Begin(t, o, k, v) ==
  /\ op[t] = "none"
  /\ op' = [op EXCEPT ![t] = o]
  /\ arg' = [arg EXCEPT ![t] = k]
  /\ argv' = [argv EXCEPT ![t] = v]
  /\ seen' = [seen EXCEPT ![t] = IF o = "find" THEN {map[k]} ELSE {}]
  /\ UNCHANGED <<map, res>>

Result(t, r) == res[t] = {} /\ res' = [res EXCEPT ![t] = {r}]

(* Key k is bound to v; the finds of k under way may return it. *)
Bind(k, v) ==
  /\ map' = [map EXCEPT ![k] = v]
  /\ seen' = [t \in Thread |->
                IF op[t] = "find" /\ arg[t] = k THEN seen[t] \cup {v} ELSE seen[t]]

Add(t) ==
  /\ op[t] = "add"
  /\ \/ map[arg[t]] = NULL /\ Result(t, 0) /\ Bind(arg[t], argv[t])
     \/ map[arg[t]] # NULL /\ Result(t, 1) /\ UNCHANGED <<map, seen>>
  /\ UNCHANGED <<op, arg, argv>>

Del(t) ==
  /\ op[t] = "del"
  /\ \/ map[arg[t]] # NULL /\ Result(t, 0) /\ Bind(arg[t], NULL)
     \/ map[arg[t]] = NULL /\ Result(t, 1) /\ UNCHANGED <<map, seen>>
  /\ UNCHANGED <<op, arg, argv>>

Find(t) ==
  /\ op[t] = "find"
  /\ \E r \in seen[t] : Result(t, r)
  /\ UNCHANGED <<map, op, arg, argv, seen>>

End(t) ==
  /\ res[t] # {}
  /\ op' = [op EXCEPT ![t] = "none"]
  /\ arg' = [arg EXCEPT ![t] = NULL]
  /\ argv' = [argv EXCEPT ![t] = NULL]
  /\ seen' = [seen EXCEPT ![t] = {}]
  /\ res' = [res EXCEPT ![t] = {}]
  /\ UNCHANGED map

(* clear: removes all elements; its caller is alone. *)
Clear ==
  /\ \A t \in Thread : op[t] = "none"
  /\ map' = [k \in Key |-> NULL]
  /\ UNCHANGED <<op, arg, argv, seen, res>>

Next ==
  \/ \E t \in Thread :
       \/ \E k \in Key : Begin(t, "find", k, NULL) \/ Begin(t, "del", k, NULL)
       \/ \E k \in Key, v \in Val : Begin(t, "add", k, v)
       \/ Add(t) \/ Del(t) \/ Find(t) \/ End(t)
  \/ Clear

Spec == Init /\ [][Next]_vars
============================================================================
