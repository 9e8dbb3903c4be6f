---------------------------- MODULE RedisDictMap ----------------------------
(***************************************************************************)
(* The functions add, find, del and clear at the end of redisdict.c, and   *)
(* that they implement the map of helper.h for one caller at a time, also  *)
(* while that caller iterates and has the tables replaced in between.      *)
(***************************************************************************)
EXTENDS RedisDict

VARIABLES op, arg, argv, res   (* the call under way, its arguments and result *)

call == <<op, arg, argv, res>>
mapvars == <<vars, call>>

MapInit == Init /\ op = "none" /\ arg = NULL /\ argv = NULL /\ res = {}

Begin(o, k, v) ==
  /\ op = "none"
  /\ op' = o /\ arg' = k /\ argv' = v
  /\ UNCHANGED <<vars, res>>

In(o) == op = o /\ res = {} /\ UNCHANGED <<op, arg, argv>>

Add ==
  /\ In("add")
  /\ DictAdd(arg, argv)
  /\ res' = {IF Found(Room(d), arg) = {} THEN 0 ELSE 1}

Find ==
  /\ In("find")
  /\ DictFind(arg)
  /\ res' = {IF Found(Searched(d), arg) = {} THEN NULL ELSE val[arg]}

Del ==
  /\ In("del")
  /\ DictDelete(arg)
  /\ res' = {IF Found(Searched(d), arg) = {} THEN 1 ELSE 0}

End ==
  /\ res # {}
  /\ op' = "none" /\ arg' = NULL /\ argv' = NULL /\ res' = {}
  /\ UNCHANGED vars

Clear ==
  /\ op = "none"
  /\ DictEmpty
  /\ UNCHANGED call

(* Calls between these that do not change the map. *)
Between ==
  /\ op = "none"
  /\ Tune \/ \E i \in Iter : Iterate(i)
  /\ UNCHANGED call

MapNext ==
  \/ \E k \in Key :
       \/ May("find") /\ Begin("find", k, NULL)
       \/ MayDelete(k) /\ Begin("del", k, NULL)
       \/ \E v \in Val : May("add") /\ Begin("add", k, v)
  \/ Add \/ Find \/ Del \/ End \/ Clear
  \/ Between

DictMapSpec == MapInit /\ [][MapNext]_mapvars

(* What a search of both tables finds for every key. *)
Holds == [k \in Key |-> IF Found(d, k) = {} THEN NULL ELSE val[k]]

Caller == {"main"}
Of(x) == [t \in Caller |-> x]

Map ==
  INSTANCE MapSpec WITH
    Thread <- Caller,
    map <- Holds,
    op <- Of(op), arg <- Of(arg), argv <- Of(argv), res <- Of(res),
    seen <- Of(IF op = "find" THEN {Holds[arg]} ELSE {})

(* The dictionary is the map of helper.h: add and del succeed exactly when *)
(* the key is absent, or present, find returns what was added, and neither *)
(* the buckets that move in the course of each call nor a table that       *)
(* grows changes what the map holds.                                       *)
ImplementsMap == Map!Spec
=============================================================================
