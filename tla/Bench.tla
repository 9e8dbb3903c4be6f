------------------------------- MODULE Bench -------------------------------
(***************************************************************************)
(* The benchmark program of helper.c: main runs set_rand, get_rand,        *)
(* cleanup_rand, set, get_threaded, cleanup and clear on a map, and exits  *)
(* with an error when an operation does not return what it must.  In       *)
(* get_threaded many threads delete and add keys again at the same time.   *)
(*                                                                         *)
(* The map is the one of MapSpec, its add, find and del atomic.            *)
(***************************************************************************)
EXTENDS Integers

CONSTANTS
  Thread,   (* the NUM_THREADS threads of get_threaded                     *)
  Iter,     (* the iterations of every phase (ITER)                        *)
  Period,   (* a thread deletes and adds in every Period-th iteration: 200 *)
  RandKey,  (* the keys fill_rand makes                                    *)
  Rand,     (* Rand[i]: the i-th key after srand(RANDOM_SEED)              *)
  None      (* no binding                                                  *)

Index == 1 .. Iter - 1
SeqKey == 0 .. Iter - 1   (* the keys sprintf makes, by their number       *)

(* fill_rand makes a different key each time: 70 random bits.              *)
ASSUME BenchAssumption ==
  /\ Iter \in Nat \ {0}
  /\ Period \in Nat \ {0}
  /\ Rand \in [Index -> RandKey]
  /\ \A i, j \in Index : i # j => Rand[i] # Rand[j]
  /\ None \notin Nat

VARIABLES
  phase,    (* the function main is in                                     *)
  i,        (* its loop counter                                            *)
  rmap,     (* the bindings of the random keys                             *)
  smap,     (* the bindings of the other keys                              *)
  exited,   (* exit(-1) was called                                         *)
  tpc, ti, tn   (* the threads: where they are, i and n of get_thread      *)

mainvars == <<phase, i, exited>>
threads == <<tpc, ti, tn>>
vars == <<mainvars, rmap, smap, threads>>

Phases == {"set_rand", "get_rand", "cleanup_rand", "set", "get_threaded",
           "cleanup", "clear", "end"}

After ==
  [f \in Phases |->
     CASE f = "set_rand" -> "get_rand"
       [] f = "get_rand" -> "cleanup_rand"
       [] f = "cleanup_rand" -> "set"
       [] f = "set" -> "get_threaded"
       [] f = "get_threaded" -> "cleanup"
       [] f = "cleanup" -> "clear"
       [] OTHER -> "end"]

TypeOK ==
  /\ phase \in Phases
  /\ i \in 1 .. Iter
  /\ rmap \in [RandKey -> Index \cup {None}]
  /\ smap \in [SeqKey -> SeqKey \cup {None}]
  /\ exited \in BOOLEAN
  /\ tpc \in [Thread -> {"none", "loop", "add", "done"}]
  /\ ti \in [Thread -> 1 .. Iter]
  /\ tn \in [Thread -> SeqKey]

Init ==
  /\ phase = "set_rand"
  /\ i = 1
  /\ rmap = [k \in RandKey |-> None]
  /\ smap = [k \in SeqKey |-> None]
  /\ exited = FALSE
  /\ tpc = [t \in Thread |-> "none"]
  /\ ti = [t \in Thread |-> 1]
  /\ tn = [t \in Thread |-> 0]

(* Iteration i of the loop of function f goes well, or calls exit(-1).     *)
InLoop(f) == ~exited /\ phase = f /\ i < Iter
Continue == i' = i + 1 /\ UNCHANGED <<phase, exited>>
Exit == exited' = TRUE /\ UNCHANGED <<phase, i>>

SetRand ==
  /\ InLoop("set_rand")
  /\ IF rmap[Rand[i]] = None
     THEN Continue /\ rmap' = [rmap EXCEPT ![Rand[i]] = i]
     ELSE Exit /\ UNCHANGED rmap
  /\ UNCHANGED <<smap, threads>>

GetRand ==
  /\ InLoop("get_rand")
  /\ IF rmap[Rand[i]] = i THEN Continue ELSE Exit
  /\ UNCHANGED <<rmap, smap, threads>>

CleanupRand_Nothing ==   (* mutant: deletes nothing *)
  InLoop("cleanup_rand") /\ Continue /\ UNCHANGED <<rmap, smap, threads>>
(* A failing del is only reported. *)
CleanupRand ==
  /\ InLoop("cleanup_rand")
  /\ rmap' = [rmap EXCEPT ![Rand[i]] = None]
  /\ Continue
  /\ UNCHANGED <<smap, threads>>

Set ==
  /\ InLoop("set")
  /\ IF smap[i] = None
     THEN Continue /\ smap' = [smap EXCEPT ![i] = i]
     ELSE Exit /\ UNCHANGED smap
  /\ UNCHANGED <<rmap, threads>>

Cleanup ==
  /\ InLoop("cleanup")
  /\ IF smap[i] # None
     THEN Continue /\ smap' = [smap EXCEPT ![i] = None]
     ELSE Exit /\ UNCHANGED smap
  /\ UNCHANGED <<rmap, threads>>

(* main goes on to the next function. *)
EndLoop ==
  /\ ~exited
  /\ phase \in {"set_rand", "get_rand", "cleanup_rand", "set", "cleanup"} /\ i = Iter
  /\ phase' = After[phase]
  /\ i' = 1
  /\ UNCHANGED <<exited, rmap, smap, threads>>

(* pthread_create *)
Create(t) ==
  /\ ~exited /\ phase = "get_threaded"
  /\ tpc[t] = "none"
  /\ tpc' = [tpc EXCEPT ![t] = "loop"]
  /\ UNCHANGED <<mainvars, rmap, smap, ti, tn>>

(* pthread_join of all threads *)
Join ==
  /\ ~exited /\ phase = "get_threaded"
  /\ \A t \in Thread : tpc[t] = "done"
  /\ phase' = After[phase]
  /\ UNCHANGED <<i, exited, rmap, smap, threads>>

(* get_thread: find a key, whatever it is bound to ... *)
ThreadFind(t) ==
  /\ tpc[t] = "loop" /\ ti[t] < Iter
  /\ ti[t] % Period # 0
  /\ ti' = [ti EXCEPT ![t] = @ + 1]
  /\ UNCHANGED <<mainvars, rmap, smap, tpc, tn>>

ThreadDel_OtherKey(t) ==   (* mutant: n is drawn again for the add *)
  /\ tpc[t] = "loop" /\ ti[t] < Iter
  /\ ti[t] % Period = 0
  /\ \E n, m \in SeqKey :
       /\ tn' = [tn EXCEPT ![t] = m]
       /\ smap' = [smap EXCEPT ![n] = None]
  /\ tpc' = [tpc EXCEPT ![t] = "add"]
  /\ UNCHANGED <<mainvars, rmap, ti>>
(* ... or delete it, bound or not, ... *)
ThreadDel(t) ==
  /\ tpc[t] = "loop" /\ ti[t] < Iter
  /\ ti[t] % Period = 0
  /\ \E n \in SeqKey :
       /\ tn' = [tn EXCEPT ![t] = n]
       /\ smap' = [smap EXCEPT ![n] = None]
  /\ tpc' = [tpc EXCEPT ![t] = "add"]
  /\ UNCHANGED <<mainvars, rmap, ti>>

ThreadAdd_Dropped(t) ==   (* mutant: the key is not added again *)
  /\ tpc[t] = "add"
  /\ tpc' = [tpc EXCEPT ![t] = "loop"]
  /\ ti' = [ti EXCEPT ![t] = @ + 1]
  /\ UNCHANGED <<mainvars, rmap, smap, tn>>
(* ... and add it again, unless another thread has. *)
ThreadAdd(t) ==
  /\ tpc[t] = "add"
  /\ smap' = IF smap[tn[t]] = None THEN [smap EXCEPT ![tn[t]] = tn[t]] ELSE smap
  /\ tpc' = [tpc EXCEPT ![t] = "loop"]
  /\ ti' = [ti EXCEPT ![t] = @ + 1]
  /\ UNCHANGED <<mainvars, rmap, tn>>

ThreadDone_OffByOne(t) ==   (* mutant: the loop bound is never met *)
  /\ tpc[t] = "loop" /\ ti[t] > Iter
  /\ tpc' = [tpc EXCEPT ![t] = "done"]
  /\ UNCHANGED <<mainvars, rmap, smap, ti, tn>>
ThreadDone(t) ==
  /\ tpc[t] = "loop" /\ ti[t] = Iter
  /\ tpc' = [tpc EXCEPT ![t] = "done"]
  /\ UNCHANGED <<mainvars, rmap, smap, ti, tn>>

Clear ==
  /\ ~exited /\ phase = "clear"
  /\ rmap' = [k \in RandKey |-> None]
  /\ smap' = [k \in SeqKey |-> None]
  /\ phase' = After[phase]
  /\ UNCHANGED <<i, exited, threads>>

Main == SetRand \/ GetRand \/ CleanupRand \/ Set \/ EndLoop \/ Join \/ Cleanup \/ Clear
GetThread(t) == ThreadFind(t) \/ ThreadDel(t) \/ ThreadAdd(t) \/ ThreadDone(t)

Next == Main \/ \E t \in Thread : Create(t) \/ GetThread(t)

Spec == Init /\ [][Next]_vars

(* main and the threads it has created keep running. *)
Fairness == WF_vars(Main) /\ \A t \in Thread : WF_vars(Create(t)) /\ WF_vars(GetThread(t))
FairSpec == Spec /\ Fairness

-----------------------------------------------------------------------------
(* No operation fails that the program expects to succeed: it never calls  *)
(* exit(-1).  In cleanup this says that get_threaded left every key in the *)
(* map, although its threads delete the same keys at the same time and     *)
(* ignore the results of del and add.                                      *)
NeverExits == ~exited

(* While the threads run, a key is missing only as long as some thread is  *)
(* between its del and its add of that key, and a key that is there has    *)
(* the value that set gave it.                                             *)
MissingIsPending ==
  phase = "get_threaded" =>
    \A k \in Index :
      \/ smap[k] = k
      \/ smap[k] = None /\ \E t \in Thread : tpc[t] = "add" /\ tn[t] = k

(* When main calls clear, no key is left but the one for 0, which set does *)
(* not add and cleanup does not delete, but a thread may have added.       *)
LeavesOnlyZero ==
  phase = "clear" =>
    /\ \A k \in RandKey : rmap[k] = None
    /\ \A k \in Index : smap[k] = None

(* The program comes to its end.                                           *)
Finishes == <>(phase = "end")
============================================================================
