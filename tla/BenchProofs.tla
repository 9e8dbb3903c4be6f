---------------------------- MODULE BenchProofs ----------------------------
(***************************************************************************)
(* Proofs about Bench, for any number of threads and iterations.           *)
(***************************************************************************)
EXTENDS Bench, TLAPS

(* The random keys Rand[lo] .. Rand[hi - 1] are bound, and no other.       *)
RandHolds(lo, hi) ==
  /\ \A j \in Index : rmap[Rand[j]] = IF lo <= j /\ j < hi THEN j ELSE None
  /\ \A k \in RandKey : (\A j \in Index : Rand[j] # k) => rmap[k] = None

(* The keys lo .. hi - 1 are bound; the key for 0 is left out.             *)
SeqHolds(lo, hi) ==
  \A k \in Index : smap[k] = IF lo <= k /\ k < hi THEN k ELSE None

(* What the map holds in every phase.                                      *)
RandInv ==
  CASE phase = "set_rand" -> RandHolds(1, i)
    [] phase = "get_rand" -> RandHolds(1, Iter)
    [] phase = "cleanup_rand" -> RandHolds(i, Iter)
    [] OTHER -> RandHolds(Iter, Iter)

SeqInv ==
  CASE phase \in {"set_rand", "get_rand", "cleanup_rand"} -> SeqHolds(1, 1)
    [] phase = "set" -> SeqHolds(1, i)
    [] phase = "get_threaded" -> MissingIsPending
    [] phase = "cleanup" -> SeqHolds(i, Iter)
    [] OTHER -> SeqHolds(Iter, Iter)

(* The threads run in get_threaded only, and main then waits for them.     *)
ThreadInv ==
  /\ \A t \in Thread : tpc[t] = "add" => ti[t] < Iter
  /\ CASE phase \in {"set_rand", "get_rand", "cleanup_rand", "set"} ->
            \A t \in Thread : tpc[t] = "none"
       [] phase = "get_threaded" -> i = 1
       [] OTHER -> \A t \in Thread : tpc[t] = "done"

Inv == TypeOK /\ ~exited /\ RandInv /\ SeqInv /\ ThreadInv

(* The program starts in the invariant ...                                 *)
LEMMA InvInit == Init => Inv
<1> SUFFICES ASSUME Init PROVE Inv
  OBVIOUS
<1>1. TypeOK /\ ~exited
  <2>1. 1 \in 1 .. Iter /\ 0 \in SeqKey
    BY BenchAssumption DEF SeqKey
  <2> QED
    BY <2>1 DEF Init, TypeOK, Phases
<1>2. RandInv
  BY BenchAssumption DEF Init, RandInv, RandHolds, Index
<1>3. SeqInv /\ ThreadInv
  BY BenchAssumption DEF Init, SeqInv, ThreadInv, SeqHolds, Index, SeqKey
<1> QED
  BY <1>1, <1>2, <1>3 DEF Inv

(* Every step of main and of the threads keeps the invariant.              *)
LEMMA InvStep == Inv /\ [Next]_vars => Inv'
<1> SUFFICES ASSUME Inv, [Next]_vars PROVE Inv'
  OBVIOUS
<1> USE BenchAssumption DEF Inv, TypeOK, Phases, After, Index, SeqKey, RandInv, SeqInv, ThreadInv,
        RandHolds, SeqHolds, MissingIsPending, InLoop, Continue, Exit, vars, mainvars, threads
<1>1. CASE SetRand
  <2>1. rmap[Rand[i]] = None /\ i \in Index
    BY <1>1 DEF SetRand
  <2>2. /\ rmap' = [rmap EXCEPT ![Rand[i]] = i] /\ i' = i + 1
        /\ UNCHANGED <<phase, exited, smap, threads>>
    BY <1>1, <2>1 DEF SetRand
  <2>3. RandInv'
    BY <1>1, <2>1, <2>2 DEF SetRand
  <2> HIDE DEF RandInv
  <2> QED
    BY <1>1, <2>1, <2>2, <2>3 DEF SetRand
<1>2. CASE GetRand
  BY <1>2 DEF GetRand
<1>3. CASE CleanupRand
  BY <1>3 DEF CleanupRand
<1>4. CASE Set
  <2>1. smap[i] = None /\ i \in Index
    BY <1>4 DEF Set
  <2>2. /\ smap' = [smap EXCEPT ![i] = i] /\ i' = i + 1
        /\ UNCHANGED <<phase, exited, rmap, threads>>
    BY <1>4, <2>1 DEF Set
  <2>3. SeqInv'
    BY <1>4, <2>1, <2>2 DEF Set
  <2> HIDE DEF SeqInv
  <2> QED
    BY <1>4, <2>1, <2>2, <2>3 DEF Set
<1>5. CASE Cleanup
  <2>1. smap[i] = i /\ i \in Index
    BY <1>5 DEF Cleanup
  <2>2. /\ smap' = [smap EXCEPT ![i] = None] /\ i' = i + 1
        /\ UNCHANGED <<phase, exited, rmap, threads>>
    BY <1>5, <2>1 DEF Cleanup
  <2>3. SeqInv'
    BY <1>5, <2>1, <2>2 DEF Cleanup
  <2> HIDE DEF SeqInv
  <2> QED
    BY <1>5, <2>1, <2>2, <2>3 DEF Cleanup
<1>6. CASE EndLoop
  BY <1>6 DEF EndLoop
<1>7. CASE Join
  BY <1>7 DEF Join
<1>8. CASE Clear
  BY <1>8 DEF Clear
<1>9. ASSUME NEW t \in Thread, Create(t) PROVE Inv'
  BY <1>9 DEF Create
<1>10. ASSUME NEW t \in Thread, ThreadFind(t) PROVE Inv'
  BY <1>10 DEF ThreadFind
<1>11. ASSUME NEW t \in Thread, ThreadDel(t) PROVE Inv'
  BY <1>11 DEF ThreadDel
<1>12. ASSUME NEW t \in Thread, ThreadAdd(t) PROVE Inv'
  <2>1. phase = "get_threaded" /\ tn[t] \in SeqKey
    BY <1>12 DEF ThreadAdd
  <2>2. TypeOK'
    <3>1. ti[t] + 1 \in 1 .. Iter
      BY <1>12, <2>1 DEF ThreadAdd
    <3> QED
      BY <1>12, <2>1, <3>1 DEF ThreadAdd
  <2>3. MissingIsPending'
    BY <1>12, <2>1 DEF ThreadAdd
  <2>4. UNCHANGED <<mainvars, rmap>>
    BY <1>12 DEF ThreadAdd
  <2>5. ThreadInv'
    BY <1>12, <2>1 DEF ThreadAdd
  <2> HIDE DEF MissingIsPending, ThreadInv
  <2> QED
    BY <2>1, <2>2, <2>3, <2>4, <2>5
<1>13. ASSUME NEW t \in Thread, ThreadDone(t) PROVE Inv'
  BY <1>13 DEF ThreadDone
<1>14. CASE UNCHANGED vars
  BY <1>14
<1> HIDE DEF Inv
<1>15. QED
  BY <1>1, <1>2, <1>3, <1>4, <1>5, <1>6, <1>7, <1>8, <1>9, <1>10, <1>11, <1>12, <1>13, <1>14
     DEF Next, Main, GetThread

(* ... and never leaves it.                                                *)
LEMMA InvAlways == Spec => []Inv
BY InvInit, InvStep, PTL DEF Spec

(* The variables of the benchmark keep their types.                        *)
THEOREM BenchTypes == Spec => []TypeOK
<1>1. Inv => TypeOK
  BY DEF Inv
<1> QED
  BY <1>1, InvAlways, PTL

(* The benchmark never calls exit(-1), however its threads interleave.     *)
THEOREM BenchNeverExits == Spec => []NeverExits
<1>1. Inv => NeverExits
  BY DEF Inv, NeverExits
<1> QED
  BY <1>1, InvAlways, PTL

(* A key is missing from get_threaded only between a del and its add.      *)
THEOREM BenchMissingIsPending == Spec => []MissingIsPending
<1>1. Inv => MissingIsPending
  BY DEF Inv, SeqInv, MissingIsPending, TypeOK, Phases
<1> QED
  BY <1>1, InvAlways, PTL

(* main calls clear on a map that holds at most the key for 0.             *)
THEOREM BenchLeavesOnlyZero == Spec => []LeavesOnlyZero
<1>1. Inv => LeavesOnlyZero
  BY BenchAssumption DEF Inv, RandInv, SeqInv, RandHolds, SeqHolds, LeavesOnlyZero, Index
<1> QED
  BY <1>1, InvAlways, PTL
============================================================================
