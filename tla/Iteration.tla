----------------------------- MODULE Iteration -----------------------------
(***************************************************************************)
(* Recursive functions on an interval of numbers, and induction over it.   *)
(* The proofs about loops of the code that the models write as recursive   *)
(* functions rest on these facts.                                          *)
(***************************************************************************)
EXTENDS Integers, TLAPS, WellFoundedInduction

(* A set of numbers has a least element.                                   *)
LEMMA Least ==
  ASSUME NEW T \in SUBSET Nat, T # {}
  PROVE  \E i \in T : \A j \in T : i <= j
<1>1. PICK i \in T : \A j \in T : ~(<<j, i>> \in OpToRel(<, Nat))
  BY NatLessThanWellFounded, WFMin, Zenon
<1>2. \A j \in T : ~(j < i)
  BY <1>1 DEF OpToRel
<1> QED
  BY <1>2

(* A set that contains 0 and the successor of each of its members, up to   *)
(* n, is the whole interval.                                               *)
LEMMA Induction ==
  ASSUME NEW n \in Nat, NEW T \in SUBSET (0 .. n),
         0 \in T, \A i \in T : i < n => i + 1 \in T
  PROVE  T = 0 .. n
<1> DEFINE Bad == (0 .. n) \ T
<1> SUFFICES ASSUME Bad # {} PROVE FALSE
  OBVIOUS
<1>1. Bad \in SUBSET Nat
  OBVIOUS
<1>2. PICK i \in Bad : \A j \in Bad : i <= j
  <2> HIDE DEF Bad
  <2> QED
    BY <1>1, Least
<1>3. i # 0 /\ i - 1 \in 0 .. n /\ i - 1 \notin Bad
  BY <1>2
<1> QED
  BY <1>2, <1>3

(* f gives what comes of a when F[1], F[2], ... are applied, up to F[n] ... *)
Iterated(n, S, a, F, f) ==
  f \in [0 .. n -> S] /\ \A i \in 0 .. n : f[i] = IF i = 0 THEN a ELSE F[i][f[i - 1]]

(* ... and there is such an f.                                             *)
LEMMA Iterates ==
  ASSUME NEW n \in Nat, NEW S, NEW a \in S, NEW F \in [1 .. n -> [S -> S]]
  PROVE  \E f : Iterated(n, S, a, F, f)
<1> USE DEF Iterated
<1> DEFINE Good(m) == \E f \in [0 .. m -> S] :
                        \A i \in 0 .. m : f[i] = IF i = 0 THEN a ELSE F[i][f[i - 1]]
           T == {m \in 0 .. n : Good(m)}
<1>1. Good(0)
  <2> DEFINE f == [i \in 0 .. 0 |-> a]
  <2>1. f \in [0 .. 0 -> S] /\ \A i \in 0 .. 0 : i = 0 /\ f[i] = a
    OBVIOUS
  <2>2. \A i \in 0 .. 0 : f[i] = IF i = 0 THEN a ELSE F[i][f[i - 1]]
    BY <2>1
  <2> HIDE DEF f
  <2> QED
    BY <2>1, <2>2
<1>2. ASSUME NEW m \in 0 .. n, m < n, Good(m) PROVE Good(m + 1)
  <2>1. PICK f \in [0 .. m -> S] : \A i \in 0 .. m : f[i] = IF i = 0 THEN a ELSE F[i][f[i - 1]]
    BY <1>2
  <2> DEFINE g == [i \in 0 .. m + 1 |-> IF i = m + 1 THEN F[m + 1][f[m]] ELSE f[i]]
  <2>2. g \in [0 .. m + 1 -> S]
    BY <1>2, <2>1
  <2>3. \A i \in 0 .. m + 1 : g[i] = IF i = 0 THEN a ELSE F[i][g[i - 1]]
    BY <1>2, <2>1
  <2> QED
    BY <2>2, <2>3
<1>3. T = 0 .. n
  <2>1. T \in SUBSET (0 .. n) /\ 0 \in T /\ \A i \in T : i < n => i + 1 \in T
    <3> HIDE DEF Good
    <3> QED
      BY <1>1, <1>2
  <2> HIDE DEF T
  <2> QED
    BY <2>1, Induction
<1>4. Good(n)
  <2> HIDE DEF Good
  <2> QED
    BY <1>3
<1> QED
  BY <1>4
============================================================================
