-------------------------- MODULE RedisDictProofs --------------------------
(***************************************************************************)
(* Proofs about RedisDict and RedisDictMap, for any hash function, any     *)
(* number of keys and any sequence of calls: every entry has one place     *)
(* through all rehashing, the counter of safe iterators is exact, the      *)
(* chains stay short, an iteration returns every entry exactly once, and   *)
(* add, find, del and clear implement the map of helper.h.                 *)
(***************************************************************************)
EXTENDS RedisDict, RedisDictMap, Iteration, FiniteSetTheorems

-----------------------------------------------------------------------------
(* What the operators on the dictionary's tables do: which entries a table *)
(* holds after a push, a removal, the move of a bucket, a rehashing or an  *)
(* expansion.                                                              *)

(* Bucket b of n: a chain of different keys that belong there.             *)
ChainOK(c, n, b) ==
  /\ c \in Seq(Key)
  /\ \A x \in 1 .. Len(c) : Hash[c[x]] % n = b
  /\ \A x, y \in 1 .. Len(c) : c[x] = c[y] => x = y

TableRec ==
  [size : Nat, used : Nat, table : UNION {[0 .. n - 1 -> Seq(Key)] : n \in Nat}]
DictRec == [ht : [{0, 1} -> TableRec], rehashidx : Int, iterators : Int]

(* The keys a table holds. *)
Home(t) == {k \in Key : t.size > 0 /\ Contains(Bucket(t, k), k)}

TableOK(t) ==
  /\ t \in TableRec
  /\ t.size \in PowersOfTwo \cup {0}
  /\ t.table \in [Slots(t) -> Seq(Key)]
  /\ \A b \in Slots(t) : ChainOK(t.table[b], t.size, b)
  /\ t.used = Cardinality(Home(t))

-----------------------------------------------------------------------------
(* Powers of two, and chains.                                              *)

(* TwoTo is defined by its equation.                                       *)
LEMMA TwoToEquation ==
  /\ \A i \in 0 .. Width : TwoTo[i] \in Nat
  /\ TwoTo[0] = 1
  /\ \A i \in 0 .. Width : i # 0 => TwoTo[i] = 2 * TwoTo[i - 1]
<1> DEFINE D == [x \in Nat |-> 2 * x]
           F == [i \in 1 .. Width |-> D]
           E(f) == f = [i \in 0 .. Width |-> IF i = 0 THEN 1 ELSE 2 * f[i - 1]]
<1>1. F \in [1 .. Width -> [Nat -> Nat]] /\ 1 \in Nat /\ Width \in Nat
  BY DictAssumption
<1>2. PICK f : Iterated(Width, Nat, 1, F, f)
  <2> HIDE DEF F
  <2> QED
    BY <1>1, Iterates
<1>3. \A i \in 0 .. Width : f[i] = IF i = 0 THEN 1 ELSE 2 * f[i - 1]
  <2> SUFFICES ASSUME NEW i \in 0 .. Width PROVE f[i] = IF i = 0 THEN 1 ELSE 2 * f[i - 1]
    OBVIOUS
  <2>1. CASE i = 0
    BY <1>2, <2>1 DEF Iterated
  <2>2. CASE i # 0
    <3>1. i \in 1 .. Width /\ i - 1 \in 0 .. Width
      BY <1>1, <2>2
    <3>2. f[i - 1] \in Nat /\ f[i] = F[i][f[i - 1]]
      BY <1>2, <2>2, <3>1 DEF Iterated
    <3> QED
      BY <2>2, <3>1, <3>2
  <2> QED
    BY <2>1, <2>2
<1>4. E(f)
  BY <1>2, <1>3 DEF Iterated
<1>5. E(TwoTo)
  BY <1>4 DEF TwoTo
<1>6. \A i \in 0 .. Width : TwoTo[i] = f[i]
  <2> DEFINE T == {i \in 0 .. Width : TwoTo[i] = f[i]}
  <2>1. 0 \in T
    BY <1>1, <1>3, <1>5
  <2>2. ASSUME NEW i \in T, i < Width PROVE i + 1 \in T
    <3>1. i + 1 \in 0 .. Width /\ i + 1 # 0 /\ (i + 1) - 1 = i
      BY <1>1, <2>2
    <3>2. TwoTo[i + 1] = 2 * TwoTo[i]
      BY <1>5, <3>1
    <3>3. f[i + 1] = 2 * f[i]
      BY <1>3, <3>1
    <3> QED
      BY <3>1, <3>2, <3>3
  <2>3. T \in SUBSET (0 .. Width)
    OBVIOUS
  <2>4. T = 0 .. Width
    <3> HIDE DEF T
    <3> QED
      BY <1>1, <2>1, <2>2, <2>3, Induction
  <2> QED
    BY <2>4
<1>7. \A i \in 0 .. Width : TwoTo[i] \in Nat
  BY <1>2, <1>6 DEF Iterated
<1> QED
  BY <1>1, <1>5, <1>7

(* The powers are positive and the last one is the greatest.               *)
LEMMA Powers ==
  /\ TwoTo[Width] \in PowersOfTwo
  /\ \A n \in PowersOfTwo : n \in Nat /\ n > 0 /\ n <= TwoTo[Width]
<1>1. Width \in Nat
  BY DictAssumption
<1>2. \A i \in 0 .. Width : TwoTo[i] > 0
  <2> DEFINE T == {i \in 0 .. Width : TwoTo[i] > 0}
  <2>1. T \in SUBSET (0 .. Width) /\ 0 \in T
    BY <1>1, TwoToEquation
  <2>2. ASSUME NEW i \in T, i < Width PROVE i + 1 \in T
    <3>1. i + 1 \in 0 .. Width /\ i + 1 # 0 /\ (i + 1) - 1 = i
      BY <1>1, <2>2
    <3> QED
      BY <3>1, TwoToEquation
  <2>3. T = 0 .. Width
    <3> HIDE DEF T
    <3> QED
      BY <1>1, <2>1, <2>2, Induction
  <2> QED
    BY <2>3
<1>3. \A i \in 0 .. Width : TwoTo[Width - i] <= TwoTo[Width]
  <2> DEFINE T == {i \in 0 .. Width : TwoTo[Width - i] <= TwoTo[Width]}
  <2>1. T \in SUBSET (0 .. Width) /\ 0 \in T
    BY <1>1, TwoToEquation
  <2>2. ASSUME NEW i \in T, i < Width PROVE i + 1 \in T
    <3>1. i + 1 \in 0 .. Width /\ Width - i \in 0 .. Width /\ Width - i # 0
          /\ (Width - i) - 1 = Width - (i + 1) /\ Width - (i + 1) \in 0 .. Width
      BY <1>1, <2>2
    <3>2. TwoTo[Width - i] = 2 * TwoTo[Width - (i + 1)]
      BY <3>1, TwoToEquation
    <3> QED
      BY <1>1, <1>2, <3>1, <3>2, TwoToEquation
  <2>3. T = 0 .. Width
    <3> HIDE DEF T
    <3> QED
      BY <1>1, <2>1, <2>2, Induction
  <2> QED
    BY <2>3
<1>4. \A i \in 0 .. Width : TwoTo[i] <= TwoTo[Width]
  <2> TAKE i \in 0 .. Width
  <2>1. Width - i \in 0 .. Width /\ Width - (Width - i) = i
    BY <1>1
  <2> QED
    BY <1>3, <2>1
<1> QED
  BY <1>1, <1>2, <1>4, TwoToEquation DEF PowersOfTwo

(* _dictNextPower finds a power.                                           *)
LEMMA NextPowerOK ==
  ASSUME NEW n \in Nat, n <= TwoTo[Width]
  PROVE  NextPower(n) \in PowersOfTwo /\ NextPower(n) >= n
<1> DEFINE S == {q \in PowersOfTwo : q >= n /\ q >= InitialSize}
<1>1. TwoTo[Width] \in S /\ S \in SUBSET Nat
  BY Powers, DictAssumption
<1>2. PICK q \in S : \A r \in S : q <= r
  <2> HIDE DEF S
  <2> QED
    BY <1>1, Least
<1>3. NextPower(n) = CHOOSE x \in S : \A y \in S : x =< y
  BY DEF NextPower, Min
<1>4. NextPower(n) \in S
  <2> HIDE DEF S
  <2> QED
    BY <1>2, <1>3
<1> QED
  BY <1>4

(* A quotient that is not 0.                                               *)
LEMMA AtLeastOnce ==
  ASSUME NEW a \in Nat, NEW n \in Nat, n > 0, NEW r \in Nat, a \div n > r
  PROVE  a >= n
BY Z3

(* A new first entry, and an entry less.                                   *)
LEMMA ChainPush ==
  ASSUME NEW c, NEW n, NEW b, ChainOK(c, n, b), NEW k \in Key, Hash[k] % n = b, ~Contains(c, k)
  PROVE  /\ ChainOK(<<k>> \o c, n, b)
         /\ \A j : Contains(<<k>> \o c, j) <=> j = k \/ Contains(c, j)
<1> DEFINE e == <<k>> \o c
<1>1. /\ e \in Seq(Key) /\ Len(e) = Len(c) + 1 /\ Len(c) \in Nat
      /\ e[1] = k /\ \A x \in 2 .. Len(c) + 1 : e[x] = c[x - 1]
  BY DEF ChainOK
<1>2. \A x \in 1 .. Len(c) : c[x] # k /\ x + 1 \in 2 .. Len(c) + 1 /\ e[x + 1] = c[x]
  BY <1>1 DEF Contains
<1> HIDE DEF e
<1>3. ChainOK(e, n, b)
  <2>1. ASSUME NEW x \in 1 .. Len(e) PROVE x = 1 \/ (x - 1 \in 1 .. Len(c) /\ e[x] = c[x - 1])
    BY <1>1
  <2>2. ASSUME NEW x \in 1 .. Len(e) PROVE Hash[e[x]] % n = b
    <3>1. CASE x = 1
      BY <1>1, <3>1
    <3>2. CASE x - 1 \in 1 .. Len(c) /\ e[x] = c[x - 1]
      BY <3>2 DEF ChainOK
    <3> QED
      BY <2>1, <3>1, <3>2
  <2>3. ASSUME NEW x \in 1 .. Len(e), NEW y \in 1 .. Len(e), e[x] = e[y] PROVE x = y
    <3>1. CASE x = 1
      BY <1>1, <1>2, <2>1, <2>3, <3>1
    <3>2. CASE y = 1
      BY <1>1, <1>2, <2>1, <2>3, <3>2
    <3>3. CASE x # 1 /\ y # 1
      <4>1. x - 1 \in 1 .. Len(c) /\ y - 1 \in 1 .. Len(c) /\ c[x - 1] = c[y - 1]
        BY <2>1, <2>3, <3>3
      <4>2. x - 1 = y - 1
        BY <4>1 DEF ChainOK
      <4> QED
        BY <1>1, <4>2
    <3> QED
      BY <3>1, <3>2, <3>3
  <2> QED
    BY <1>1, <2>2, <2>3 DEF ChainOK
<1>4. ASSUME NEW j PROVE Contains(e, j) <=> j = k \/ Contains(c, j)
  <2>1. 1 \in 1 .. Len(e)
    BY <1>1
  <2>2. ASSUME NEW x \in 1 .. Len(c) PROVE x + 1 \in 1 .. Len(e) /\ e[x + 1] = c[x]
    BY <1>1, <1>2
  <2>3. ASSUME NEW x \in 1 .. Len(e) PROVE x = 1 \/ (x - 1 \in 1 .. Len(c) /\ e[x] = c[x - 1])
    BY <1>1
  <2> QED
    BY ZenonT(60), <1>1, <2>1, <2>2, <2>3 DEF Contains
<1> QED
  BY <1>3, <1>4 DEF e

(* RemoveAt closes the gap.                                                *)
LEMMA Removed ==
  ASSUME NEW c \in Seq(Key), NEW i \in 1 .. Len(c)
  PROVE  /\ RemoveAt(c, i) \in Seq(Key) /\ Len(RemoveAt(c, i)) = Len(c) - 1
         /\ \A x \in 1 .. Len(c) - 1 : RemoveAt(c, i)[x] = IF x < i THEN c[x] ELSE c[x + 1]
<1> DEFINE f == SubSeq(c, 1, i - 1)
           g == SubSeq(c, i + 1, Len(c))
<1>1. /\ f \in Seq(Key) /\ Len(f) = i - 1 /\ \A x \in 1 .. i - 1 : f[x] = c[x]
  OBVIOUS
<1>2. /\ g \in Seq(Key) /\ Len(g) = Len(c) - i /\ \A x \in 1 .. Len(c) - i : g[x] = c[x + i]
  OBVIOUS
<1> HIDE DEF f, g
<1>3. f \o g \in Seq(Key) /\ Len(f \o g) = Len(c) - 1
  BY <1>1, <1>2
<1>4. ASSUME NEW x \in 1 .. Len(c) - 1 PROVE (f \o g)[x] = IF x < i THEN c[x] ELSE c[x + 1]
  <2>1. CASE x < i
    BY <1>1, <1>2, <2>1
  <2>2. CASE ~(x < i)
    <3>1. x - (i - 1) \in 1 .. Len(c) - i /\ (x - (i - 1)) + i = x + 1
      BY <2>2
    <3>2. (f \o g)[x] = g[x - (i - 1)]
      BY <1>1, <1>2, <2>2
    <3> QED
      BY <1>2, <2>2, <3>1, <3>2
  <2> QED
    BY <2>1, <2>2
<1> QED
  BY <1>3, <1>4 DEF RemoveAt, f, g

(* An entry that leaves its chain leaves it once, and takes no other with  *)
(* it.                                                                     *)
LEMMA ChainDrop ==
  ASSUME NEW c, NEW n, NEW b, ChainOK(c, n, b), NEW i \in 1 .. Len(c)
  PROVE  /\ RemoveFirst(c, c[i]) = RemoveAt(c, i)
         /\ ChainOK(RemoveAt(c, i), n, b)
         /\ \A j : Contains(RemoveAt(c, i), j) <=> j # c[i] /\ Contains(c, j)
<1> DEFINE e == RemoveAt(c, i)
<1>1. /\ c \in Seq(Key) /\ e \in Seq(Key) /\ Len(e) = Len(c) - 1 /\ Len(c) \in Nat
      /\ \A x \in 1 .. Len(c) - 1 : e[x] = IF x < i THEN c[x] ELSE c[x + 1]
  BY Removed DEF ChainOK
<1>2. RemoveFirst(c, c[i]) = e
  <2> DEFINE I == {x \in 1 .. Len(c) : c[x] = c[i]}
  <2>1. I = {i}
    BY DEF ChainOK
  <2>2. Min(I) = i
    BY <2>1 DEF Min
  <2>3. SelectInSeq(c, LAMBDA v : v = c[i]) = i
    BY <2>1, <2>2 DEF SelectInSeq
  <2> QED
    BY <2>3 DEF RemoveFirst
<1> HIDE DEF e
<1> DEFINE Old(x) == IF x < i THEN x ELSE x + 1
<1>3. \A x \in 1 .. Len(e) : Old(x) \in 1 .. Len(c) /\ Old(x) # i /\ e[x] = c[Old(x)]
  BY <1>1
<1>4. \A x, y \in 1 .. Len(e) : Old(x) = Old(y) => x = y
  BY <1>1
<1>5. \A z \in 1 .. Len(c) : z # i => \E x \in 1 .. Len(e) : Old(x) = z
  <2> SUFFICES ASSUME NEW z \in 1 .. Len(c), z # i PROVE \E x \in 1 .. Len(e) : Old(x) = z
    OBVIOUS
  <2>1. CASE z < i
    <3>1. z \in 1 .. Len(e) /\ Old(z) = z
      BY <1>1, <2>1
    <3> QED
      BY <3>1
  <2>2. CASE ~(z < i)
    <3>1. z - 1 \in 1 .. Len(e) /\ Old(z - 1) = z
      BY <1>1, <2>2
    <3> QED
      BY <3>1
  <2> QED
    BY <2>1, <2>2
<1> HIDE DEF Old
<1>6. ChainOK(e, n, b)
  <2>1. \A x \in 1 .. Len(e) : Hash[e[x]] % n = b
    BY <1>3 DEF ChainOK
  <2>2. \A x, y \in 1 .. Len(e) : e[x] = e[y] => x = y
    <3> SUFFICES ASSUME NEW x \in 1 .. Len(e), NEW y \in 1 .. Len(e), e[x] = e[y] PROVE x = y
      OBVIOUS
    <3>1. Old(x) = Old(y)
      BY <1>3 DEF ChainOK
    <3> QED
      BY <1>4, <3>1
  <2> QED
    BY <1>1, <2>1, <2>2 DEF ChainOK
<1>7. ASSUME NEW j PROVE Contains(e, j) <=> j # c[i] /\ Contains(c, j)
  <2>1. ASSUME Contains(e, j) PROVE j # c[i] /\ Contains(c, j)
    <3>1. PICK x \in 1 .. Len(e) : e[x] = j
      BY <2>1 DEF Contains
    <3>2. Old(x) \in 1 .. Len(c) /\ Old(x) # i /\ c[Old(x)] = j
      BY <1>3, <3>1
    <3> QED
      BY <3>2 DEF Contains, ChainOK
  <2>2. ASSUME j # c[i], Contains(c, j) PROVE Contains(e, j)
    <3>1. PICK z \in 1 .. Len(c) : c[z] = j
      BY <2>2 DEF Contains
    <3>2. PICK x \in 1 .. Len(e) : Old(x) = z
      BY <1>5, <2>2, <3>1
    <3> QED
      BY <1>3, <3>1, <3>2 DEF Contains
  <2> QED
    BY <2>1, <2>2
<1> QED
  BY <1>2, <1>6, <1>7 DEF e

-----------------------------------------------------------------------------
(* Tables.                                                                 *)

(* The places of the hash.                                                 *)
LEMMA SlotOf ==
  ASSUME NEW t, TableOK(t), t.size > 0, NEW k \in Key
  PROVE  /\ Hash[k] % t.size \in Slots(t)
         /\ t.size \in Nat /\ ChainOK(Bucket(t, k), t.size, Hash[k] % t.size)
         /\ Bucket(t, k) = t.table[Hash[k] % t.size]
<1>1. t.size \in Nat /\ Hash[k] \in Nat
  BY DictAssumption DEF TableOK, TableRec, Word
<1>2. Hash[k] % t.size \in 0 .. t.size - 1
  BY <1>1
<1> QED
  BY <1>1, <1>2 DEF TableOK, Slots, Bucket

(* A key that is in some bucket of a table is at home in the table.        *)
LEMMA InTable ==
  ASSUME NEW t, TableOK(t), NEW b \in Slots(t), NEW k, Contains(t.table[b], k)
  PROVE  k \in Home(t) /\ b = Hash[k] % t.size /\ t.size > 0
<1>1. ChainOK(t.table[b], t.size, b) /\ t.size > 0 /\ t.size \in Nat
  BY DEF TableOK, Slots, TableRec
<1>2. PICK x \in 1 .. Len(t.table[b]) : t.table[b][x] = k
  BY DEF Contains
<1>3. k \in Key /\ Hash[k] % t.size = b
  BY <1>1, <1>2 DEF ChainOK
<1> QED
  BY <1>1, <1>3 DEF Home, Bucket

(* The keys at home are finitely many.                                     *)
LEMMA HomeFinite ==
  ASSUME NEW t
  PROVE  IsFiniteSet(Home(t)) /\ Cardinality(Home(t)) \in Nat /\ Cardinality(Home(t)) <= Cardinality(Key)
<1>1. Home(t) \subseteq Key /\ IsFiniteSet(Key)
  BY DictAssumption DEF Home
<1> QED
  BY <1>1, FS_Subset, FS_CardinalityType

(* A table with another chain in bucket b.                                 *)
SetChain(t, u, b, c) == [t EXCEPT !.used = u, !.table[b] = c]
Rechained(t, u, b, c, t2) ==
  TableOK(t) /\ b \in Slots(t) /\ ChainOK(c, t.size, b) /\ u \in Nat /\ t2 = SetChain(t, u, b, c)

(* A table of the right type.                                              *)
TableType(t) == t \in TableRec /\ t.table \in [Slots(t) -> Seq(Key)]

Retyped(t, u, b, c, t2) ==
  TableType(t) /\ b \in Slots(t) /\ c \in Seq(Key) /\ u \in Nat /\ t2 = SetChain(t, u, b, c)
RetypedTo(t, u, b, c, t2) ==
  /\ TableType(t2) /\ t2.size = t.size /\ t2.used = u
  /\ t2.table = [t.table EXCEPT ![b] = c]

(* A chain of keys keeps the type.                                         *)
LEMMA SetChainType ==
  ASSUME NEW t, NEW u, NEW b, NEW c, NEW t2, Retyped(t, u, b, c, t2)
  PROVE  RetypedTo(t, u, b, c, t2)
<1>0. TableType(t) /\ b \in Slots(t) /\ c \in Seq(Key) /\ u \in Nat /\ t2 = SetChain(t, u, b, c)
  BY DEF Retyped
<1>1. t \in TableRec /\ t.table \in [Slots(t) -> Seq(Key)] /\ t.size \in Nat
  BY <1>0 DEF TableType, TableRec
<1>2. t2.size = t.size /\ t2.used = u /\ t2.table = [t.table EXCEPT ![b] = c]
  BY <1>0, <1>1 DEF SetChain, TableRec
<1>3. t2.table \in [Slots(t) -> Seq(Key)]
  BY <1>0, <1>1, <1>2
<1>4. t2 = [size |-> t2.size, used |-> t2.used, table |-> t2.table]
  BY <1>0, <1>1 DEF SetChain, TableRec
<1>5. t2 \in TableRec
  <2>1. t2.table \in UNION {[0 .. n - 1 -> Seq(Key)] : n \in Nat}
    BY <1>1, <1>3 DEF Slots
  <2>2. t2.size \in Nat /\ t2.used \in Nat
    BY <1>0, <1>1, <1>2
  <2> QED
    BY <1>4, <2>1, <2>2 DEF TableRec
<1>6. TableType(t2)
  BY <1>2, <1>3, <1>5 DEF TableType, Slots
<1> QED
  BY <1>2, <1>6 DEF RetypedTo

(* What that table holds.                                                  *)
ChainSetTo(t, u, b, c, t2) ==
  /\ t2 \in TableRec /\ t2.size = t.size /\ t2.used = u
  /\ t2.table = [t.table EXCEPT ![b] = c] /\ t2.table \in [Slots(t) -> Seq(Key)]
  /\ \A a \in Slots(t2) : ChainOK(t2.table[a], t2.size, a)
  /\ \A k : k \in Home(t2) <=> (k \in Home(t) /\ ~Contains(t.table[b], k)) \/ Contains(c, k)

(* When one chain of a table is replaced by chain c, the table is in order *)
(* again if c belongs there, and holds the entries of c in place of the    *)
(* old ones.                                                               *)
LEMMA ChainSet ==
  ASSUME NEW t, NEW u, NEW b, NEW c, NEW t2, Rechained(t, u, b, c, t2)
  PROVE  ChainSetTo(t, u, b, c, t2)
<1>0. TableOK(t) /\ b \in Slots(t) /\ ChainOK(c, t.size, b) /\ u \in Nat /\ t2 = SetChain(t, u, b, c)
  BY DEF Rechained
<1> USE <1>0
<1>1. t \in TableRec /\ t.table \in [Slots(t) -> Seq(Key)] /\ t.size \in Nat /\ t.size > 0
  BY DEF TableOK, TableRec, Slots
<1>2. /\ t2.size = t.size /\ t2.used = u /\ t2.table = [t.table EXCEPT ![b] = c]
      /\ TableType(t2)
  <2>1. Retyped(t, u, b, c, t2)
    BY <1>1 DEF TableType, ChainOK, Retyped
  <2>2. RetypedTo(t, u, b, c, t2)
    BY <2>1, SetChainType
  <2> QED
    BY <2>2 DEF RetypedTo
<1>3. t2 \in TableRec /\ t2.table \in [Slots(t) -> Seq(Key)]
  BY <1>2 DEF TableType, Slots
<1>5. /\ \A a \in Slots(t2) : ChainOK(t2.table[a], t2.size, a)
      /\ Slots(t2) = Slots(t)
  BY <1>1, <1>2 DEF TableOK, Slots
<1>6. ASSUME NEW k
      PROVE  k \in Home(t2) <=> (k \in Home(t) /\ ~Contains(t.table[b], k)) \/ Contains(c, k)
  <2>1. ASSUME k \in Key, Hash[k] % t.size = b PROVE k \in Home(t2) <=> Contains(c, k)
    BY <1>1, <1>2, <2>1 DEF Home, Bucket
  <2>2. ASSUME k \in Key, Hash[k] % t.size # b PROVE k \in Home(t2) <=> k \in Home(t)
    <3>1. Hash[k] % t.size \in Slots(t)
      BY <1>1, <2>2, SlotOf
    <3> QED
      BY <1>1, <1>2, <2>2, <3>1 DEF Home, Bucket
  <2>3. Contains(c, k) => k \in Key /\ Hash[k] % t.size = b
    BY DEF Contains, ChainOK
  <2>4. Contains(t.table[b], k) => k \in Key /\ Hash[k] % t.size = b
    BY InTable DEF Home
  <2>5. ASSUME k \in Home(t), Hash[k] % t.size = b PROVE Contains(t.table[b], k)
    BY <1>1, <2>5 DEF Home, Bucket
  <2>6. k \in Home(t) \/ k \in Home(t2) => k \in Key
    BY DEF Home
  <2> QED
    BY <2>1, <2>2, <2>3, <2>4, <2>5, <2>6
<1> QED
  BY <1>2, <1>3, <1>5, <1>6 DEF ChainSetTo

(* An entry is added.                                                      *)
LEMMA PushOnOK ==
  ASSUME NEW t, TableOK(t), t.size > 0, NEW k \in Key, k \notin Home(t)
  PROVE  /\ TableOK(PushOn(t, k)) /\ PushOn(t, k).size = t.size /\ PushOn(t, k).used = t.used + 1
         /\ Home(PushOn(t, k)) = Home(t) \cup {k}
         /\ PushOn(t, k).table = [t.table EXCEPT ![Hash[k] % t.size] = <<k>> \o t.table[Hash[k] % t.size]]
<1> DEFINE b == Hash[k] % t.size
           c == <<k>> \o t.table[b]
           t2 == PushOn(t, k)
<1>1. /\ b \in Slots(t) /\ ChainOK(t.table[b], t.size, b) /\ t.size \in Nat
      /\ ~Contains(t.table[b], k)
  BY SlotOf DEF Home
<1>2. t.used \in Nat /\ t.used = Cardinality(Home(t)) /\ IsFiniteSet(Home(t))
  BY HomeFinite DEF TableOK, TableRec
<1>3. ChainOK(c, t.size, b) /\ \A j : Contains(c, j) <=> j = k \/ Contains(t.table[b], j)
  BY <1>1, ChainPush
<1>4. t2 = SetChain(t, t.used + 1, b, c)
  BY DEF PushOn, SetChain
<1> HIDE DEF b, c, t2
<1>5. /\ t2 \in TableRec /\ t2.size = t.size /\ t2.used = t.used + 1
      /\ t2.table = [t.table EXCEPT ![b] = c] /\ t2.table \in [Slots(t) -> Seq(Key)]
      /\ \A a \in Slots(t2) : ChainOK(t2.table[a], t2.size, a)
      /\ \A j : j \in Home(t2) <=> (j \in Home(t) /\ ~Contains(t.table[b], j)) \/ Contains(c, j)
  <2>1. Rechained(t, t.used + 1, b, c, t2)
    BY <1>1, <1>2, <1>3, <1>4 DEF Rechained
  <2>2. ChainSetTo(t, t.used + 1, b, c, t2)
    BY <2>1, ChainSet
  <2> QED
    BY <2>2 DEF ChainSetTo
<1>6. \A j : Contains(t.table[b], j) => j \in Home(t)
  BY <1>1, InTable
<1>7. Home(t2) = Home(t) \cup {k}
  BY <1>3, <1>5, <1>6
<1>8. Cardinality(Home(t2)) = t.used + 1
  BY <1>2, <1>7, FS_AddElement
<1>9. TableOK(t2)
  BY <1>5, <1>8 DEF TableOK, Slots
<1>10. t2.table = [t.table EXCEPT ![Hash[k] % t.size] = <<k>> \o t.table[Hash[k] % t.size]]
  BY <1>5 DEF b, c
<1> QED
  BY <1>5, <1>7, <1>9, <1>10 DEF t2

(* An entry is taken out.                                                  *)
LEMMA DropFromOK ==
  ASSUME NEW t, TableOK(t), NEW k \in Home(t)
  PROVE  /\ TableOK(DropFrom(t, k)) /\ DropFrom(t, k).size = t.size /\ DropFrom(t, k).used = t.used - 1
         /\ Home(DropFrom(t, k)) = Home(t) \ {k}
         /\ DropFrom(t, k).table = [t.table EXCEPT ![Hash[k] % t.size] = RemoveFirst(t.table[Hash[k] % t.size], k)]
<1> DEFINE b == Hash[k] % t.size
           c == RemoveFirst(t.table[b], k)
           t2 == DropFrom(t, k)
<1>0. k \in Key /\ t.size > 0 /\ Contains(Bucket(t, k), k)
  BY DEF Home
<1>1. /\ b \in Slots(t) /\ ChainOK(t.table[b], t.size, b) /\ t.size \in Nat
      /\ Contains(t.table[b], k)
  BY <1>0, SlotOf
<1>2. t.used \in Nat /\ t.used = Cardinality(Home(t)) /\ IsFiniteSet(Home(t))
  BY HomeFinite DEF TableOK, TableRec
<1>3. ChainOK(c, t.size, b) /\ \A j : Contains(c, j) <=> j # k /\ Contains(t.table[b], j)
  <2>1. PICK i \in 1 .. Len(t.table[b]) : t.table[b][i] = k
    BY <1>1 DEF Contains
  <2> QED
    BY <1>1, <2>1, ChainDrop
<1>4. t2 = SetChain(t, t.used - 1, b, c)
  BY DEF DropFrom, SetChain
<1> HIDE DEF b, c, t2
<1>5. Cardinality(Home(t) \ {k}) = t.used - 1 /\ t.used - 1 \in Nat
  <2>1. IsFiniteSet(Home(t) \ {k})
    BY <1>2, FS_RemoveElement
  <2> QED
    BY <1>2, <2>1, FS_RemoveElement, FS_CardinalityType
<1>6. /\ t2 \in TableRec /\ t2.size = t.size /\ t2.used = t.used - 1
      /\ t2.table = [t.table EXCEPT ![b] = c] /\ t2.table \in [Slots(t) -> Seq(Key)]
      /\ \A a \in Slots(t2) : ChainOK(t2.table[a], t2.size, a)
      /\ \A j : j \in Home(t2) <=> (j \in Home(t) /\ ~Contains(t.table[b], j)) \/ Contains(c, j)
  <2>1. Rechained(t, t.used - 1, b, c, t2)
    BY <1>1, <1>3, <1>4, <1>5 DEF Rechained
  <2>2. ChainSetTo(t, t.used - 1, b, c, t2)
    BY <2>1, ChainSet
  <2> QED
    BY <2>2 DEF ChainSetTo
<1>7. \A j : Contains(t.table[b], j) => j \in Home(t)
  BY <1>1, InTable
<1>8. Home(t2) = Home(t) \ {k}
  BY <1>1, <1>3, <1>6, <1>7
<1>9. TableOK(t2)
  BY <1>5, <1>6, <1>8 DEF TableOK, Slots
<1>10. t2.table = [t.table EXCEPT ![Hash[k] % t.size] = RemoveFirst(t.table[Hash[k] % t.size], k)]
  BY <1>6 DEF b, c
<1> QED
  BY <1>6, <1>8, <1>9, <1>10 DEF t2

(* The length of a chain counts its keys.                                  *)
Keys(c) == {c[x] : x \in 1 .. Len(c)}

(* A chain has as many entries as it has links.                            *)
LEMMA ChainCount ==
  ASSUME NEW c, NEW n, NEW b, ChainOK(c, n, b)
  PROVE  IsFiniteSet(Keys(c)) /\ Cardinality(Keys(c)) = Len(c)
<1>1. Len(c) \in Nat
  BY DEF ChainOK
<1>2. c \in Bijection(1 .. Len(c), Keys(c))
  <2>1. c \in [1 .. Len(c) -> Keys(c)]
    BY DEF ChainOK, Keys
  <2>2. IsInjective(c)
    BY <2>1 DEF ChainOK, IsInjective
  <2>3. \A y \in Keys(c) : \E x \in 1 .. Len(c) : c[x] = y
    BY DEF Keys
  <2> QED
    BY <2>1, <2>2, <2>3 DEF Bijection, Injection, Surjection
<1>3. IsFiniteSet(1 .. Len(c)) /\ Cardinality(1 .. Len(c)) = Len(c)
  BY SMTT(40), <1>1, FS_Interval
<1>4. ExistsBijection(1 .. Len(c), Keys(c))
  BY <1>2 DEF ExistsBijection
<1> QED
  BY <1>3, <1>4, FS_Bijection

(* What is left of a finite set.                                           *)
LEMMA CutOff ==
  ASSUME NEW S, NEW T, IsFiniteSet(S), T \subseteq S
  PROVE  /\ IsFiniteSet(S \ T) /\ IsFiniteSet(T) /\ Cardinality(S \ T) \in Nat
         /\ Cardinality(S \ T) = Cardinality(S) - Cardinality(T)
<1>1. IsFiniteSet(T)
  BY FS_Subset
<1>2. S \cap T = T
  OBVIOUS
<1>3. IsFiniteSet(S \ T) /\ Cardinality(S \ T) = Cardinality(S) - Cardinality(S \cap T)
  BY FS_Difference
<1>4. Cardinality(S \ T) \in Nat
  BY <1>3, FS_CardinalityType
<1> QED
  BY <1>1, <1>2, <1>3, <1>4

(* A bucket is emptied.                                                    *)
LEMMA EmptiedOK ==
  ASSUME NEW t, TableOK(t), NEW b \in Slots(t)
  PROVE  LET c  == t.table[b]
             t2 == SetChain(t, t.used - Len(c), b, <<>>)
         IN  /\ TableOK(t2) /\ t2.size = t.size /\ t2.used = t.used - Len(c)
             /\ t2.table = [t.table EXCEPT ![b] = <<>>]
             /\ Home(t2) = Home(t) \ Keys(c) /\ Keys(c) \subseteq Home(t)
<1> DEFINE c  == t.table[b]
           t2 == SetChain(t, t.used - Len(c), b, <<>>)
<1>1. ChainOK(c, t.size, b) /\ t.size \in Nat /\ Len(c) \in Nat
  BY DEF TableOK, TableRec, ChainOK
<1>2. t.used \in Nat /\ t.used = Cardinality(Home(t)) /\ IsFiniteSet(Home(t))
  BY HomeFinite DEF TableOK, TableRec
<1>3. IsFiniteSet(Keys(c)) /\ Cardinality(Keys(c)) = Len(c)
  BY <1>1, ChainCount
<1>4. \A k : Contains(c, k) <=> k \in Keys(c)
  BY DEF Contains, Keys
<1>5. Keys(c) \subseteq Home(t)
  BY <1>4, InTable
<1> HIDE DEF c
<1>6. Cardinality(Home(t) \ Keys(c)) = t.used - Len(c) /\ t.used - Len(c) \in Nat
  <2>1. /\ Cardinality(Home(t) \ Keys(c)) \in Nat
        /\ Cardinality(Home(t) \ Keys(c)) = Cardinality(Home(t)) - Cardinality(Keys(c))
    BY <1>2, <1>5, CutOff
  <2> QED
    BY <1>2, <1>3, <2>1
<1>7. ChainOK(<<>>, t.size, b) /\ \A k : ~Contains(<<>>, k)
  BY DEF ChainOK, Contains
<1>8. ChainSetTo(t, t.used - Len(c), b, <<>>, t2)
  <2>1. Rechained(t, t.used - Len(c), b, <<>>, t2)
    BY <1>6, <1>7 DEF Rechained
  <2> HIDE DEF t2
  <2> QED
    BY <2>1, ChainSet
<1> HIDE DEF t2
<1>9. Home(t2) = Home(t) \ Keys(c)
  BY <1>4, <1>7, <1>8 DEF ChainSetTo, c
<1>10. /\ t2.size = t.size /\ t2.used = t.used - Len(c) /\ t2.table = [t.table EXCEPT ![b] = <<>>]
       /\ t2 \in TableRec /\ t2.table \in [Slots(t) -> Seq(Key)]
       /\ \A a \in Slots(t2) : ChainOK(t2.table[a], t2.size, a)
  BY <1>8 DEF ChainSetTo
<1>11. TableOK(t2)
  BY <1>6, <1>9, <1>10 DEF TableOK, Slots
<1> QED
  BY <1>5, <1>9, <1>10, <1>11 DEF t2, c

(* PushAll is defined by its equation.                                     *)
LEMMA PushAllEquation ==
  ASSUME NEW t, TableType(t), t.size > 0, NEW c \in Seq(Key)
  PROVE  /\ PushAll(t, c)[0] = t
         /\ \A m \in 0 .. Len(c) : m # 0 => PushAll(t, c)[m] = PushOn(PushAll(t, c)[m - 1], c[m])
<1> DEFINE S == {u \in TableRec : TableType(u) /\ u.size = t.size}
           F == [m \in 1 .. Len(c) |-> [u \in S |-> PushOn(u, c[m])]]
           E(f) == f = [m \in 0 .. Len(c) |-> IF m = 0 THEN t ELSE PushOn(f[m - 1], c[m])]
<1>1. Len(c) \in Nat /\ t \in S
  BY DEF TableType
<1>2. ASSUME NEW m \in 1 .. Len(c), NEW u \in S PROVE PushOn(u, c[m]) \in S
  <2> DEFINE b == Hash[c[m]] % u.size
  <2>1. u.size \in Nat /\ u.used \in Nat /\ u.size > 0 /\ Hash[c[m]] \in Nat /\ TableType(u)
        /\ u.size = t.size
    BY DictAssumption DEF TableRec, Word
  <2>2. b \in Slots(u)
    BY <2>1 DEF Slots
  <2>3. <<c[m]>> \o u.table[b] \in Seq(Key)
    BY <2>1, <2>2 DEF TableType
  <2>4. PushOn(u, c[m]) = SetChain(u, u.used + 1, b, <<c[m]>> \o u.table[b])
    BY DEF PushOn, SetChain
  <2> DEFINE u2 == PushOn(u, c[m])
  <2> HIDE DEF b, u2
  <2>5. Retyped(u, u.used + 1, b, <<c[m]>> \o u.table[b], u2)
    BY <2>1, <2>2, <2>3, <2>4 DEF Retyped, u2
  <2>6. RetypedTo(u, u.used + 1, b, <<c[m]>> \o u.table[b], u2)
    BY <2>5, SetChainType
  <2>7. TableType(u2) /\ u2.size = t.size /\ u2 \in TableRec
    BY <2>1, <2>6 DEF RetypedTo, TableType
  <2> QED
    BY <2>7 DEF u2
<1>3. F \in [1 .. Len(c) -> [S -> S]]
  BY <1>2
<1>4. PICK f : Iterated(Len(c), S, t, F, f)
  <2> HIDE DEF S, F
  <2> QED
    BY <1>1, <1>3, Iterates
<1>5. ASSUME NEW m \in 0 .. Len(c)
      PROVE  f[m] = IF m = 0 THEN t ELSE PushOn(f[m - 1], c[m])
  <2>1. CASE m = 0
    BY <1>4, <2>1 DEF Iterated
  <2>2. CASE m # 0
    <3>1. m \in 1 .. Len(c) /\ m - 1 \in 0 .. Len(c)
      BY <1>1, <2>2
    <3>2. f[m - 1] \in S /\ f[m] = F[m][f[m - 1]]
      <4> HIDE DEF S, F
      <4> QED
        BY <1>4, <2>2, <3>1 DEF Iterated
    <3>3. F[m] = [u \in S |-> PushOn(u, c[m])]
      BY <3>1
    <3> HIDE DEF S, F
    <3>4. f[m] = PushOn(f[m - 1], c[m])
      BY <3>2, <3>3
    <3> QED
      BY <2>2, <3>4
  <2> QED
    BY <2>1, <2>2
<1> HIDE DEF S, F
<1>6. E(f)
  BY <1>4, <1>5 DEF Iterated
<1>7. E(PushAll(t, c))
  BY <1>6 DEF PushAll
<1>8. PICK w : w = PushAll(t, c)
  OBVIOUS
<1>9. E(w)
  BY <1>7, <1>8
<1>10. w[0] = t
  BY <1>1, <1>9
<1>11. ASSUME NEW m \in 0 .. Len(c), m # 0 PROVE w[m] = PushOn(w[m - 1], c[m])
  BY <1>9, <1>11
<1> QED
  BY <1>8, <1>10, <1>11

(* The first m entries of a chain are pushed on a table.                   *)
Pushed(t, c, m, u) ==
  /\ TableOK(u) /\ u.size = t.size /\ u.used = t.used + m
  /\ Home(u) = Home(t) \cup {c[x] : x \in 1 .. m}

(* The entries of a moved chain that have been pushed so far are in the    *)
(* new table, each in its bucket, and the new table counts them.           *)
LEMMA PushAllOK ==
  ASSUME NEW t, TableOK(t), t.size > 0,
         NEW c, NEW n, NEW b, ChainOK(c, n, b), Keys(c) \cap Home(t) = {}
  PROVE  \A m \in 0 .. Len(c) : Pushed(t, c, m, PushAll(t, c)[m])
<1>1. c \in Seq(Key) /\ Len(c) \in Nat /\ TableType(t) /\ t.used \in Nat
  BY DEF ChainOK, TableOK, TableType, TableRec
<1>2. PICK w : w = PushAll(t, c)
  OBVIOUS
<1>3. w[0] = t /\ \A m \in 0 .. Len(c) : m # 0 => w[m] = PushOn(w[m - 1], c[m])
  BY <1>1, <1>2, PushAllEquation
<1> DEFINE T == {m \in 0 .. Len(c) : Pushed(t, c, m, w[m])}
<1>4. 0 \in T
  <2>1. {c[x] : x \in 1 .. 0} = {}
    OBVIOUS
  <2> QED
    BY <1>1, <1>3, <2>1 DEF Pushed
<1>5. ASSUME NEW m \in T, m < Len(c) PROVE m + 1 \in T
  <2> DEFINE u == w[m]
             k == c[m + 1]
  <2>1. m \in Nat /\ m + 1 \in 1 .. Len(c) /\ k \in Key /\ Pushed(t, c, m, u)
    BY <1>1, <1>5
  <2>2. w[m + 1] = PushOn(u, k)
    <3>1. m + 1 \in 0 .. Len(c) /\ m + 1 # 0 /\ (m + 1) - 1 = m
      BY <2>1
    <3> QED
      BY <1>3, <3>1
  <2>3. k \notin Home(t) /\ \A x \in 1 .. m : c[x] # k
    <3>1. k \in Keys(c)
      BY <2>1 DEF Keys
    <3>2. \A x \in 1 .. m : x \in 1 .. Len(c) /\ x # m + 1
      BY <1>1, <2>1
    <3> QED
      BY <2>1, <3>1, <3>2 DEF ChainOK
  <2> HIDE DEF u, k
  <2>4. TableOK(u) /\ u.size > 0 /\ k \notin Home(u) /\ u.size = t.size /\ u.used = t.used + m
        /\ Home(u) = Home(t) \cup {c[x] : x \in 1 .. m}
    BY <2>1, <2>3 DEF Pushed
  <2>5. /\ TableOK(PushOn(u, k)) /\ PushOn(u, k).size = u.size /\ PushOn(u, k).used = u.used + 1
        /\ Home(PushOn(u, k)) = Home(u) \cup {k}
    BY <2>1, <2>4, PushOnOK
  <2>6. {c[x] : x \in 1 .. m + 1} = {c[x] : x \in 1 .. m} \cup {k}
    BY <2>1 DEF k
  <2>7. Pushed(t, c, m + 1, PushOn(u, k))
    <3>1. \A x \in Nat : x + (m + 1) = (x + m) + 1
      BY <2>1
    <3> QED
      BY <1>1, <2>4, <2>5, <2>6, <3>1 DEF Pushed
  <2> QED
    BY <2>1, <2>2, <2>7
<1>6. T = 0 .. Len(c)
  <2> HIDE DEF T
  <2>1. T \in SUBSET (0 .. Len(c))
    BY DEF T
  <2> QED
    BY <1>1, <1>4, <1>5, <2>1, Induction
<1> QED
  BY <1>2, <1>6

-----------------------------------------------------------------------------
(* The two tables.                                                         *)

All(e) == Home(e.ht[0]) \cup Home(e.ht[1])

(* The old table is being emptied from its start, the new one is there     *)
(* only meanwhile, and no entry is in both.                                *)
Moving(e) ==
  /\ e.ht[0].size > 0 /\ e.ht[1].size > 0 /\ e.rehashidx \in Nat
  /\ \A b \in Slots(e.ht[0]) : b < e.rehashidx => e.ht[0].table[b] = <<>>
DictOK(e) ==
  /\ e \in DictRec
  /\ TableOK(e.ht[0]) /\ TableOK(e.ht[1])
  /\ Home(e.ht[0]) \cap Home(e.ht[1]) = {}
  /\ IsRehashing(e) => Moving(e)
  /\ ~IsRehashing(e) => e.ht[1] = Reset

(* e2 holds the entries of e.                                              *)
Same(e, e2) == DictOK(e2) /\ All(e2) = All(e) /\ e2.iterators = e.iterators

(* e is made of these tables.                                              *)
Parts(e, t, u, r, n) ==
  /\ e \in DictRec /\ e.ht[0] = t /\ e.ht[1] = u /\ e.rehashidx = r /\ e.iterators = n

(* The fields of a dictionary record.                                      *)
LEMMA DictFields ==
  ASSUME NEW e \in DictRec
  PROVE  Parts(e, e.ht[0], e.ht[1], e.rehashidx, e.iterators)
         /\ e.ht[0] \in TableRec /\ e.ht[1] \in TableRec /\ e.rehashidx \in Int /\ e.iterators \in Int
BY DEF DictRec, Parts

(* One table is replaced.                                                  *)
LEMMA SetTable ==
  ASSUME NEW e \in DictRec, NEW j \in {0, 1}, NEW t \in TableRec
  PROVE  Parts([e EXCEPT !.ht[j] = t], IF j = 0 THEN t ELSE e.ht[0], IF j = 1 THEN t ELSE e.ht[1],
               e.rehashidx, e.iterators)
<1> DEFINE f == [e EXCEPT !.ht[j] = t]
<1>1. e.ht \in [{0, 1} -> TableRec] /\ e.rehashidx \in Int /\ e.iterators \in Int
  BY DEF DictRec
<1>2. f = [ht |-> [e.ht EXCEPT ![j] = t], rehashidx |-> e.rehashidx, iterators |-> e.iterators]
  BY DEF DictRec
<1> HIDE DEF f
<1>3. f.ht = [e.ht EXCEPT ![j] = t] /\ f.rehashidx = e.rehashidx /\ f.iterators = e.iterators
      /\ f \in DictRec
  BY <1>1, <1>2 DEF DictRec
<1>4. f.ht[0] = (IF j = 0 THEN t ELSE e.ht[0]) /\ f.ht[1] = (IF j = 1 THEN t ELSE e.ht[1])
  BY <1>1, <1>3
<1> QED
  BY <1>3, <1>4 DEF Parts, f

(* rehashidx is set.                                                       *)
LEMMA SetIndex ==
  ASSUME NEW e, NEW t, NEW u, NEW q, NEW n, Parts(e, t, u, q, n), NEW r \in Int
  PROVE  Parts([e EXCEPT !.rehashidx = r], t, u, r, n)
<1> DEFINE f == [e EXCEPT !.rehashidx = r]
<1>1. e \in DictRec /\ e.ht[0] = t /\ e.ht[1] = u /\ e.iterators = n
  BY DEF Parts
<1>2. f.ht = e.ht /\ f.rehashidx = r /\ f.iterators = e.iterators /\ f \in DictRec
  BY <1>1 DEF DictRec
<1> HIDE DEF f
<1>3. Parts(f, t, u, r, n)
  BY <1>1, <1>2 DEF Parts
<1> QED
  BY <1>3 DEF f

(* The empty table.                                                        *)
LEMMA ResetOK ==
  TableOK(Reset) /\ Home(Reset) = {} /\ Reset.size = 0 /\ Reset.used = 0 /\ Reset \in TableRec
<1>1. Reset.size = 0 /\ Reset.used = 0 /\ Reset.table = [b \in {} |-> <<>>]
  BY DEF Reset
<1>2. Home(Reset) = {}
  BY <1>1 DEF Home
<1>3. Slots(Reset) = {} /\ 0 .. 0 - 1 = {}
  BY <1>1 DEF Slots
<1>4. Reset.table \in [{} -> Seq(Key)]
  BY <1>1
<1>5. Reset.table \in UNION {[0 .. n - 1 -> Seq(Key)] : n \in Nat}
  BY <1>3, <1>4
<1>6. Reset \in TableRec
  BY <1>1, <1>5 DEF Reset, TableRec
<1>7. Cardinality({}) = 0
  BY FS_EmptySet
<1> QED
  BY <1>1, <1>2, <1>3, <1>4, <1>6, <1>7 DEF TableOK

(* A dictionary made of good tables is good.                               *)
GoodParts(t, u, r) ==
  /\ TableOK(t) /\ TableOK(u) /\ Home(t) \cap Home(u) = {}
  /\ r # -1 => /\ t.size > 0 /\ u.size > 0 /\ r \in Nat
               /\ \A b \in Slots(t) : b < r => t.table[b] = <<>>
  /\ r = -1 => u = Reset

(* A dictionary is in order when its two tables are and fit together.      *)
LEMMA FromParts ==
  ASSUME NEW e, NEW t, NEW u, NEW r, NEW n, Parts(e, t, u, r, n), GoodParts(t, u, r)
  PROVE  DictOK(e) /\ All(e) = Home(t) \cup Home(u) /\ e.iterators = n
<1>1. e \in DictRec /\ e.ht[0] = t /\ e.ht[1] = u /\ e.rehashidx = r /\ e.iterators = n
  BY DEF Parts
<1>2. IsRehashing(e) => Moving(e)
  BY <1>1 DEF IsRehashing, Moving, GoodParts
<1> QED
  BY <1>1, <1>2 DEF DictOK, All, IsRehashing, GoodParts

(* The search for the next bucket ends in the table.                       *)
LEMMA NextBucketOK ==
  ASSUME NEW e, DictOK(e), IsRehashing(e), e.ht[0].used # 0
  PROVE  /\ NextBucket(e) \in Slots(e.ht[0]) /\ NextBucket(e) \in Nat
         /\ e.ht[0].table[NextBucket(e)] # <<>>
         /\ \A a \in Slots(e.ht[0]) : a < NextBucket(e) => e.ht[0].table[a] = <<>>
<1> DEFINE t == e.ht[0]
           S == {b \in Slots(t) : b >= e.rehashidx /\ t.table[b] # <<>>}
<1>1. TableOK(t) /\ t.size > 0 /\ t.size \in Nat /\ e.rehashidx \in Nat
      /\ \A b \in Slots(t) : b < e.rehashidx => t.table[b] = <<>>
  BY DEF DictOK, Moving, TableOK, TableRec
<1>2. PICK k : k \in Home(t)
  <2>1. t.used = Cardinality(Home(t))
    BY <1>1 DEF TableOK
  <2>2. Home(t) # {}
    BY <2>1, FS_EmptySet
  <2> QED
    BY <2>2
<1>3. Hash[k] % t.size \in S
  <2>1. k \in Key /\ Contains(Bucket(t, k), k)
    BY <1>2 DEF Home
  <2>2. Hash[k] % t.size \in Slots(t) /\ Bucket(t, k) = t.table[Hash[k] % t.size]
    BY <1>1, <2>1, SlotOf
  <2>3. t.table[Hash[k] % t.size] # <<>>
    BY <2>1, <2>2 DEF Contains
  <2>4. Hash[k] % t.size \in Nat
    BY <1>1, <2>2 DEF Slots
  <2> QED
    BY <1>1, <2>2, <2>3, <2>4
<1>4. S \in SUBSET Nat
  BY <1>1 DEF Slots
<1>5. NextBucket(e) = CHOOSE x \in S : \A y \in S : x =< y
  BY DEF NextBucket, Min
<1>6. NextBucket(e) \in S /\ \A y \in S : NextBucket(e) <= y
  <2> HIDE DEF S
  <2>1. PICK q \in S : \A r \in S : q <= r
    BY <1>3, <1>4, Least
  <2> QED
    BY <1>5, <2>1
<1>7. NextBucket(e) \in Nat
  <2> HIDE DEF S
  <2> QED
    BY <1>4, <1>6
<1>8. ASSUME NEW a \in Slots(t), a < NextBucket(e) PROVE t.table[a] = <<>>
  <2>1. a \notin S /\ a \in Nat
    BY <1>1, <1>6, <1>7, <1>8 DEF Slots
  <2> QED
    BY <1>1, <2>1
<1> QED
  BY <1>6, <1>7, <1>8

(* A bucket moves.                                                         *)
LEMMA MoveBucketOK ==
  ASSUME NEW e, DictOK(e), IsRehashing(e), e.ht[0].used # 0
  PROVE  /\ Same(e, MoveBucket(e))
         /\ MoveBucket(e).ht[0].size = e.ht[0].size /\ MoveBucket(e).ht[1].size = e.ht[1].size
         /\ MoveBucket(e).rehashidx # -1
         /\ MoveBucket(e).ht[0].used + MoveBucket(e).ht[1].used = e.ht[0].used + e.ht[1].used
         /\ MoveBucket(e).ht[0].used < e.ht[0].used
<1> DEFINE b == NextBucket(e)
           t == e.ht[0]
           u == e.ht[1]
           c == t.table[b]
           t2 == SetChain(t, t.used - Len(c), b, <<>>)
           u2 == PushAll(u, c)[Len(c)]
           e2 == MoveBucket(e)
<1>1. /\ TableOK(t) /\ TableOK(u) /\ Home(t) \cap Home(u) = {} /\ t.size > 0 /\ u.size > 0
      /\ e \in DictRec /\ e.iterators \in Int
  BY DictFields DEF DictOK, Moving
<1>2. b \in Slots(t) /\ b \in Nat /\ c # <<>> /\ \A a \in Slots(t) : a < b => t.table[a] = <<>>
  BY NextBucketOK
<1>3. e2 = [ht |-> [j \in {0, 1} |-> IF j = 0 THEN t2 ELSE u2], rehashidx |-> b + 1,
            iterators |-> e.iterators]
  BY DEF MoveBucket, SetChain
<1>4. ChainOK(c, t.size, b) /\ Len(c) \in Nat /\ Len(c) > 0
  <2>1. ChainOK(c, t.size, b) /\ c \in Seq(Key) /\ c # <<>>
    BY <1>1, <1>2 DEF TableOK, ChainOK
  <2> HIDE DEF c
  <2> QED
    BY <2>1
<1>5. /\ TableOK(t2) /\ t2.size = t.size /\ t2.used = t.used - Len(c)
      /\ t2.table = [t.table EXCEPT ![b] = <<>>]
      /\ Home(t2) = Home(t) \ Keys(c) /\ Keys(c) \subseteq Home(t)
  <2> HIDE DEF t, b
  <2> QED
    BY <1>1, <1>2, EmptiedOK
<1>6. Pushed(u, c, Len(c), u2)
  <2>1. Keys(c) \cap Home(u) = {}
    BY <1>1, <1>5
  <2> HIDE DEF c, u
  <2>2. \A m \in 0 .. Len(c) : Pushed(u, c, m, PushAll(u, c)[m])
    BY <1>1, <1>4, <2>1, PushAllOK
  <2> QED
    BY <1>4, <2>2
<1> HIDE DEF t2, u2, e2, b, c
<1>7. /\ TableOK(u2) /\ u2.size = u.size /\ u2.used = u.used + Len(c)
      /\ Home(u2) = Home(u) \cup Keys(c)
  BY <1>6 DEF Pushed, Keys
<1>8. Parts(e2, t2, u2, b + 1, e.iterators)
  <2>1. t2 \in TableRec /\ u2 \in TableRec /\ b + 1 \in Int
    BY <1>2, <1>5, <1>7 DEF TableOK
  <2> QED
    BY <1>1, <1>3, <2>1 DEF Parts, DictRec
<1>9. \A a \in Slots(t2) : a < b + 1 => t2.table[a] = <<>>
  <2> SUFFICES ASSUME NEW a \in Slots(t2), a < b + 1 PROVE t2.table[a] = <<>>
    OBVIOUS
  <2>1. a \in Slots(t) /\ a \in Int /\ (a = b \/ a < b)
    BY <1>2, <1>5 DEF Slots
  <2>2. t.table \in [Slots(t) -> Seq(Key)]
    BY <1>1 DEF TableOK
  <2> HIDE DEF t
  <2> QED
    BY <1>2, <1>5, <2>1, <2>2
<1>10. Home(t2) \cap Home(u2) = {} /\ Home(t2) \cup Home(u2) = Home(t) \cup Home(u)
  BY <1>1, <1>5, <1>7
<1>11. DictOK(e2) /\ All(e2) = Home(t2) \cup Home(u2) /\ e2.iterators = e.iterators
  <2>1. b + 1 # -1 /\ b + 1 \in Nat /\ t2.size > 0 /\ u2.size > 0
    BY <1>1, <1>2, <1>5, <1>7
  <2> HIDE DEF t, u
  <2>2. GoodParts(t2, u2, b + 1)
    BY <1>5, <1>7, <1>9, <1>10, <2>1 DEF GoodParts
  <2> QED
    BY <1>8, <2>2, FromParts
<1>12. e2.ht[0] = t2 /\ e2.ht[1] = u2 /\ e2.rehashidx # -1
  BY <1>2, <1>8 DEF Parts
<1>13. t.used \in Nat /\ u.used \in Nat
  BY <1>1 DEF TableOK, TableRec
<1>14. t2.used + u2.used = t.used + u.used /\ t2.used < t.used
  BY SMTT(40), <1>4, <1>5, <1>7, <1>13
<1> QED
  BY <1>5, <1>7, <1>10, <1>11, <1>12, <1>14 DEF Same, All, e2

(* One round of dictRehash.                                                *)
LEMMA RehashOneOK ==
  ASSUME NEW e, DictOK(e)
  PROVE  Same(e, RehashOne(e))
<1>1. CASE ~IsRehashing(e)
  BY <1>1 DEF RehashOne, Same
<1>2. CASE IsRehashing(e) /\ e.ht[0].used = 0
  <2> DEFINE e2 == [e EXCEPT !.ht[0] = e.ht[1], !.ht[1] = Reset, !.rehashidx = -1]
  <2>1. e \in DictRec /\ TableOK(e.ht[1]) /\ e.ht[1] \in TableRec
    BY DEF DictOK, TableOK
  <2>2. Home(e.ht[0]) = {}
    <3>1. Cardinality(Home(e.ht[0])) = 0 /\ IsFiniteSet(Home(e.ht[0]))
      BY <1>2, HomeFinite DEF DictOK, TableOK
    <3> QED
      BY <3>1, FS_EmptySet
  <2>3. RehashOne(e) = e2
    BY <1>2 DEF RehashOne
  <2>4. Parts(e2, e.ht[1], Reset, -1, e.iterators)
    <3> DEFINE f == [e EXCEPT !.ht[0] = e.ht[1]]
               g == [f EXCEPT !.ht[1] = Reset]
    <3>1. Parts(f, e.ht[1], e.ht[1], e.rehashidx, e.iterators)
      BY <2>1, SetTable
    <3>2. e2 = [g EXCEPT !.rehashidx = -1]
      BY <2>1 DEF DictRec
    <3> HIDE DEF f
    <3>3. Parts(g, e.ht[1], Reset, e.rehashidx, e.iterators)
      BY <3>1, ResetOK, SetTable DEF Parts
    <3> HIDE DEF g, e2
    <3> QED
      BY <3>2, <3>3, SetIndex
  <2> HIDE DEF e2
  <2>5. GoodParts(e.ht[1], Reset, -1)
    BY <2>1, ResetOK DEF GoodParts
  <2>6. DictOK(e2) /\ All(e2) = Home(e.ht[1]) \cup Home(Reset) /\ e2.iterators = e.iterators
    BY <2>4, <2>5, FromParts
  <2>7. All(e2) = All(e)
    BY <2>2, <2>6, ResetOK DEF All
  <2> QED
    BY <2>3, <2>6, <2>7 DEF Same
<1>3. CASE IsRehashing(e) /\ e.ht[0].used # 0
  <2>1. RehashOne(e) = MoveBucket(e)
    BY <1>3 DEF RehashOne
  <2>2. Same(e, MoveBucket(e))
    BY <1>3, MoveBucketOK
  <2> QED
    BY <2>1, <2>2
<1> QED
  BY <1>1, <1>2, <1>3

(* The rounds of dictRehash(e, n).                                         *)
LEMMA RehashEquation ==
  ASSUME NEW e, DictOK(e), NEW n \in Nat
  PROVE  /\ Rehash(e, n)[0] = e
         /\ \A i \in 0 .. n : i # 0 => Rehash(e, n)[i] = RehashOne(Rehash(e, n)[i - 1])
<1> DEFINE S == {f \in DictRec : Same(e, f)}
           F == [i \in 1 .. n |-> [f \in S |-> RehashOne(f)]]
           E(g) == g = [i \in 0 .. n |-> IF i = 0 THEN e ELSE RehashOne(g[i - 1])]
<1>1. e \in S
  BY DEF DictOK, Same
<1>2. ASSUME NEW f \in S PROVE RehashOne(f) \in S
  <2>1. Same(e, f) /\ DictOK(f)
    BY DEF Same
  <2>2. Same(f, RehashOne(f))
    BY <2>1, RehashOneOK
  <2>3. Same(e, RehashOne(f)) /\ RehashOne(f) \in DictRec
    BY <2>1, <2>2 DEF Same, DictOK
  <2> QED
    BY <2>3
<1>3. F \in [1 .. n -> [S -> S]]
  BY <1>2
<1>4. PICK g : Iterated(n, S, e, F, g)
  <2> HIDE DEF S, F
  <2> QED
    BY <1>1, <1>3, Iterates
<1>5. ASSUME NEW i \in 0 .. n
      PROVE  g[i] = IF i = 0 THEN e ELSE RehashOne(g[i - 1])
  <2>1. CASE i = 0
    BY <1>4, <2>1 DEF Iterated
  <2>2. CASE i # 0
    <3>1. i \in 1 .. n /\ i - 1 \in 0 .. n
      BY <2>2
    <3>2. g[i - 1] \in S /\ g[i] = F[i][g[i - 1]]
      <4> HIDE DEF S, F
      <4> QED
        BY <1>4, <2>2, <3>1 DEF Iterated
    <3>3. F[i] = [f \in S |-> RehashOne(f)]
      BY <3>1
    <3> HIDE DEF S, F
    <3>4. g[i] = RehashOne(g[i - 1])
      BY <3>2, <3>3
    <3> QED
      BY <2>2, <3>4
  <2> QED
    BY <2>1, <2>2
<1> HIDE DEF S, F
<1>6. E(g)
  BY <1>4, <1>5 DEF Iterated
<1>7. E(Rehash(e, n))
  BY <1>6 DEF Rehash
<1>8. PICK w : w = Rehash(e, n)
  OBVIOUS
<1>9. E(w)
  BY <1>7, <1>8
<1>10. w[0] = e /\ \A i \in 0 .. n : i # 0 => w[i] = RehashOne(w[i - 1])
  BY <1>9
<1> QED
  BY <1>8, <1>10

(* They keep what one round keeps.                                         *)
LEMMA RehashOK ==
  ASSUME NEW e, DictOK(e), NEW n \in Nat
  PROVE  Same(e, Rehash(e, n)[n])
<1>1. PICK w : w = Rehash(e, n)
  OBVIOUS
<1>2. w[0] = e /\ \A i \in 0 .. n : i # 0 => w[i] = RehashOne(w[i - 1])
  BY <1>1, RehashEquation
<1> DEFINE T == {i \in 0 .. n : Same(e, w[i])}
<1>3. T \in SUBSET (0 .. n) /\ 0 \in T
  BY <1>2 DEF Same
<1>4. ASSUME NEW i \in T, i < n PROVE i + 1 \in T
  <2>1. i + 1 \in 0 .. n /\ i + 1 # 0 /\ (i + 1) - 1 = i
    BY <1>4
  <2>2. w[i + 1] = RehashOne(w[i])
    BY <1>2, <2>1
  <2>3. Same(w[i], RehashOne(w[i]))
    BY RehashOneOK DEF Same
  <2> QED
    BY <2>1, <2>2, <2>3 DEF Same
<1>5. T = 0 .. n
  <2> HIDE DEF T
  <2> QED
    BY <1>3, <1>4, Induction
<1>6. Same(e, w[n])
  BY <1>5
<1> QED
  BY <1>1, <1>6

(* An empty table of size n.                                               *)
LEMMA BlankOK ==
  ASSUME NEW n \in PowersOfTwo, NEW t,
         t = [size |-> n, used |-> 0, table |-> [b \in 0 .. n - 1 |-> <<>>]]
  PROVE  TableOK(t) /\ Home(t) = {} /\ t.size = n /\ t.size > 0 /\ t.used = 0 /\ t \in TableRec
<1>1. n \in Nat /\ n > 0
  BY Powers
<1>2. t.size = n /\ t.used = 0 /\ t.table = [b \in 0 .. n - 1 |-> <<>>]
  OBVIOUS
<1>3. t.table \in [0 .. n - 1 -> Seq(Key)]
  BY <1>2
<1>4. t \in TableRec
  <2>1. t.table \in UNION {[0 .. m - 1 -> Seq(Key)] : m \in Nat}
    BY <1>1, <1>3
  <2> QED
    BY <1>1, <1>2, <2>1 DEF TableRec
<1>5. \A b \in Slots(t) : t.table[b] = <<>>
  BY <1>2 DEF Slots
<1>6. \A b \in Slots(t) : ChainOK(t.table[b], t.size, b)
  <2>1. \A a, b : ChainOK(<<>>, a, b)
    BY DEF ChainOK
  <2> QED
    BY <1>5, <2>1
<1>7. Home(t) = {}
  <2> SUFFICES ASSUME NEW k \in Home(t) PROVE FALSE
    OBVIOUS
  <2>1. k \in Key /\ Contains(Bucket(t, k), k)
    BY DEF Home
  <2>2. Hash[k] \in Nat
    BY <2>1, DictAssumption, Powers DEF Word
  <2>3. Hash[k] % t.size \in Slots(t)
    BY <1>1, <1>2, <2>2 DEF Slots
  <2>4. Bucket(t, k) = <<>>
    BY <1>5, <2>3 DEF Bucket
  <2> QED
    BY <2>1, <2>4 DEF Contains
<1>8. Cardinality({}) = 0
  BY FS_EmptySet
<1> QED
  BY <1>1, <1>2, <1>3, <1>4, <1>6, <1>7, <1>8 DEF TableOK, Slots

(* dictExpand: nothing, a first table, or the start of a rehashing.        *)
Expanded(e, n, e2) ==
  /\ Same(e, e2) /\ e2.ht[0].used = e.ht[0].used
  /\ \/ e2 = e /\ ~CanExpand(e, n)
     \/ /\ ~IsRehashing(e) /\ e.ht[0].size = 0 /\ ~IsRehashing(e2)
        /\ e2.ht[0].size \in PowersOfTwo /\ e2.ht[0].size >= n /\ e2.ht[0].used = 0
     \/ /\ ~IsRehashing(e) /\ e.ht[0].size > 0 /\ e2.ht[0] = e.ht[0] /\ e2.rehashidx = 0
        /\ e2.ht[1].size \in PowersOfTwo /\ e2.ht[1].size >= n /\ e2.ht[1].used = 0
        /\ e.ht[0].used <= n

(* dictExpand allocates a second table, or the first one, and loses        *)
(* nothing.                                                                *)
LEMMA ExpandOK ==
  ASSUME NEW e, DictOK(e), NEW n \in 0 .. TwoTo[Width]
  PROVE  Expanded(e, n, Expand(e, n))
<1> DEFINE m == NextPower(n)
           t == [size |-> m, used |-> 0, table |-> [b \in 0 .. m - 1 |-> <<>>]]
<1>1. n \in Nat /\ n <= TwoTo[Width]
  BY TwoToEquation, DictAssumption
<1>2. m \in PowersOfTwo /\ m >= n
  BY <1>1, NextPowerOK
<1> HIDE DEF m
<1>3. TableOK(t) /\ Home(t) = {} /\ t.size = m /\ t.size > 0 /\ t.used = 0 /\ t \in TableRec
  BY <1>2, BlankOK
<1>4. e \in DictRec /\ TableOK(e.ht[0]) /\ e.ht[0].size \in Nat /\ e.ht[0].used \in Nat
  BY DEF DictOK, TableOK, TableRec
<1>5. CASE ~CanExpand(e, n)
  BY <1>5 DEF Expand, Expanded, Same
<1>6. CASE CanExpand(e, n) /\ e.ht[0].size = 0
  <2> DEFINE e2 == [e EXCEPT !.ht[0] = t]
  <2>1. Expand(e, n) = e2
    BY <1>6 DEF Expand, m
  <2>2. e.rehashidx = -1 /\ e.ht[1] = Reset /\ ~IsRehashing(e)
    BY <1>6 DEF CanExpand, IsRehashing, DictOK
  <2> HIDE DEF t
  <2>3. Parts(e2, t, Reset, -1, e.iterators)
    BY <1>3, <1>4, <2>2, SetTable
  <2> HIDE DEF e2
  <2>4. GoodParts(t, Reset, -1)
    BY <1>3, ResetOK DEF GoodParts
  <2>5. DictOK(e2) /\ All(e2) = Home(t) \cup Home(Reset) /\ e2.iterators = e.iterators
    BY <2>3, <2>4, FromParts
  <2>6. Home(e.ht[0]) = {} /\ e.ht[0].used = 0
    <3>1. Home(e.ht[0]) = {}
      BY <1>6 DEF Home
    <3> QED
      BY <1>4, <3>1, FS_EmptySet DEF TableOK
  <2>7. Same(e, e2)
    BY <1>3, <2>2, <2>5, <2>6, ResetOK DEF Same, All
  <2>8. e2.ht[0] = t /\ ~IsRehashing(e2)
    BY <2>3 DEF Parts, IsRehashing
  <2> QED
    BY <1>2, <1>3, <1>6, <2>1, <2>2, <2>6, <2>7, <2>8 DEF Expanded
<1>7. CASE CanExpand(e, n) /\ e.ht[0].size # 0
  <2> DEFINE f == [e EXCEPT !.ht[1] = t]
             e2 == [f EXCEPT !.rehashidx = 0]
  <2>1. Expand(e, n) = [e EXCEPT !.ht[1] = t, !.rehashidx = 0]
    BY <1>7 DEF Expand, m
  <2>2. e.rehashidx = -1 /\ e.ht[1] = Reset /\ ~IsRehashing(e) /\ e.ht[0].used <= n
    BY <1>7 DEF CanExpand, IsRehashing, DictOK
  <2> HIDE DEF t
  <2>3. [e EXCEPT !.ht[1] = t, !.rehashidx = 0] = e2
    BY <1>4 DEF DictRec
  <2>4. Parts(f, e.ht[0], t, -1, e.iterators)
    BY <1>3, <1>4, <2>2, SetTable
  <2> HIDE DEF f
  <2>5. Parts(e2, e.ht[0], t, 0, e.iterators)
    BY <2>4, SetIndex
  <2> HIDE DEF e2
  <2>6. GoodParts(e.ht[0], t, 0)
    BY <1>3, <1>4, <1>7 DEF GoodParts, Slots
  <2>7. DictOK(e2) /\ All(e2) = Home(e.ht[0]) \cup Home(t) /\ e2.iterators = e.iterators
    BY <2>5, <2>6, FromParts
  <2>8. Same(e, e2)
    BY <1>3, <2>2, <2>7, ResetOK DEF Same, All
  <2>9. e2.ht[0] = e.ht[0] /\ e2.ht[1] = t /\ e2.rehashidx = 0 /\ e.ht[0].size > 0
    BY <1>4, <1>7, <2>5 DEF Parts
  <2>10. Expanded(e, n, e2)
    BY <1>2, <1>3, <2>2, <2>8, <2>9 DEF Expanded
  <2> QED
    BY <2>1, <2>3, <2>10
<1> QED
  BY <1>5, <1>6, <1>7

(* _dictExpandIfNeeded.                                                    *)
Grown(e, e2) ==
  \/ e2 = e /\ (IsRehashing(e) \/ e.ht[0].size > 0)
  \/ ~IsRehashing(e) /\ e.ht[0].size = 0 /\ Expanded(e, InitialSize, e2)
  \/ ~IsRehashing(e) /\ e.ht[0].size > 0 /\ Expanded(e, 2 * e.ht[0].used, e2)

(* _dictExpandIfNeeded expands at most once; it does so whatever the       *)
(* switch says when the load exceeds dict_force_resize_ratio.              *)
LEMMA ExpandIfNeededOK ==
  ASSUME NEW e, DictOK(e)
  PROVE  /\ Grown(e, ExpandIfNeeded(e))
         /\ ~IsRehashing(e) /\ e.ht[0].size > 0 /\ e.ht[0].used \div e.ht[0].size > ForceRatio
              => Expanded(e, 2 * e.ht[0].used, ExpandIfNeeded(e))
<1> DEFINE t == e.ht[0]
           m == 2 * t.used
<1>1. /\ TableOK(t) /\ t.size \in Nat /\ t.used \in Nat /\ t.used = Cardinality(Home(t))
  BY DEF DictOK, TableOK, TableRec
<1>2. m \in 0 .. TwoTo[Width] /\ InitialSize \in 0 .. TwoTo[Width]
  <2>1. TwoTo[Width] \in Nat /\ InitialSize \in Nat /\ InitialSize <= TwoTo[Width]
    BY Powers, DictAssumption
  <2>2. Cardinality(Home(t)) <= Cardinality(Key) /\ Cardinality(Key) \in Nat
    BY HomeFinite, FS_CardinalityType, DictAssumption
  <2>3. 2 * Cardinality(Key) <= TwoTo[Width]
    BY DictAssumption
  <2> HIDE DEF t
  <2>4. 2 * t.used <= 2 * Cardinality(Key) /\ 2 * t.used \in Nat
    BY <1>1, <2>2
  <2> QED
    BY <2>1, <2>2, <2>3, <2>4
<1>3. Expanded(e, InitialSize, Expand(e, InitialSize)) /\ Expanded(e, m, Expand(e, m))
  <2> HIDE DEF m
  <2> QED
    BY <1>2, ExpandOK
<1>4. CASE IsRehashing(e)
  BY <1>4 DEF ExpandIfNeeded, Grown
<1>5. CASE ~IsRehashing(e) /\ t.size = 0
  BY <1>3, <1>5 DEF ExpandIfNeeded, Grown
<1>6. CASE ~IsRehashing(e) /\ t.size > 0 /\ ~(t.used >= t.size /\ (can \/ t.used \div t.size > ForceRatio))
  <2>1. ExpandIfNeeded(e) = e
    BY <1>6 DEF ExpandIfNeeded
  <2>2. t.used \div t.size > ForceRatio => t.used >= t.size
    BY <1>1, <1>6, AtLeastOnce, DictAssumption
  <2> QED
    BY <1>6, <2>1, <2>2 DEF Grown
<1>7. CASE ~IsRehashing(e) /\ t.size > 0 /\ t.used >= t.size /\ (can \/ t.used \div t.size > ForceRatio)
  <2>1. ExpandIfNeeded(e) = Expand(e, m)
    BY <1>1, <1>7 DEF ExpandIfNeeded
  <2> QED
    BY <1>3, <1>7, <2>1 DEF Grown
<1> QED
  BY <1>1, <1>4, <1>5, <1>6, <1>7

(* What dictAddRaw and dictFind leave, before they change anything.        *)
LEMMA GrownOK ==
  ASSUME NEW e, NEW e2, DictOK(e), Grown(e, e2)
  PROVE  Same(e, e2) /\ e2.ht[0].size > 0 /\ e2.ht[0].used = e.ht[0].used
<1>1. CASE e2 = e /\ (IsRehashing(e) \/ e.ht[0].size > 0)
  BY <1>1 DEF DictOK, Moving, Same
<1>2. CASE ~IsRehashing(e) /\ e.ht[0].size = 0 /\ Expanded(e, InitialSize, e2)
  <2>1. CanExpand(e, InitialSize)
    <3>1. e.ht[0].used = 0
      <4>1. Home(e.ht[0]) = {}
        BY <1>2 DEF Home
      <4> QED
        BY <4>1, FS_EmptySet DEF DictOK, TableOK
    <3>2. InitialSize \in Nat
      BY Powers, DictAssumption
    <3> QED
      BY <1>2, <3>1, <3>2 DEF CanExpand
  <2>2. \A q \in PowersOfTwo : q > 0
    BY Powers
  <2> QED
    BY <1>2, <2>1, <2>2 DEF Expanded
<1>3. CASE ~IsRehashing(e) /\ e.ht[0].size > 0 /\ Expanded(e, 2 * e.ht[0].used, e2)
  BY <1>3 DEF Expanded
<1> QED
  BY <1>1, <1>2, <1>3 DEF Grown

(* A step of rehashing inside another call neither adds nor removes an     *)
(* entry.                                                                  *)
LEMMA RehashStepOK ==
  ASSUME NEW e, DictOK(e)
  PROVE  Same(e, RehashStep(e)) /\ Same(e, Searched(e))
<1>1. Same(e, e) /\ Same(e, RehashOne(e))
  BY RehashOneOK DEF Same
<1> QED
  BY <1>1 DEF RehashStep, Searched

(* What dictAddRaw does before it adds leaves the entries alone and a      *)
(* table to add to.                                                        *)
LEMMA RoomOK ==
  ASSUME NEW e, DictOK(e)
  PROVE  Same(e, Room(e)) /\ Room(e).ht[0].size > 0
<1> DEFINE f == RehashStep(e)
<1>1. Same(e, f) /\ DictOK(f)
  BY RehashStepOK DEF Same
<1> HIDE DEF f
<1>2. Same(f, ExpandIfNeeded(f)) /\ ExpandIfNeeded(f).ht[0].size > 0
  BY <1>1, ExpandIfNeededOK, GrownOK
<1>3. Room(e) = ExpandIfNeeded(f)
  BY DEF Room, f
<1> QED
  BY <1>1, <1>2, <1>3 DEF Same

(* A search looks where the key is.                                        *)
LEMMA FoundOK ==
  ASSUME NEW e, DictOK(e), NEW k \in Key
  PROVE  /\ Found(e, k) = {j \in {0, 1} : k \in Home(e.ht[j])}
         /\ Found(e, k) = {} <=> k \notin All(e)
<1>1. e.ht[0].size \in Nat /\ e.ht[1].size \in Nat
  BY DEF DictOK, TableOK, TableRec
<1>2. Found(e, k) = {j \in {0, 1} : k \in Home(e.ht[j])}
  <2>1. CASE IsRehashing(e)
    <3>1. e.ht[0].size > 0 /\ e.ht[1].size > 0
      BY <2>1 DEF DictOK, Moving
    <3>2. Found(e, k) = {j \in {0, 1} : Contains(Bucket(e.ht[j], k), k)}
      BY <2>1, <3>1 DEF Found, Tables
    <3>3. \A j \in {0, 1} : k \in Home(e.ht[j]) <=> Contains(Bucket(e.ht[j], k), k)
      BY <3>1 DEF Home
    <3> QED
      BY <3>2, <3>3
  <2>2. CASE ~IsRehashing(e)
    <3>1. k \notin Home(e.ht[1])
      BY <2>2, ResetOK DEF DictOK
    <3>2. CASE e.ht[0].size = 0
      <4>1. k \notin Home(e.ht[0])
        BY <3>2 DEF Home
      <4>2. Found(e, k) = {}
        BY <3>2 DEF Found
      <4> QED
        BY <3>1, <4>1, <4>2
    <3>3. CASE e.ht[0].size # 0
      <4>1. Found(e, k) = {j \in {0} : Contains(Bucket(e.ht[j], k), k)}
        BY <2>2, <3>3 DEF Found, Tables
      <4>2. k \in Home(e.ht[0]) <=> Contains(Bucket(e.ht[0], k), k)
        BY <1>1, <3>3 DEF Home
      <4> QED
        BY <3>1, <4>1, <4>2
    <3> QED
      BY <3>2, <3>3
  <2> QED
    BY <2>1, <2>2
<1> QED
  BY <1>2 DEF All

(* The table an entry is deleted from.                                     *)
LEMMA FoundMin ==
  ASSUME NEW e, DictOK(e), NEW k \in Key, Found(e, k) # {}
  PROVE  Min(Found(e, k)) \in Found(e, k)
<1>1. Found(e, k) \in SUBSET Nat
  BY FoundOK
<1>2. PICK q \in Found(e, k) : \A r \in Found(e, k) : q <= r
  BY <1>1, Least
<1> QED
  BY <1>2 DEF Min

(* An entry is added to the table that takes new ones.                     *)
Target(e) == IF IsRehashing(e) THEN 1 ELSE 0

(* dictAddRaw adds the entry to the new table while rehashing, else to the *)
(* only one.                                                               *)
LEMMA PushOK ==
  ASSUME NEW e, DictOK(e), e.ht[0].size > 0, NEW k \in Key, k \notin All(e)
  PROVE  /\ DictOK(Push(e, k)) /\ All(Push(e, k)) = All(e) \cup {k}
         /\ Push(e, k).iterators = e.iterators
         /\ Push(e, k).rehashidx = e.rehashidx
         /\ Push(e, k).ht[Target(e)] = PushOn(e.ht[Target(e)], k)
         /\ Push(e, k).ht[1 - Target(e)] = e.ht[1 - Target(e)]
<1> DEFINE j == Target(e)
           t == PushOn(e.ht[j], k)
           e2 == Push(e, k)
<1>1. /\ e \in DictRec /\ j \in {0, 1} /\ TableOK(e.ht[j]) /\ e.ht[j].size > 0 /\ k \notin Home(e.ht[j])
  BY DEF DictOK, Moving, All, Target
<1>2. e2 = [e EXCEPT !.ht[j] = t]
  BY <1>1 DEF Push, DictRec, Target
<1> HIDE DEF j
<1>3. TableOK(t) /\ t.size = e.ht[j].size /\ Home(t) = Home(e.ht[j]) \cup {k}
  BY <1>1, PushOnOK
<1> HIDE DEF t, e2
<1>4. Parts(e2, IF j = 0 THEN t ELSE e.ht[0], IF j = 1 THEN t ELSE e.ht[1], e.rehashidx, e.iterators)
  <2>1. t \in TableRec
    BY <1>3 DEF TableOK
  <2> QED
    BY <1>1, <1>2, <2>1, SetTable
<1>5. CASE IsRehashing(e)
  <2>1. j = 1 /\ Target(e) = 1
    BY <1>5 DEF j, Target
  <2>2. Parts(e2, e.ht[0], t, e.rehashidx, e.iterators)
    BY <1>4, <2>1
  <2>3. GoodParts(e.ht[0], t, e.rehashidx)
    <3>1. Home(e.ht[0]) \cap Home(t) = {}
      BY <1>3, <2>1 DEF DictOK, All
    <3>2. e.rehashidx # -1
      BY <1>5 DEF IsRehashing
    <3> QED
      BY <1>1, <1>3, <1>5, <2>1, <3>1, <3>2 DEF GoodParts, DictOK, Moving
  <2>4. DictOK(e2) /\ All(e2) = Home(e.ht[0]) \cup Home(t) /\ e2.iterators = e.iterators
    BY <2>2, <2>3, FromParts
  <2>5. All(e2) = All(e) \cup {k}
    BY <1>3, <2>1, <2>4 DEF All
  <2>6. e2.ht[1] = t /\ e2.ht[0] = e.ht[0] /\ e2.rehashidx = e.rehashidx
    BY <2>2 DEF Parts
  <2>7. 1 - Target(e) = 0 /\ t = PushOn(e.ht[1], k)
    BY <2>1 DEF t
  <2> QED
    BY <2>1, <2>4, <2>5, <2>6, <2>7 DEF e2
<1>6. CASE ~IsRehashing(e)
  <2>1. j = 0 /\ Target(e) = 0 /\ e.ht[1] = Reset /\ e.rehashidx = -1
    BY <1>6 DEF j, Target, DictOK, IsRehashing
  <2>2. Parts(e2, t, Reset, -1, e.iterators)
    BY <1>4, <2>1
  <2>3. GoodParts(t, Reset, -1)
    BY <1>3, ResetOK DEF GoodParts
  <2>4. DictOK(e2) /\ All(e2) = Home(t) \cup Home(Reset) /\ e2.iterators = e.iterators
    BY <2>2, <2>3, FromParts
  <2>5. All(e2) = All(e) \cup {k}
    BY <1>3, <2>1, <2>4, ResetOK DEF All
  <2>6. e2.ht[0] = t /\ e2.ht[1] = e.ht[1] /\ e2.rehashidx = e.rehashidx
    BY <2>1, <2>2 DEF Parts
  <2>7. 1 - Target(e) = 1 /\ t = PushOn(e.ht[0], k)
    BY <2>1 DEF t
  <2> QED
    BY <2>1, <2>4, <2>5, <2>6, <2>7 DEF e2
<1> QED
  BY <1>5, <1>6

(* An entry is taken out of the table it is found in.                      *)
LEMMA UnlinkOK ==
  ASSUME NEW e, DictOK(e), NEW k \in Key, NEW j \in Found(e, k)
  PROVE  /\ DictOK(Unlink(e, k, j)) /\ All(Unlink(e, k, j)) = All(e) \ {k}
         /\ Unlink(e, k, j).iterators = e.iterators
         /\ Unlink(e, k, j).rehashidx = e.rehashidx
         /\ Unlink(e, k, j).ht[j] = DropFrom(e.ht[j], k)
         /\ Unlink(e, k, j).ht[1 - j] = e.ht[1 - j]
<1> DEFINE t == DropFrom(e.ht[j], k)
           e2 == Unlink(e, k, j)
<1>1. e \in DictRec /\ j \in {0, 1} /\ TableOK(e.ht[j]) /\ k \in Home(e.ht[j])
      /\ Home(e.ht[0]) \cap Home(e.ht[1]) = {}
  BY FoundOK DEF DictOK
<1>2. e2 = [e EXCEPT !.ht[j] = t]
  BY <1>1 DEF Unlink, DictRec
<1>3. TableOK(t) /\ t.size = e.ht[j].size /\ Home(t) = Home(e.ht[j]) \ {k}
      /\ t.table = [e.ht[j].table EXCEPT ![Hash[k] % e.ht[j].size] =
                      RemoveFirst(e.ht[j].table[Hash[k] % e.ht[j].size], k)]
  BY <1>1, DropFromOK
<1> HIDE DEF t, e2
<1>4. Parts(e2, IF j = 0 THEN t ELSE e.ht[0], IF j = 1 THEN t ELSE e.ht[1], e.rehashidx, e.iterators)
  <2>1. t \in TableRec
    BY <1>3 DEF TableOK
  <2> QED
    BY <1>1, <1>2, <2>1, SetTable
<1>5. CASE j = 1
  <2>1. IsRehashing(e) /\ e.rehashidx # -1
    BY <1>1, <1>5, ResetOK DEF DictOK, IsRehashing
  <2>2. Parts(e2, e.ht[0], t, e.rehashidx, e.iterators)
    BY <1>4, <1>5
  <2>3. GoodParts(e.ht[0], t, e.rehashidx)
    <3>1. Home(e.ht[0]) \cap Home(t) = {}
      BY <1>1, <1>3, <1>5
    <3> QED
      BY <1>3, <1>5, <2>1, <3>1 DEF GoodParts, DictOK, Moving
  <2>4. DictOK(e2) /\ All(e2) = Home(e.ht[0]) \cup Home(t) /\ e2.iterators = e.iterators
    BY <2>2, <2>3, FromParts
  <2>5. All(e2) = All(e) \ {k}
    BY <1>1, <1>3, <1>5, <2>4 DEF All
  <2>6. e2.ht[1] = t /\ e2.ht[0] = e.ht[0] /\ e2.rehashidx = e.rehashidx /\ 1 - j = 0
    BY <1>5, <2>2 DEF Parts
  <2> QED
    BY <1>5, <2>4, <2>5, <2>6 DEF e2, t
<1>6. CASE j = 0
  <2>1. Parts(e2, t, e.ht[1], e.rehashidx, e.iterators)
    BY <1>4, <1>6
  <2>2. GoodParts(t, e.ht[1], e.rehashidx)
    <3>1. Home(t) \cap Home(e.ht[1]) = {}
      BY <1>1, <1>3, <1>6
    <3>2. CASE ~IsRehashing(e)
      BY <1>3, <3>1, <3>2 DEF GoodParts, DictOK, IsRehashing
    <3>3. CASE IsRehashing(e)
      <4>1. ASSUME NEW b \in Slots(t), b < e.rehashidx PROVE t.table[b] = <<>>
        <5> DEFINE h == Hash[k] % e.ht[0].size
        <5>1. b \in Slots(e.ht[0]) /\ e.ht[0].table[b] = <<>>
          BY <1>3, <1>6, <3>3, <4>1 DEF Slots, DictOK, Moving
        <5>2. Contains(e.ht[0].table[h], k) /\ e.ht[0].table \in [Slots(e.ht[0]) -> Seq(Key)]
          BY <1>1, <1>6 DEF Home, Bucket, TableOK
        <5>3. b # h
          BY <5>1, <5>2 DEF Contains
        <5> HIDE DEF h
        <5>4. t.table = [e.ht[0].table EXCEPT ![h] = RemoveFirst(e.ht[0].table[h], k)]
          BY <1>3, <1>6 DEF h
        <5> QED
          BY <5>1, <5>2, <5>3, <5>4
      <4>2. t.size > 0 /\ e.ht[1].size > 0 /\ e.rehashidx \in Nat /\ e.rehashidx # -1
        BY <1>3, <1>6, <3>3 DEF DictOK, Moving, IsRehashing
      <4> QED
        BY <1>3, <3>1, <4>1, <4>2 DEF GoodParts, DictOK
    <3> QED
      BY <3>2, <3>3
  <2>3. DictOK(e2) /\ All(e2) = Home(t) \cup Home(e.ht[1]) /\ e2.iterators = e.iterators
    BY <2>1, <2>2, FromParts
  <2>4. All(e2) = All(e) \ {k}
    BY <1>1, <1>3, <1>6, <2>3 DEF All
  <2>5. e2.ht[0] = t /\ e2.ht[1] = e.ht[1] /\ e2.rehashidx = e.rehashidx /\ 1 - j = 1
    BY <1>6, <2>1 DEF Parts
  <2> QED
    BY <1>6, <2>3, <2>4, <2>5 DEF e2, t
<1> QED
  BY <1>1, <1>5, <1>6

(* The empty dictionary, and a dictionary with another count of iterators. *)
LEMMA NewOK ==
  DictOK(New) /\ All(New) = {} /\ New.iterators = 0 /\ ~IsRehashing(New) /\ New.ht[0] = Reset
<1>1. Parts(New, Reset, Reset, -1, 0)
  BY ResetOK DEF New, Parts, DictRec
<1>2. GoodParts(Reset, Reset, -1)
  BY ResetOK DEF GoodParts
<1>3. DictOK(New) /\ All(New) = Home(Reset) \cup Home(Reset) /\ New.iterators = 0
  BY <1>1, <1>2, FromParts
<1>4. ~IsRehashing(New) /\ New.ht[0] = Reset
  BY <1>1 DEF Parts, IsRehashing
<1> QED
  BY <1>3, <1>4, ResetOK

(* The counter of iterators has nothing to do with the tables.             *)
LEMMA CountOK ==
  ASSUME NEW e, DictOK(e), NEW n \in Int
  PROVE  LET f == [e EXCEPT !.iterators = n]
         IN  /\ DictOK(f) /\ All(f) = All(e) /\ f.iterators = n
             /\ f.ht = e.ht /\ f.rehashidx = e.rehashidx
<1> DEFINE f == [e EXCEPT !.iterators = n]
<1>1. e \in DictRec
  BY DEF DictOK
<1>2. f.ht = e.ht /\ f.rehashidx = e.rehashidx /\ f.iterators = n /\ f \in DictRec
  BY <1>1 DEF DictRec
<1> HIDE DEF f
<1>3. DictOK(f) /\ All(f) = All(e)
  BY <1>2 DEF DictOK, All, IsRehashing, Moving
<1> QED
  BY <1>2, <1>3 DEF f

-----------------------------------------------------------------------------
(* How full the tables get when nothing pauses the rehashing.              *)

(* A table in use has at most ForceRatio + 1 entries per bucket; a table   *)
(* that is being filled is going to have two at most, counting a slot for  *)
(* an addition with each entry that has not moved.                         *)
Load(e) ==
  IF IsRehashing(e) THEN e.ht[1].used + 2 * e.ht[0].used <= 2 * e.ht[1].size
                    ELSE e.ht[0].used <= (ForceRatio + 1) * e.ht[0].size
(* There is room for one more.                                             *)
Slack(e) ==
  IF IsRehashing(e) THEN e.ht[1].used + 1 + 2 * e.ht[0].used <= 2 * e.ht[1].size
                    ELSE e.ht[0].used + 1 <= (ForceRatio + 1) * e.ht[0].size

(* A quotient of at most r.                                                *)
LEMMA Quotient ==
  ASSUME NEW a \in Nat, NEW n \in Nat, n > 0, NEW r \in Nat, ~(a \div n > r)
  PROVE  a + 1 <= (r + 1) * n
<1> DEFINE q == a \div n
<1>1. q \in Nat /\ a < n * (q + 1)
  BY Z3
<1> HIDE DEF q
<1>2. q + 1 <= r + 1 /\ q \in Nat
  BY <1>1 DEF q
<1>3. n * (q + 1) <= n * (r + 1)
  BY <1>2, Z3
<1> QED
  BY <1>1, <1>3, Z3

(* Twice the size is not more than what a table may have.                  *)
LEMMA Twice ==
  ASSUME NEW n \in Nat
  PROVE  2 * n <= (ForceRatio + 1) * n /\ (ForceRatio + 1) * n \in Nat /\ 0 <= (ForceRatio + 1) * n
<1>1. ForceRatio \in Nat /\ ForceRatio >= 1
  BY DictAssumption
<1> QED
  BY <1>1, Z3

(* Sizes and counts are natural numbers.                                   *)
LEMMA CountsNat ==
  ASSUME NEW e, DictOK(e)
  PROVE  /\ e.ht[0].used \in Nat /\ e.ht[1].used \in Nat
         /\ e.ht[0].size \in Nat /\ e.ht[1].size \in Nat
BY DEF DictOK, TableOK, TableRec

(* One round of dictRehash makes room, or ends the rehashing.              *)
LEMMA LoadRound ==
  ASSUME NEW e, DictOK(e), Load(e)
  PROVE  /\ Load(RehashOne(e))
         /\ IsRehashing(RehashOne(e)) => Slack(RehashOne(e))
<1> DEFINE e2 == RehashOne(e)
<1>1. CASE ~IsRehashing(e)
  BY <1>1 DEF RehashOne
<1>2. CASE IsRehashing(e) /\ e.ht[0].used = 0
  <2>1. e2 = [e EXCEPT !.ht[0] = e.ht[1], !.ht[1] = Reset, !.rehashidx = -1]
    BY <1>2 DEF RehashOne
  <2>2. e2.ht[0] = e.ht[1] /\ e2.rehashidx = -1
    <3>1. e \in DictRec /\ e.ht \in [{0, 1} -> TableRec]
      BY DEF DictOK, DictRec
    <3> QED
      BY <2>1, <3>1 DEF DictRec
  <2> HIDE DEF e2
  <2>3. ~IsRehashing(e2)
    BY <2>2 DEF IsRehashing
  <2>4. e.ht[1].used <= 2 * e.ht[1].size
    BY <1>2, CountsNat DEF Load
  <2>5. e.ht[1].used <= (ForceRatio + 1) * e.ht[1].size
    <3>1. 2 * e.ht[1].size <= (ForceRatio + 1) * e.ht[1].size /\ (ForceRatio + 1) * e.ht[1].size \in Nat
      BY CountsNat, Twice
    <3> QED
      BY <2>4, <3>1, CountsNat
  <2>6. Load(e2)
    BY <2>2, <2>3, <2>5 DEF Load
  <2> QED
    BY <2>3, <2>6 DEF e2
<1>3. CASE IsRehashing(e) /\ e.ht[0].used # 0
  <2>1. e2 = MoveBucket(e)
    BY <1>3 DEF RehashOne
  <2>2. /\ e2.ht[0].size = e.ht[0].size /\ e2.ht[1].size = e.ht[1].size /\ e2.rehashidx # -1
        /\ e2.ht[0].used + e2.ht[1].used = e.ht[0].used + e.ht[1].used
        /\ e2.ht[0].used < e.ht[0].used /\ DictOK(e2)
    BY <1>3, <2>1, MoveBucketOK DEF Same
  <2> HIDE DEF e2
  <2>3. e.ht[1].used + 2 * e.ht[0].used <= 2 * e.ht[1].size
    BY <1>3 DEF Load
  <2>4. e2.ht[0].used \in Nat /\ e2.ht[1].used \in Nat
    BY <2>2, CountsNat
  <2>5. e2.ht[1].used + 1 + 2 * e2.ht[0].used <= 2 * e2.ht[1].size
    BY <2>2, <2>3, <2>4, CountsNat
  <2>6. Slack(e2)
    BY <2>2, <2>5 DEF Slack, IsRehashing
  <2>7. Load(e2)
    BY <2>2, <2>4, <2>5, CountsNat DEF Load, IsRehashing
  <2> QED
    BY <2>6, <2>7 DEF e2
<1> QED
  BY <1>1, <1>2, <1>3

(* Rehashing keeps the load bounded ...                                    *)
LEMMA LoadRehash ==
  ASSUME NEW e, DictOK(e), Load(e), NEW n \in Nat
  PROVE  Load(Rehash(e, n)[n])
<1>1. PICK w : w = Rehash(e, n)
  OBVIOUS
<1>2. w[0] = e /\ \A i \in 0 .. n : i # 0 => w[i] = RehashOne(w[i - 1])
  BY <1>1, RehashEquation
<1> DEFINE T == {i \in 0 .. n : DictOK(w[i]) /\ Load(w[i])}
<1>3. T \in SUBSET (0 .. n) /\ 0 \in T
  BY <1>2
<1>4. ASSUME NEW i \in T, i < n PROVE i + 1 \in T
  <2>1. i + 1 \in 0 .. n /\ i + 1 # 0 /\ (i + 1) - 1 = i
    BY <1>4
  <2>2. w[i + 1] = RehashOne(w[i])
    BY <1>2, <2>1
  <2>3. DictOK(RehashOne(w[i])) /\ Load(RehashOne(w[i]))
    BY RehashOneOK, LoadRound DEF Same
  <2> QED
    BY <2>1, <2>2, <2>3
<1>5. T = 0 .. n
  <2> HIDE DEF T
  <2> QED
    BY <1>3, <1>4, Induction
<1>6. Load(w[n])
  BY <1>5
<1> QED
  BY <1>1, <1>6

(* A new table is large enough for what is there.                          *)
LEMMA LoadExpand ==
  ASSUME NEW e, NEW e2, NEW n \in Nat, DictOK(e), Load(e), Expanded(e, n, e2)
  PROVE  Load(e2)
<1>0. DictOK(e2)
  BY DEF Expanded, Same
<1>1. CASE e2 = e
  BY <1>1
<1>2. CASE ~IsRehashing(e2) /\ e2.ht[0].used = 0
  <2>1. 0 <= (ForceRatio + 1) * e2.ht[0].size
    BY <1>0, CountsNat, Twice
  <2> QED
    BY <1>2, <2>1 DEF Load
<1>3. CASE /\ e2.ht[0] = e.ht[0] /\ e2.rehashidx = 0 /\ e2.ht[1].size >= n /\ e2.ht[1].used = 0
           /\ e.ht[0].used <= n
  <2>1. IsRehashing(e2)
    BY <1>3 DEF IsRehashing
  <2>2. e2.ht[0].used \in Nat /\ e2.ht[1].size \in Nat /\ e2.ht[0].used <= n
    BY <1>0, <1>3, CountsNat
  <2>3. e2.ht[1].used + 2 * e2.ht[0].used <= 2 * e2.ht[1].size
    BY <1>3, <2>2
  <2> QED
    BY <2>1, <2>3 DEF Load
<1> QED
  BY <1>1, <1>2, <1>3 DEF Expanded

(* dictAddRaw makes room.                                                  *)
LEMMA LoadRoom ==
  ASSUME NEW e, DictOK(e), Load(e), e.iterators = 0
  PROVE  Slack(Room(e)) /\ Load(Room(e))
<1> DEFINE f == RehashStep(e)
           g == ExpandIfNeeded(f)
<1>1. f = RehashOne(e)
  BY DEF RehashStep
<1>2. DictOK(f) /\ Load(f) /\ (IsRehashing(f) => Slack(f))
  BY <1>1, RehashOneOK, LoadRound DEF Same
<1>3. Room(e) = g
  BY DEF Room
<1> HIDE DEF f
<1>4. /\ Grown(f, g) /\ DictOK(g)
      /\ ~IsRehashing(f) /\ f.ht[0].size > 0 /\ f.ht[0].used \div f.ht[0].size > ForceRatio
           => Expanded(f, 2 * f.ht[0].used, g)
  BY <1>2, ExpandIfNeededOK, GrownOK DEF Same
<1> HIDE DEF g
<1>5. /\ f.ht[0].used \in Nat /\ f.ht[0].size \in Nat /\ g.ht[0].used \in Nat /\ g.ht[0].size \in Nat
      /\ g.ht[1].used \in Nat /\ g.ht[1].size \in Nat
  BY <1>2, <1>4, CountsNat
<1>6. CASE IsRehashing(f)
  BY <1>2, <1>3, <1>4, <1>6 DEF Grown
<1>7. ASSUME ~IsRehashing(f), f.ht[0].size > 0, g.ht[0] = f.ht[0], g.rehashidx = 0,
             g.ht[1].size \in PowersOfTwo, g.ht[1].size >= 2 * f.ht[0].used, g.ht[1].used = 0
      PROVE  Slack(g) /\ Load(g)
  <2>1. IsRehashing(g) /\ g.ht[1].size > 0
    BY <1>7, Powers DEF IsRehashing
  <2>2. g.ht[1].used + 1 + 2 * g.ht[0].used <= 2 * g.ht[1].size
    BY <1>5, <1>7, <2>1
  <2>3. g.ht[1].used + 2 * g.ht[0].used <= 2 * g.ht[1].size
    BY <1>5, <2>2
  <2> QED
    BY <2>1, <2>2, <2>3 DEF Slack, Load
<1>8. CASE ~IsRehashing(f) /\ f.ht[0].size = 0
  <2>1. Expanded(f, InitialSize, g) /\ f.ht[0].used = 0
    <3>1. Home(f.ht[0]) = {}
      BY <1>8 DEF Home
    <3>2. f.ht[0].used = 0
      BY <1>2, <3>1, FS_EmptySet DEF DictOK, TableOK
    <3> QED
      BY <1>4, <1>8, <3>2 DEF Grown
  <2>2. CanExpand(f, InitialSize)
    <3>1. InitialSize \in Nat
      BY Powers, DictAssumption
    <3> QED
      BY <1>8, <2>1, <3>1 DEF CanExpand
  <2>3. ~IsRehashing(g) /\ g.ht[0].size \in PowersOfTwo /\ g.ht[0].used = 0
    BY <1>8, <2>1, <2>2 DEF Expanded
  <2>4. 2 * g.ht[0].size <= (ForceRatio + 1) * g.ht[0].size /\ g.ht[0].size > 0
        /\ (ForceRatio + 1) * g.ht[0].size \in Nat
    BY <1>5, <2>3, Twice, Powers
  <2>5. g.ht[0].used + 1 <= (ForceRatio + 1) * g.ht[0].size /\ g.ht[0].used <= (ForceRatio + 1) * g.ht[0].size
    BY <1>5, <2>3, <2>4
  <2> QED
    BY <1>3, <2>3, <2>5 DEF Slack, Load
<1>9. CASE ~IsRehashing(f) /\ f.ht[0].size > 0
  <2>1. CanExpand(f, 2 * f.ht[0].used)
    BY <1>5, <1>9 DEF CanExpand
  <2>2. CASE Expanded(f, 2 * f.ht[0].used, g)
    BY <1>3, <1>7, <1>9, <2>1, <2>2 DEF Expanded
  <2>3. CASE g = f /\ ~(f.ht[0].used \div f.ht[0].size > ForceRatio)
    <3>1. f.ht[0].used + 1 <= (ForceRatio + 1) * f.ht[0].size
      BY <1>5, <1>9, <2>3, Quotient, DictAssumption
    <3> QED
      BY <1>2, <1>3, <1>9, <2>3, <3>1 DEF Slack
  <2> QED
    BY <1>4, <1>9, <2>2, <2>3 DEF Grown
<1> QED
  BY <1>3, <1>5, <1>6, <1>8, <1>9

(* An addition uses the room, a removal makes more.                        *)
LEMMA LoadPush ==
  ASSUME NEW e, DictOK(e), e.ht[0].size > 0, NEW k \in Key, k \notin All(e), Slack(e)
  PROVE  Load(Push(e, k))
<1> DEFINE f == Push(e, k)
           j == Target(e)
<1>1. /\ f.rehashidx = e.rehashidx /\ f.ht[j] = PushOn(e.ht[j], k) /\ f.ht[1 - j] = e.ht[1 - j]
  BY PushOK
<1>2. j \in {0, 1} /\ TableOK(e.ht[j]) /\ e.ht[j].size > 0 /\ k \notin Home(e.ht[j])
  BY DEF DictOK, Moving, All, Target
<1>3. f.ht[j].size = e.ht[j].size /\ f.ht[j].used = e.ht[j].used + 1
  <2> HIDE DEF f, j
  <2> QED
    BY <1>1, <1>2, PushOnOK
<1>4. CASE IsRehashing(e)
  <2>1. j = 1 /\ 1 - j = 0 /\ IsRehashing(f)
    BY <1>1, <1>4 DEF Target, IsRehashing
  <2> HIDE DEF f, j
  <2> QED
    BY <1>1, <1>3, <1>4, <2>1 DEF Slack, Load, f
<1>5. CASE ~IsRehashing(e)
  <2>1. j = 0 /\ ~IsRehashing(f)
    BY <1>1, <1>5 DEF Target, IsRehashing
  <2> HIDE DEF f, j
  <2> QED
    BY <1>1, <1>3, <1>5, <2>1 DEF Slack, Load, f
<1> QED
  BY <1>4, <1>5

(* ... and so does the removal of an entry.                                *)
LEMMA LoadUnlink ==
  ASSUME NEW e, DictOK(e), NEW k \in Key, NEW j \in Found(e, k), Load(e)
  PROVE  Load(Unlink(e, k, j))
<1> DEFINE f == Unlink(e, k, j)
<1>1. /\ f.rehashidx = e.rehashidx /\ f.ht[j] = DropFrom(e.ht[j], k) /\ f.ht[1 - j] = e.ht[1 - j]
      /\ DictOK(f)
  BY UnlinkOK
<1>2. j \in {0, 1} /\ TableOK(e.ht[j]) /\ k \in Home(e.ht[j])
  BY FoundOK DEF DictOK
<1> HIDE DEF f
<1>3. f.ht[j].size = e.ht[j].size /\ f.ht[j].used = e.ht[j].used - 1
  <2>1. DropFrom(e.ht[j], k).size = e.ht[j].size /\ DropFrom(e.ht[j], k).used = e.ht[j].used - 1
    BY <1>2, DropFromOK
  <2> QED
    BY <1>1, <2>1
<1>4. f.ht[0].used <= e.ht[0].used /\ f.ht[1].used <= e.ht[1].used
      /\ f.ht[0].size = e.ht[0].size /\ f.ht[1].size = e.ht[1].size
  <2>1. CASE j = 0
    BY <1>1, <1>3, <2>1, CountsNat
  <2>2. CASE j = 1
    BY <1>1, <1>3, <2>2, CountsNat
  <2> QED
    BY <1>2, <2>1, <2>2
<1>5. /\ f.ht[0].used \in Nat /\ f.ht[1].used \in Nat /\ e.ht[0].used \in Nat /\ e.ht[1].used \in Nat
      /\ e.ht[0].size \in Nat /\ e.ht[1].size \in Nat
  BY <1>1, CountsNat
<1>6. CASE IsRehashing(e)
  <2>1. IsRehashing(f)
    BY <1>1, <1>6 DEF IsRehashing
  <2>2. f.ht[1].used + 2 * f.ht[0].used <= 2 * f.ht[1].size
    BY <1>4, <1>5, <1>6 DEF Load
  <2> QED
    BY <2>1, <2>2 DEF Load, f
<1>7. CASE ~IsRehashing(e)
  <2>1. ~IsRehashing(f)
    BY <1>1, <1>7 DEF IsRehashing
  <2>2. (ForceRatio + 1) * e.ht[0].size \in Nat
    BY <1>5, Twice
  <2>3. f.ht[0].used <= (ForceRatio + 1) * f.ht[0].size
    BY <1>4, <1>5, <1>7, <2>2 DEF Load
  <2> QED
    BY <2>1, <2>3 DEF Load, f
<1> QED
  BY <1>6, <1>7

-----------------------------------------------------------------------------
(* Words with their bits in the opposite order.                            *)

(* Bit j of v.                                                             *)
Bit(v, j) == (v \div TwoTo[j]) % 2

(* A bit is 0 or 1, and what is above it is a natural number.              *)
LEMMA BitIs ==
  ASSUME NEW v \in Nat, NEW j \in 0 .. Width
  PROVE  Bit(v, j) \in {0, 1} /\ v \div TwoTo[j] \in Nat
<1>1. TwoTo[j] \in Nat /\ TwoTo[j] > 0
  BY Powers DEF PowersOfTwo
<1>2. PICK p \in Nat : p = TwoTo[j] /\ p > 0
  BY <1>1
<1>3. v \div p \in Nat
  BY <1>2
<1>4. PICK q \in Nat : q = v \div p
  BY <1>3
<1>5. q % 2 \in {0, 1}
  BY <1>4
<1> QED
  BY <1>2, <1>4, <1>5 DEF Bit

(* Bits is defined by its equation.                                        *)
LEMMA BitsEquation ==
  ASSUME NEW v \in Nat
  PROVE  /\ \A j \in 0 .. Width : Bits(v)[j] \in Nat
         /\ Bits(v)[0] = 0
         /\ \A j \in 0 .. Width : j # 0 => Bits(v)[j] = 2 * Bits(v)[j - 1] + Bit(v, j - 1)
<1> DEFINE F == [j \in 1 .. Width |-> [x \in Nat |-> 2 * x + Bit(v, j - 1)]]
           E(f) == f = [j \in 0 .. Width |-> IF j = 0 THEN 0 ELSE 2 * f[j - 1] + Bit(v, j - 1)]
<1>0. Width \in Nat
  BY DictAssumption
<1>1. ASSUME NEW j \in 1 .. Width, NEW x \in Nat PROVE 2 * x + Bit(v, j - 1) \in Nat
  <2>1. j - 1 \in 0 .. Width
    BY <1>0
  <2>2. Bit(v, j - 1) \in {0, 1}
    BY <2>1, BitIs
  <2> QED
    BY <2>2
<1>2. F \in [1 .. Width -> [Nat -> Nat]] /\ 0 \in Nat
  BY <1>1
<1>3. PICK f : Iterated(Width, Nat, 0, F, f)
  <2> HIDE DEF F
  <2> QED
    BY <1>0, <1>2, Iterates
<1>4. \A j \in 0 .. Width : f[j] = IF j = 0 THEN 0 ELSE 2 * f[j - 1] + Bit(v, j - 1)
  <2> SUFFICES ASSUME NEW j \in 0 .. Width PROVE f[j] = IF j = 0 THEN 0 ELSE 2 * f[j - 1] + Bit(v, j - 1)
    OBVIOUS
  <2>1. CASE j = 0
    BY <1>3, <2>1 DEF Iterated
  <2>2. CASE j # 0
    <3>1. j \in 1 .. Width /\ j - 1 \in 0 .. Width
      BY <1>0, <2>2
    <3>2. f[j - 1] \in Nat /\ f[j] = F[j][f[j - 1]]
      <4> HIDE DEF F
      <4> QED
        BY <1>3, <2>2, <3>1 DEF Iterated
    <3> QED
      BY <2>2, <3>1, <3>2
  <2> QED
    BY <2>1, <2>2
<1>5. E(f)
  BY <1>3, <1>4 DEF Iterated
<1>6. E(Bits(v))
  BY <1>5 DEF Bits, Bit
<1>7. PICK w : w = Bits(v)
  OBVIOUS
<1>8. E(w)
  BY <1>6, <1>7
<1>9. w[0] = 0 /\ \A j \in 0 .. Width : j # 0 => w[j] = 2 * w[j - 1] + Bit(v, j - 1)
  BY <1>0, <1>8
<1> HIDE DEF E, F
<1>10. \A j \in 0 .. Width : w[j] \in Nat
  <2> DEFINE T == {j \in 0 .. Width : w[j] \in Nat}
  <2>1. T \in SUBSET (0 .. Width) /\ 0 \in T
    BY <1>0, <1>9
  <2>2. ASSUME NEW j \in T, j < Width PROVE j + 1 \in T
    <3>1. j + 1 \in 0 .. Width /\ j + 1 # 0 /\ (j + 1) - 1 = j /\ j \in 0 .. Width
      BY <1>0, <2>2
    <3>2. w[j + 1] = 2 * w[j] + Bit(v, j) /\ Bit(v, j) \in {0, 1}
      BY <1>9, <3>1, BitIs
    <3> QED
      BY <3>1, <3>2
  <2>3. T = 0 .. Width
    <3> HIDE DEF T
    <3> QED
      BY <1>0, <2>1, <2>2, Induction
  <2> QED
    BY <2>3
<1> QED
  BY <1>7, <1>9, <1>10

(* j bits make a number below 2^j.                                         *)
LEMMA BitsBound ==
  ASSUME NEW v \in Nat, NEW j \in 0 .. Width
  PROVE  Bits(v)[j] \in Nat /\ Bits(v)[j] < TwoTo[j]
<1>0. Width \in Nat
  BY DictAssumption
<1>1. PICK w : w = Bits(v)
  OBVIOUS
<1>2. /\ \A i \in 0 .. Width : w[i] \in Nat
      /\ w[0] = 0 /\ \A i \in 0 .. Width : i # 0 => w[i] = 2 * w[i - 1] + Bit(v, i - 1)
  BY <1>1, BitsEquation
<1> DEFINE T == {i \in 0 .. Width : w[i] < TwoTo[i]}
<1>3. T \in SUBSET (0 .. Width) /\ 0 \in T
  BY <1>0, <1>2, TwoToEquation
<1>4. ASSUME NEW i \in T, i < Width PROVE i + 1 \in T
  <2>1. i + 1 \in 0 .. Width /\ i + 1 # 0 /\ (i + 1) - 1 = i /\ i \in 0 .. Width
    BY <1>0, <1>4
  <2>2. w[i + 1] = 2 * w[i] + Bit(v, i) /\ Bit(v, i) \in {0, 1} /\ w[i] \in Nat
    BY <1>2, <2>1, BitIs
  <2>3. TwoTo[i + 1] = 2 * TwoTo[i] /\ TwoTo[i] \in Nat /\ w[i] < TwoTo[i]
    BY <1>4, <2>1, TwoToEquation
  <2>4. w[i + 1] < TwoTo[i + 1]
    BY <2>2, <2>3
  <2> QED
    BY <2>1, <2>4
<1>5. T = 0 .. Width
  <2> HIDE DEF T
  <2> QED
    BY <1>0, <1>3, <1>4, Induction
<1> QED
  BY <1>1, <1>2, <1>5

(* rev returns a word.                                                     *)
LEMMA RevWord ==
  ASSUME NEW v \in Nat
  PROVE  Rev(v) \in Word
<1>1. Width \in 0 .. Width /\ TwoTo[Width] \in Nat
  BY DictAssumption, TwoToEquation
<1> QED
  BY <1>1, BitsBound DEF Rev, Word

(* So does the next cursor of a scan.                                      *)
LEMMA NextCursorWord ==
  ASSUME NEW v \in Nat, NEW size \in PowersOfTwo
  PROVE  NextCursor(v, size) \in Word
<1>1. size \in Nat /\ size > 0 /\ size <= TwoTo[Width] /\ TwoTo[Width] \in Nat /\ TwoTo[Width] > 0
  BY Powers
<1>2. (TwoTo[Width] - size) + (v % size) \in Nat
  BY <1>1
<1>3. PICK u \in Nat : u = Rev((TwoTo[Width] - size) + (v % size))
  BY <1>2, RevWord DEF Word
<1>4. (u + 1) % TwoTo[Width] \in Nat
  BY <1>1
<1>5. Rev((u + 1) % TwoTo[Width]) \in Word
  BY <1>4, RevWord
<1> QED
  BY <1>3, <1>5 DEF NextCursor

-----------------------------------------------------------------------------
(* The calls.                                                              *)

(* The tables hold the allocated entries.                                  *)
DictInv ==
  /\ DictOK(d) /\ All(d) = Entries
  /\ val \in [Key -> Val \cup {NULL}]

(* Nothing is added or removed ...                                         *)
LEMMA Keeps ==
  ASSUME DictInv, Same(d, d'), val' = val
  PROVE  DictInv'
BY DEF DictInv, Same, Entries

(* ... entry k is set to v, which it may be already there for ...          *)
LEMMA Stores ==
  ASSUME DictInv, NEW k \in Key, NEW v \in Val, val' = [val EXCEPT ![k] = v],
         DictOK(d'), All(d') = All(d) \cup {k}
  PROVE  DictInv'
<1>1. v # NULL
  BY DictAssumption
<1>2. val' \in [Key -> Val \cup {NULL}] /\ \A j \in Key : val'[j] = IF j = k THEN v ELSE val[j]
  BY DEF DictInv
<1>3. Entries' = Entries \cup {k}
  BY <1>1, <1>2 DEF Entries
<1> QED
  BY <1>2, <1>3 DEF DictInv

(* ... or entry k is freed.                                                *)
LEMMA Frees ==
  ASSUME DictInv, NEW k \in Key, val' = [val EXCEPT ![k] = NULL],
         DictOK(d'), All(d') = All(d) \ {k}
  PROVE  DictInv'
<1>1. val' \in [Key -> Val \cup {NULL}] /\ \A j \in Key : val'[j] = IF j = k THEN NULL ELSE val[j]
  BY DEF DictInv
<1>2. Entries' = Entries \ {k}
  BY <1>1 DEF Entries
<1> QED
  BY <1>1, <1>2 DEF DictInv

(* dictAdd keeps the invariant: the entry is new to both tables when it is *)
(* pushed.                                                                 *)
LEMMA AddStep ==
  ASSUME DictInv, NEW k \in Key, NEW v \in Val, DictAdd(k, v)
  PROVE  DictInv' /\ d'.iterators = d.iterators
<1> DEFINE e == Room(d)
<1>1. Same(d, e) /\ DictOK(e) /\ e.ht[0].size > 0 /\ All(e) = All(d) /\ e.iterators = d.iterators
  BY RoomOK DEF DictInv, Same
<1>2. CASE Found(e, k) = {}
  <2>1. d' = Push(e, k) /\ val' = [val EXCEPT ![k] = v]
    BY <1>2 DEF DictAdd
  <2> HIDE DEF e
  <2>2. k \notin All(e)
    BY <1>1, <1>2, FoundOK
  <2>3. DictOK(d') /\ All(d') = All(d) \cup {k} /\ d'.iterators = d.iterators
    BY <1>1, <2>1, <2>2, PushOK
  <2> QED
    BY <2>1, <2>3, Stores
<1>3. CASE Found(e, k) # {}
  <2>1. d' = e /\ val' = val
    BY <1>3 DEF DictAdd
  <2> QED
    BY <1>1, <2>1, Keeps DEF Same
<1> QED
  BY <1>2, <1>3

(* dictReplace keeps it: it adds the entry or sets the value of the one    *)
(* that is there.                                                          *)
LEMMA ReplaceStep ==
  ASSUME DictInv, NEW k \in Key, NEW v \in Val, DictReplace(k, v)
  PROVE  DictInv' /\ d'.iterators = d.iterators
<1> DEFINE e == Room(d)
<1>1. Same(d, e) /\ DictOK(e) /\ e.ht[0].size > 0 /\ All(e) = All(d) /\ e.iterators = d.iterators
  BY RoomOK DEF DictInv, Same
<1>2. val' = [val EXCEPT ![k] = v] /\ d' = IF Found(e, k) = {} THEN Push(e, k) ELSE Searched(e)
  BY DEF DictReplace
<1> HIDE DEF e
<1>3. DictOK(d') /\ All(d') = All(d) \cup {k} /\ d'.iterators = d.iterators
  <2>1. CASE Found(e, k) = {}
    <3>1. k \notin All(e)
      BY <1>1, <2>1, FoundOK
    <3> QED
      BY <1>1, <1>2, <2>1, <3>1, PushOK
  <2>2. CASE Found(e, k) # {}
    <3>1. k \in All(e)
      BY <1>1, <2>2, FoundOK
    <3>2. DictOK(Searched(e)) /\ All(Searched(e)) = All(e) /\ Searched(e).iterators = e.iterators
      BY <1>1, RehashStepOK DEF Same
    <3> QED
      BY <1>1, <1>2, <2>2, <3>1, <3>2
  <2> QED
    BY <2>1, <2>2
<1> QED
  BY <1>2, <1>3, Stores

(* dictReplaceRaw likewise.                                                *)
LEMMA ReplaceRawStep ==
  ASSUME DictInv, NEW k \in Key, NEW v \in Val, DictReplaceRaw(k, v)
  PROVE  DictInv' /\ d'.iterators = d.iterators
<1> DEFINE e == Searched(d)
<1>1. DictOK(e) /\ All(e) = All(d) /\ e.iterators = d.iterators
  BY RehashStepOK DEF DictInv, Same
<1>2. val' = [val EXCEPT ![k] = v] /\ d' = IF Found(e, k) = {} THEN Push(Room(e), k) ELSE e
  BY DEF DictReplaceRaw
<1> HIDE DEF e
<1>3. DictOK(d') /\ All(d') = All(d) \cup {k} /\ d'.iterators = d.iterators
  <2>1. CASE Found(e, k) = {}
    <3>1. DictOK(Room(e)) /\ Room(e).ht[0].size > 0 /\ All(Room(e)) = All(e)
          /\ Room(e).iterators = e.iterators
      BY <1>1, RoomOK DEF Same
    <3>2. k \notin All(Room(e))
      BY <1>1, <2>1, <3>1, FoundOK
    <3>3. DictOK(Push(Room(e), k)) /\ All(Push(Room(e), k)) = All(Room(e)) \cup {k}
          /\ Push(Room(e), k).iterators = Room(e).iterators
      BY <3>1, <3>2, PushOK
    <3> QED
      BY <1>1, <1>2, <2>1, <3>1, <3>3
  <2>2. CASE Found(e, k) # {}
    <3>1. k \in All(e)
      BY <1>1, <2>2, FoundOK
    <3> QED
      BY <1>1, <1>2, <2>2, <3>1
  <2> QED
    BY <2>1, <2>2
<1> QED
  BY <1>2, <1>3, Stores

(* dictDelete keeps it: the entry is unlinked from the table that holds    *)
(* it.                                                                     *)
LEMMA DeleteStep ==
  ASSUME DictInv, NEW k \in Key, DictDelete(k)
  PROVE  DictInv' /\ d'.iterators = d.iterators
<1> DEFINE e == Searched(d)
<1>1. Same(d, e) /\ DictOK(e) /\ All(e) = All(d) /\ e.iterators = d.iterators
  BY RehashStepOK DEF DictInv, Same
<1>2. CASE Found(e, k) = {}
  <2>1. d' = e /\ val' = val
    BY <1>2 DEF DictDelete
  <2> QED
    BY <1>1, <2>1, Keeps DEF Same
<1>3. CASE Found(e, k) # {}
  <2> DEFINE j == Min(Found(e, k))
  <2>1. d' = Unlink(e, k, j) /\ val' = [val EXCEPT ![k] = NULL]
    BY <1>3 DEF DictDelete
  <2> HIDE DEF e
  <2>2. j \in Found(e, k)
    BY <1>1, <1>3, FoundMin
  <2> HIDE DEF j
  <2>3. DictOK(d') /\ All(d') = All(d) \ {k} /\ d'.iterators = d.iterators
    BY <1>1, <2>1, <2>2, UnlinkOK
  <2> QED
    BY <2>1, <2>3, Frees
<1> QED
  BY <1>2, <1>3

(* dictEmpty and dictRelease keep it: the tables are reset and the entries *)
(* are freed.                                                              *)
LEMMA EmptyStep ==
  ASSUME d' = New, val' = [k \in Key |-> NULL]
  PROVE  DictInv'
BY NewOK DEF DictInv, Entries

(* The sizes that dictExpand is called with are in the range of NextPower. *)
LEMMA SizesOK ==
  ASSUME DictInv
  PROVE  /\ Sizes \subseteq 0 .. TwoTo[Width]
         /\ Max({d.ht[0].used, InitialSize}) \in 0 .. TwoTo[Width]
         /\ Max({d.ht[0].used, InitialSize}) >= d.ht[0].used
<1> DEFINE u == d.ht[0].used
<1>1. TwoTo[Width] \in Nat /\ InitialSize \in Nat /\ InitialSize <= TwoTo[Width]
  BY Powers, DictAssumption
<1>2. u \in Nat /\ u <= TwoTo[Width]
  <2>1. u = Cardinality(Home(d.ht[0])) /\ u \in Nat
    BY DEF DictInv, DictOK, TableOK, TableRec
  <2>2. Cardinality(Home(d.ht[0])) <= Cardinality(Key) /\ Cardinality(Key) \in Nat
    BY HomeFinite, FS_CardinalityType, DictAssumption
  <2>3. 2 * Cardinality(Key) <= TwoTo[Width]
    BY DictAssumption
  <2> HIDE DEF u
  <2> QED
    BY <1>1, <2>1, <2>2, <2>3
<1> HIDE DEF u
<1>3. Max({u, InitialSize}) = IF u >= InitialSize THEN u ELSE InitialSize
  BY <1>1, <1>2 DEF Max
<1>4. Max({u, InitialSize}) \in 0 .. TwoTo[Width] /\ Max({u, InitialSize}) >= u
  BY <1>1, <1>2, <1>3
<1> QED
  BY <1>4, DictAssumption DEF u

(* Lookups rehash a step and keep the invariant.                           *)
LEMMA LookupStep ==
  ASSUME DictInv, Lookup
  PROVE  DictInv' /\ d'.iterators = d.iterators
<1>1. DictOK(d)
  BY DEF DictInv
<1>2. Same(d, RehashStep(d)) /\ Same(d, Searched(d))
  BY <1>1, RehashStepOK
<1>3. val' = val /\ (d' = RehashStep(d) \/ d' = Searched(d))
  BY DEF Lookup, DictFind, DictGetRandomKey
<1> QED
  BY <1>2, <1>3, Keeps DEF Same

(* dictExpand, dictResize, dictRehash and the switch keep it.              *)
LEMMA TuneStep ==
  ASSUME DictInv, Tune
  PROVE  DictInv' /\ d'.iterators = d.iterators
<1>1. DictOK(d) /\ Same(d, d)
  BY DEF DictInv, Same
<1>2. CASE \E n \in Sizes : DictExpand(n)
  <2>1. PICK n \in Sizes : d' = Expand(d, n) /\ val' = val
    BY <1>2 DEF DictExpand
  <2>2. Expanded(d, n, Expand(d, n))
    BY <1>1, SizesOK, ExpandOK
  <2> QED
    BY <2>1, <2>2, Keeps DEF Expanded, Same
<1>3. CASE \E n \in 1 .. MaxSteps : DictRehash(n)
  <2>1. PICK n \in 1 .. MaxSteps : d' = Rehash(d, n)[n] /\ val' = val
    BY <1>3 DEF DictRehash
  <2>2. Same(d, Rehash(d, n)[n])
    BY <1>1, RehashOK
  <2> QED
    BY <2>1, <2>2, Keeps DEF Same
<1>4. CASE DictResize
  <2> DEFINE n == Max({d.ht[0].used, InitialSize})
  <2>1. d' = Expand(d, n) /\ val' = val
    BY <1>4 DEF DictResize
  <2>2. n \in 0 .. TwoTo[Width]
    BY SizesOK
  <2> HIDE DEF n
  <2>3. Expanded(d, n, Expand(d, n))
    BY <1>1, <2>2, ExpandOK
  <2> QED
    BY <2>1, <2>3, Keeps DEF Expanded, Same
<1>5. CASE DictSwitchResize
  <2>1. d' = d /\ val' = val
    BY <1>5 DEF DictSwitchResize
  <2> QED
    BY <1>1, <2>1, Keeps DEF Same
<1> QED
  BY <1>2, <1>3, <1>4, <1>5 DEF Tune

(* What an iterator does to the dictionary: it is counted.                 *)
LEMMA IterateCounts ==
  ASSUME DictInv, NEW i \in Iter, Iterate(i)
  PROVE  /\ val' = val /\ can' = can /\ scan' = scan
         /\ d' = d \/ \E n \in Int : d' = [d EXCEPT !.iterators = n]
<1>1. d.iterators \in Int
  BY DEF DictInv, DictOK, DictRec
<1>2. d.iterators + 1 \in Int /\ d.iterators - 1 \in Int
  BY <1>1
<1>3. Register(i) => d' = d \/ \E n \in Int : d' = [d EXCEPT !.iterators = n]
  BY <1>2 DEF Register
<1>4. CASE \E safe \in BOOLEAN : DictGetIterator(i, safe)
  BY <1>4 DEF DictGetIterator
<1>5. CASE DictNext(i)
  BY <1>3, <1>5 DEF DictNext, DictNextInChain, DictNextBucket, DictNextEnd
<1>6. CASE DictReleaseIterator(i)
  BY <1>2, <1>6 DEF DictReleaseIterator
<1> QED
  BY <1>4, <1>5, <1>6 DEF Iterate

(* An iterator changes no more of the dictionary than the counter.         *)
LEMMA IterateStep ==
  ASSUME DictInv, NEW i \in Iter, Iterate(i)
  PROVE  DictInv'
<1>1. CASE d' = d
  BY <1>1, IterateCounts DEF DictInv, Entries
<1>2. ASSUME NEW n \in Int, d' = [d EXCEPT !.iterators = n] PROVE DictInv'
  <2>1. DictOK(d') /\ All(d') = All(d)
    BY <1>2, CountOK DEF DictInv
  <2> QED
    BY <2>1, IterateCounts DEF DictInv, Entries
<1> QED
  BY <1>1, <1>2, IterateCounts

(* Every call that changes the entries keeps the invariant.                *)
LEMMA UpdateStep ==
  ASSUME DictInv, Update
  PROVE  DictInv'
<1>1. CASE \E k \in Key, v \in Val : DictAdd(k, v) \/ DictReplace(k, v) \/ DictReplaceRaw(k, v)
  BY <1>1, AddStep, ReplaceStep, ReplaceRawStep
<1>2. CASE \E k \in Key : DictDelete(k)
  BY <1>2, DeleteStep
<1>3. CASE DictEmpty \/ DictRelease
  BY <1>3, EmptyStep DEF DictEmpty, DictRelease
<1> QED
  BY <1>1, <1>2, <1>3 DEF Update

(* Every step keeps it ...                                                 *)
LEMMA DictInvStep ==
  ASSUME DictInv, [Next]_vars
  PROVE  DictInv'
<1>1. CASE UNCHANGED vars
  BY <1>1 DEF vars, DictInv, Entries
<1>2. CASE DictScan
  BY <1>2 DEF DictScan, DictInv, Entries
<1> QED
  BY <1>1, <1>2, UpdateStep, LookupStep, TuneStep, IterateStep DEF Next

(* ... and the new dictionary has it.                                      *)
LEMMA DictInvInit ==
  ASSUME Init
  PROVE  DictInv
BY NewOK DEF Init, DictInv, Entries

(* The entries are where the searches look, whatever was called.           *)
THEOREM TablesHoldEntries == Spec => []DictInv
BY DictInvInit, DictInvStep, PTL DEF Spec

-----------------------------------------------------------------------------
(* The places of an entry.                                                 *)

LEMMA PlaceIsHome ==
  ASSUME DictInv, NEW k \in Key, NEW x \in Places(k)
  PROVE  /\ x = <<x[1], x[2], x[3]>> /\ x[1] \in {0, 1} /\ k \in Home(d.ht[x[1]])
         /\ x[2] = Hash[k] % d.ht[x[1]].size /\ x[3] \in 1 .. Len(d.ht[x[1]].table[x[2]])
         /\ d.ht[x[1]].table[x[2]][x[3]] = k
<1> DEFINE t == d.ht[x[1]]
           b == x[2]
<1>1. /\ x = <<x[1], x[2], x[3]>> /\ x[1] \in {0, 1} /\ b \in Word
      /\ b < t.size /\ x[3] \in DOMAIN t.table[b] /\ t.table[b][x[3]] = k
  BY DEF Places
<1>2. TableOK(t) /\ t.size \in Nat
  BY <1>1 DEF DictInv, DictOK, TableOK, TableRec
<1>3. b \in Slots(t)
  BY <1>1, <1>2, Powers DEF Word, Slots
<1>4. t.table[b] \in Seq(Key)
  BY <1>2, <1>3 DEF TableOK
<1> HIDE DEF t, b
<1>5. x[3] \in 1 .. Len(t.table[b])
  BY <1>1, <1>4
<1>6. Contains(t.table[b], k)
  BY <1>1, <1>5 DEF Contains
<1>7. k \in Home(t) /\ b = Hash[k] % t.size
  BY <1>2, <1>3, <1>6, InTable
<1> QED
  BY <1>1, <1>5, <1>7 DEF t, b

(* An entry that a table holds has a place there.                          *)
LEMMA HomeIsPlace ==
  ASSUME DictInv, NEW k \in Key, NEW j \in {0, 1}, k \in Home(d.ht[j])
  PROVE  \E p : <<j, Hash[k] % d.ht[j].size, p>> \in Places(k)
<1> DEFINE t == d.ht[j]
           b == Hash[k] % t.size
           c == t.table[b]
<1>1. TableOK(t) /\ t.size > 0 /\ Contains(Bucket(t, k), k) /\ t.size \in Nat
      /\ t.size \in PowersOfTwo \cup {0}
  BY DEF DictInv, DictOK, Home, TableOK, TableRec
<1>2. b \in Slots(t) /\ ChainOK(c, t.size, b) /\ Bucket(t, k) = c
  BY <1>1, SlotOf
<1>3. b \in Word /\ b < t.size
  <2>1. PICK n \in Nat : n = t.size /\ n <= TwoTo[Width]
    BY <1>1, Powers
  <2>2. b \in 0 .. n - 1
    BY <1>2, <2>1 DEF Slots
  <2>3. TwoTo[Width] \in Nat
    BY Powers
  <2> HIDE DEF b, t
  <2> QED
    BY <2>1, <2>2, <2>3 DEF Word
<1> HIDE DEF t, b
<1>4. PICK p \in 1 .. Len(c) : c[p] = k
  BY <1>1, <1>2 DEF Contains
<1>5. Len(c) \in Nat /\ Len(c) <= Cardinality(Key)
  <2>1. Keys(c) \subseteq Key /\ Len(c) \in Nat
    BY <1>2 DEF Keys, ChainOK
  <2>2. Cardinality(Keys(c)) = Len(c)
    BY <1>2, ChainCount
  <2> QED
    BY <2>1, <2>2, FS_Subset, DictAssumption
<1>6. p \in 1 .. Cardinality(Key) /\ p \in DOMAIN c
  <2>1. Cardinality(Key) \in Nat
    BY FS_CardinalityType, DictAssumption
  <2>2. c \in Seq(Key)
    BY <1>2 DEF ChainOK
  <2> HIDE DEF c
  <2> QED
    BY <1>4, <1>5, <2>1, <2>2
<1>7. <<j, b, p>> \in Places(k)
  BY <1>3, <1>4, <1>6 DEF Places, t
<1> QED
  BY <1>7 DEF b, t

(* Every allocated entry has one place.                                    *)
LEMMA OneHomeHolds ==
  ASSUME DictInv
  PROVE  OneHome
<1> SUFFICES ASSUME NEW k \in Key
             PROVE  IF val[k] = NULL THEN Places(k) = {}
                    ELSE Cardinality(Places(k)) = 1 /\ Found(d, k) # {}
  BY DEF OneHome
<1>1. CASE val[k] = NULL
  <2>1. k \notin All(d)
    BY <1>1 DEF DictInv, Entries
  <2> QED
    BY <1>1, <2>1, PlaceIsHome DEF All
<1>2. CASE val[k] # NULL
  <2>1. k \in All(d)
    BY <1>2 DEF DictInv, Entries
  <2>2. Found(d, k) # {}
    BY <2>1, FoundOK DEF DictInv
  <2>3. PICK j \in {0, 1} : k \in Home(d.ht[j])
    BY <2>1 DEF All
  <2>4. PICK p : <<j, Hash[k] % d.ht[j].size, p>> \in Places(k)
    BY <2>3, HomeIsPlace
  <2> DEFINE y == <<j, Hash[k] % d.ht[j].size, p>>
  <2>5. ASSUME NEW x \in Places(k) PROVE x = y
    <3>1. y[1] = j /\ y[2] = Hash[k] % d.ht[j].size /\ y[3] = p
      OBVIOUS
    <3>2. /\ x = <<x[1], x[2], x[3]>> /\ x[1] \in {0, 1} /\ k \in Home(d.ht[x[1]])
          /\ x[2] = Hash[k] % d.ht[x[1]].size /\ x[3] \in 1 .. Len(d.ht[x[1]].table[x[2]])
          /\ d.ht[x[1]].table[x[2]][x[3]] = k
      BY PlaceIsHome
    <3>3. p \in 1 .. Len(d.ht[j].table[Hash[k] % d.ht[j].size])
          /\ d.ht[j].table[Hash[k] % d.ht[j].size][p] = k
      <4> HIDE DEF y
      <4>1. y[3] \in 1 .. Len(d.ht[y[1]].table[y[2]]) /\ d.ht[y[1]].table[y[2]][y[3]] = k
        BY <2>4, PlaceIsHome DEF y
      <4> QED
        BY <3>1, <4>1
    <3>4. x[1] = j
      BY <2>3, <3>2 DEF DictInv, DictOK
    <3>5. ChainOK(d.ht[j].table[Hash[k] % d.ht[j].size], d.ht[j].size, Hash[k] % d.ht[j].size)
      <4>1. TableOK(d.ht[j]) /\ d.ht[j].size > 0
        BY <2>3 DEF DictInv, DictOK, Home
      <4> QED
        BY <4>1, SlotOf
    <3>6. x[3] = p
      BY ZenonT(60), <3>2, <3>3, <3>4, <3>5 DEF ChainOK
    <3> QED
      BY <3>2, <3>4, <3>6
  <2>6. Places(k) = {y}
    BY <2>4, <2>5
  <2>7. Cardinality(Places(k)) = 1
    BY <2>6, FS_Singleton
  <2> QED
    BY <1>2, <2>2, <2>7
<1> QED
  BY <1>1, <1>2

(* used counts, and rehashidx is in front of what is left.                 *)
LEMMA RehashInBoundsHolds ==
  ASSUME DictInv
  PROVE  RehashInBounds
<1>1. ASSUME NEW j \in {0, 1}
      PROVE  d.ht[j].used = Cardinality({k \in Key : \E x \in Places(k) : x[1] = j})
  <2>1. {k \in Key : \E x \in Places(k) : x[1] = j} = Home(d.ht[j])
    <3>1. ASSUME NEW k \in Key, NEW x \in Places(k), x[1] = j PROVE k \in Home(d.ht[j])
      BY <3>1, PlaceIsHome
    <3>2. ASSUME NEW k \in Home(d.ht[j]) PROVE k \in Key /\ \E x \in Places(k) : x[1] = j
      <4>1. k \in Key
        BY DEF Home
      <4>2. PICK p : <<j, Hash[k] % d.ht[j].size, p>> \in Places(k)
        BY <4>1, HomeIsPlace
      <4> QED
        BY <4>1, <4>2
    <3> QED
      BY <3>1, <3>2
  <2> QED
    BY <2>1 DEF DictInv, DictOK, TableOK
<1> QED
  BY <1>1 DEF RehashInBounds, DictInv, DictOK, Moving

(* Theorem for OneHome: whatever the hash, however the calls interleave    *)
(* with a rehashing, each allocated entry is at exactly one place, where a *)
(* search looks, and a freed one is nowhere.                               *)
THEOREM OneHomeAlways == Spec => []OneHome
BY TablesHoldEntries, OneHomeHolds, PTL

(* Theorem for RehashInBounds: used counts the entries of a table and no   *)
(* entry is in front of rehashidx, so that the search of dictRehash for a  *)
(* bucket to move ends in the table (NextBucketOK).                        *)
THEOREM RehashInBoundsAlways == Spec => []RehashInBounds
BY TablesHoldEntries, RehashInBoundsHolds, PTL

-----------------------------------------------------------------------------
(* Iterators.                                                              *)

IterRec ==
  [live : BOOLEAN, safe : BOOLEAN, table : {0, 1}, index : {-1} \cup Nat,
   entry : Key \cup {NULL}, next : Key \cup {NULL},
   todo : SUBSET Key, got : SUBSET Key, twice : BOOLEAN]

(* entry->next, for the entry at position x of a chain.                    *)
LEMMA AfterIs ==
  ASSUME DictInv, NEW j \in {0, 1}, NEW b \in Slots(d.ht[j]), NEW x \in 1 .. Len(d.ht[j].table[b])
  PROVE  /\ d.ht[j].table[b][x] \in Entries
         /\ After(d.ht[j].table[b][x]) =
              IF x + 1 <= Len(d.ht[j].table[b]) THEN d.ht[j].table[b][x + 1] ELSE NULL
<1> DEFINE c == d.ht[j].table[b]
           k == c[x]
<1>1. TableOK(d.ht[j]) /\ ChainOK(c, d.ht[j].size, b) /\ c \in Seq(Key) /\ Len(c) \in Nat
  <2>1. TableOK(d.ht[j])
    BY DEF DictInv, DictOK
  <2>2. ChainOK(c, d.ht[j].size, b)
    BY <2>1 DEF TableOK
  <2> QED
    BY SMTT(40), <2>1, <2>2 DEF ChainOK
<1>2. Contains(c, k) /\ k \in Key
  BY <1>1 DEF Contains
<1>3. k \in Home(d.ht[j]) /\ b = Hash[k] % d.ht[j].size
  BY <1>1, <1>2, InTable
<1>4. k \in Entries
  BY <1>3 DEF DictInv, All
<1>5. c \in Chains
  BY DEF Chains
<1>6. ASSUME NEW e \in Chains, Contains(e, k) PROVE e = c
  <2>1. PICK i \in {0, 1} : \E a \in Slots(d.ht[i]) : e = d.ht[i].table[a]
    BY DEF Chains
  <2>2. PICK a \in Slots(d.ht[i]) : e = d.ht[i].table[a]
    BY <2>1
  <2>3. TableOK(d.ht[i])
    BY DEF DictInv, DictOK
  <2>4. k \in Home(d.ht[i]) /\ a = Hash[k] % d.ht[i].size
    BY <1>6, <2>2, <2>3, InTable
  <2>5. i = j
    BY <1>3, <2>4 DEF DictInv, DictOK
  <2> QED
    BY <1>3, <2>2, <2>4, <2>5
<1> DEFINE f == CHOOSE e \in Chains : Contains(e, k)
<1>7. f = c
  BY <1>2, <1>5, <1>6
<1>8. After(k) = LET n == 1 + Min({y \in DOMAIN f : f[y] = k}) IN IF n \in DOMAIN f THEN f[n] ELSE NULL
  BY DEF After
<1> HIDE DEF f
<1>9. After(k) = LET n == 1 + Min({y \in DOMAIN c : c[y] = k}) IN IF n \in DOMAIN c THEN c[n] ELSE NULL
  BY <1>7, <1>8
<1>10. {y \in DOMAIN c : c[y] = k} = {x} /\ DOMAIN c = 1 .. Len(c)
  <2>1. DOMAIN c = 1 .. Len(c) /\ \A y \in 1 .. Len(c) : c[y] = c[x] => y = x
    BY <1>1 DEF ChainOK
  <2>2. x \in 1 .. Len(c)
    OBVIOUS
  <2> HIDE DEF c
  <2> QED
    BY <2>1, <2>2
<1>11. Min({x}) = x
  BY DEF Min
<1>12. 1 + x = x + 1 /\ (x + 1 \in 1 .. Len(c) <=> x + 1 <= Len(c))
  BY <1>1
<1> HIDE DEF c
<1>13. After(k) = IF x + 1 <= Len(c) THEN c[x + 1] ELSE NULL
  BY <1>9, <1>10, <1>11, <1>12
<1> QED
  BY <1>4, <1>13 DEF c

(* ... for any entry.                                                      *)
LEMMA AfterType ==
  ASSUME DictInv, NEW k \in Entries
  PROVE  After(k) \in Key \cup {NULL}
<1>1. PICK j \in {0, 1} : k \in Home(d.ht[j])
  BY DEF DictInv, All
<1> DEFINE b == Hash[k] % d.ht[j].size
<1>2. TableOK(d.ht[j]) /\ d.ht[j].size > 0 /\ k \in Key /\ Contains(Bucket(d.ht[j], k), k)
  BY <1>1 DEF DictInv, DictOK, Home
<1>3. b \in Slots(d.ht[j]) /\ ChainOK(d.ht[j].table[b], d.ht[j].size, b) /\ Contains(d.ht[j].table[b], k)
  BY <1>2, SlotOf
<1> HIDE DEF b
<1>4. PICK x \in 1 .. Len(d.ht[j].table[b]) : d.ht[j].table[b][x] = k
  BY <1>3 DEF Contains
<1>5. After(k) = IF x + 1 <= Len(d.ht[j].table[b]) THEN d.ht[j].table[b][x + 1] ELSE NULL
  BY <1>3, <1>4, AfterIs
<1>6. d.ht[j].table[b] \in Seq(Key)
  BY <1>3 DEF ChainOK
<1> QED
  BY <1>4, <1>5, <1>6

(* The fields dictNext sets.                                               *)
ReturnedFields(i, r, table, index, k) ==
  /\ r \in IterRec /\ r.live = it[i].live /\ r.safe = it[i].safe
  /\ r.table = table /\ r.index = index /\ r.entry = k
  /\ r.next = (IF k = NULL THEN it[i].next ELSE After(k))
  /\ r.todo = (IF Started(i) THEN it[i].todo ELSE Entries) \ {k}
  /\ r.twice = (it[i].twice \/ k \in it[i].got)
  /\ r.got = (IF k = NULL THEN it[i].got ELSE it[i].got \cup {k})

(* What dictNext leaves in the iterator when it returns k.                 *)
LEMMA Returned ==
  ASSUME DictInv, it \in [Iter -> IterRec], NEW i \in Iter, NEW table \in {0, 1},
         NEW index \in Nat, NEW k \in Entries \cup {NULL}, Return(i, table, index, k)
  PROVE  /\ it' \in [Iter -> IterRec] /\ \A j \in Iter : j # i => it'[j] = it[j]
         /\ ReturnedFields(i, it'[i], table, index, k)
<1> DEFINE r == it[i]
           nx == IF k = NULL THEN r.next ELSE After(k)
           td == (IF Started(i) THEN r.todo ELSE Entries) \ {k}
           tw == r.twice \/ k \in r.got
           gt == IF k = NULL THEN r.got ELSE r.got \cup {k}
           r2 == [r EXCEPT !.table = table, !.index = index, !.entry = k, !.next = nx,
                           !.todo = td, !.twice = tw, !.got = gt]
<1>1. it' = [it EXCEPT ![i] = r2]
  BY DEF Return
<1>2. r \in IterRec
  OBVIOUS
<1>3. /\ r.next \in Key \cup {NULL} /\ r.todo \in SUBSET Key /\ r.got \in SUBSET Key
      /\ r.twice \in BOOLEAN /\ r.live \in BOOLEAN /\ r.safe \in BOOLEAN
  BY DEF IterRec
<1>4. nx \in Key \cup {NULL}
  BY <1>3, AfterType
<1>5. td \in SUBSET Key /\ gt \in SUBSET Key /\ tw \in BOOLEAN /\ k \in Key \cup {NULL}
  BY <1>3 DEF Entries
<1> HIDE DEF r, nx, td, tw, gt
<1>6. /\ r2.live = r.live /\ r2.safe = r.safe /\ r2.table = table /\ r2.index = index
      /\ r2.entry = k /\ r2.next = nx /\ r2.todo = td /\ r2.twice = tw /\ r2.got = gt
  BY <1>2 DEF IterRec
<1>7. r2 \in IterRec
  BY <1>2, <1>3, <1>4, <1>5 DEF IterRec
<1> HIDE DEF r2
<1>8. ReturnedFields(i, r2, table, index, k)
  BY <1>6, <1>7 DEF ReturnedFields, r, nx, td, tw, gt
<1>9. it' \in [Iter -> IterRec] /\ it'[i] = r2 /\ \A j \in Iter : j # i => it'[j] = it[j]
  BY <1>1, <1>7
<1> QED
  BY <1>8, <1>9

(* The history of deleted entries leaves the rest of the iterators alone.  *)
Place(i) == <<it[i].live, it[i].safe, it[i].table, it[i].index, it[i].entry, it[i].next, it[i].twice>>

(* An entry that is removed is forgotten by the iterators, which stay      *)
(* where they are.                                                         *)
LEMMA Forgotten ==
  ASSUME it \in [Iter -> IterRec], NEW K, Forget(K)
  PROVE  /\ it' \in [Iter -> IterRec]
         /\ \A i \in Iter : Place(i)' = Place(i) /\ it'[i].todo = it[i].todo \ K
                              /\ it'[i].got = it[i].got \ K
<1>1. it' = [i \in Iter |-> [it[i] EXCEPT !.todo = @ \ K, !.got = @ \ K]]
  BY DEF Forget
<1>2. ASSUME NEW i \in Iter
      PROVE  it'[i] \in IterRec /\ Place(i)' = Place(i) /\ it'[i].todo = it[i].todo \ K
             /\ it'[i].got = it[i].got \ K
  <2> DEFINE r == it[i]
             r2 == [r EXCEPT !.todo = r.todo \ K, !.got = r.got \ K]
  <2>1. it'[i] = r2 /\ r \in IterRec
    BY <1>1 DEF IterRec
  <2> HIDE DEF r
  <2>2. /\ r2.live = r.live /\ r2.safe = r.safe /\ r2.table = r.table /\ r2.index = r.index
        /\ r2.entry = r.entry /\ r2.next = r.next /\ r2.twice = r.twice
        /\ r2.todo = r.todo \ K /\ r2.got = r.got \ K /\ r2 \in IterRec
    BY <2>1 DEF IterRec
  <2> HIDE DEF r2
  <2> QED
    BY <2>1, <2>2 DEF Place, r
<1> QED
  BY <1>1, <1>2

(* Iterators that stay where they are run on.                              *)
LEMMA SamePlaces ==
  ASSUME \A i \in Iter : Place(i)' = Place(i)
  PROVE  /\ \A i \in Iter : /\ Started(i)' = Started(i) /\ it'[i].live = it[i].live /\ it'[i].safe = it[i].safe
                            /\ it'[i].table = it[i].table /\ it'[i].index = it[i].index
                            /\ it'[i].entry = it[i].entry /\ it'[i].next = it[i].next
                            /\ it'[i].twice = it[i].twice
         /\ Running' = Running
         /\ {i \in Running : it[i].safe}' = {i \in Running : it[i].safe}
<1>1. \A i \in Iter : /\ it'[i].live = it[i].live /\ it'[i].safe = it[i].safe
                      /\ it'[i].table = it[i].table /\ it'[i].index = it[i].index
                      /\ it'[i].entry = it[i].entry /\ it'[i].next = it[i].next
                      /\ it'[i].twice = it[i].twice
  BY DEF Place
<1>2. \A i \in Iter : Started(i)' = Started(i)
  BY <1>1 DEF Started
<1>3. Running' = Running
  BY <1>2 DEF Running
<1>4. {i \in Running : it[i].safe}' = {i \in Running : it[i].safe}
  BY <1>1, <1>3 DEF Running
<1> QED
  BY <1>1, <1>2, <1>3, <1>4

(* The first element in the order of an iteration.                         *)
LEMMA FirstIs ==
  ASSUME NEW X \in SUBSET ({0, 1} \X Nat), X # {}
  PROVE  /\ First(X) \in X
         /\ \A y \in X : First(X)[1] < y[1] \/ (First(X)[1] = y[1] /\ First(X)[2] <= y[2])
<1> DEFINE J == {x[1] : x \in X}
<1>1. J \in SUBSET Nat /\ J # {}
  OBVIOUS
<1>2. PICK j \in J : \A a \in J : j <= a
  <2> HIDE DEF J
  <2> QED
    BY <1>1, Least
<1> DEFINE B == {b \in Nat : <<j, b>> \in X}
<1>3. B \in SUBSET Nat /\ B # {}
  <2>1. PICK x \in X : x[1] = j
    BY <1>2
  <2>2. x = <<j, x[2]>> /\ x[2] \in Nat
    BY <2>1
  <2> QED
    BY <2>2
<1>4. PICK b \in B : \A a \in B : b <= a
  <2> HIDE DEF B
  <2> QED
    BY <1>3, Least
<1>5. <<j, b>> \in X
  BY <1>4
<1>6. ASSUME NEW y \in X PROVE j < y[1] \/ (j = y[1] /\ b <= y[2])
  <2>1. y = <<y[1], y[2]>> /\ y[1] \in J /\ y[2] \in Nat /\ j \in Nat /\ y[1] \in Nat
    BY <1>1, <1>2
  <2>2. CASE y[1] = j
    BY <1>4, <2>1, <2>2
  <2>3. CASE y[1] # j
    BY <1>2, <2>1, <2>3
  <2> QED
    BY <2>2, <2>3
<1>7. \E x \in X : \A y \in X : x[1] < y[1] \/ (x[1] = y[1] /\ x[2] <= y[2])
  <2>1. \A y \in X : <<j, b>>[1] < y[1] \/ (<<j, b>>[1] = y[1] /\ <<j, b>>[2] <= y[2])
    BY <1>6
  <2> QED
    BY <1>5, <2>1
<1> QED
  BY <1>7 DEF First

(* Where dictNext goes when a chain ends.                                  *)
LEMMA AheadIs ==
  ASSUME DictInv, NEW i \in Iter, it[i] \in IterRec, Ahead(i) # {}
  PROVE  LET x == First(Ahead(i))
         IN  /\ x \in Ahead(i) /\ x[1] \in {0, 1} /\ x[2] \in Nat /\ x[2] \in Slots(d.ht[x[1]])
             /\ Len(d.ht[x[1]].table[x[2]]) >= 1
             /\ Head(d.ht[x[1]].table[x[2]]) = d.ht[x[1]].table[x[2]][1]
             /\ Head(d.ht[x[1]].table[x[2]]) \in Entries
             /\ \A y \in Ahead(i) : x[1] < y[1] \/ (x[1] = y[1] /\ x[2] <= y[2])
<1> DEFINE x == First(Ahead(i))
           c == d.ht[x[1]].table[x[2]]
<1>1. Tables(d) \cup {it[i].table} \in SUBSET {0, 1} /\ Word \in SUBSET Nat
  BY Powers DEF Tables, IterRec, Word
<1>2. Ahead(i) \in SUBSET ({0, 1} \X Nat)
  BY <1>1 DEF Ahead
<1>3. x \in Ahead(i) /\ \A y \in Ahead(i) : x[1] < y[1] \/ (x[1] = y[1] /\ x[2] <= y[2])
  BY <1>2, FirstIs
<1> HIDE DEF x
<1>4. x[1] \in {0, 1} /\ x[2] \in Nat
  BY <1>2, <1>3
<1>5. x[2] < d.ht[x[1]].size /\ c # <<>>
  BY <1>3 DEF Ahead
<1>6. TableOK(d.ht[x[1]]) /\ d.ht[x[1]].size \in Nat
  BY <1>4 DEF DictInv, DictOK, TableOK, TableRec
<1>7. x[2] \in Slots(d.ht[x[1]])
  BY <1>4, <1>5, <1>6 DEF Slots
<1>8. c \in Seq(Key)
  BY <1>6, <1>7 DEF TableOK
<1>9. Len(c) >= 1 /\ Head(c) = c[1] /\ 1 \in 1 .. Len(c)
  <2> HIDE DEF c
  <2> QED
    BY <1>5, <1>8
<1>10. c[1] \in Entries
  BY <1>4, <1>7, <1>9, AfterIs
<1> QED
  BY <1>3, <1>4, <1>7, <1>9, <1>10 DEF x

(* An iterator that has not started, or has been released, has nothing.    *)
IterInv ==
  /\ it \in [Iter -> IterRec]
  /\ \A i \in Iter :
       /\ it[i].entry # NULL => it[i].index # -1
       /\ ~Started(i) => it[i].entry = NULL /\ it[i].got = {} /\ ~it[i].twice

(* The end of an iteration.                                                *)
LEMMA EndReturns ==
  ASSUME DictInv, IterInv, NEW i \in Iter, DictNextEnd(i)
  PROVE  \E table \in {0, 1}, index \in Nat : Return(i, table, index, NULL)
<1>0. it[i] \in IterRec /\ it[i].table \in {0, 1} /\ it[i].index \in {-1} \cup Nat
  BY DEF IterInv, IterRec
<1> DEFINE j == IF IsRehashing(d) THEN 1 ELSE it[i].table
           n == d.ht[j].size
           m == IF j = it[i].table THEN Max({n, it[i].index + 1}) ELSE n
<1>1. it[i].live /\ Return(i, j, m, NULL) /\ Register(i)
  BY DEF DictNextEnd, AtChainEnd
<1>2. j \in {0, 1}
  BY <1>0
<1> HIDE DEF j
<1>3. n \in Nat
  BY <1>2 DEF DictInv, DictOK, TableOK, TableRec
<1>4. it[i].index + 1 \in Nat
  BY <1>0
<1> DEFINE p == it[i].index + 1
<1> HIDE DEF n, p
<1>5. Max({n, p}) \in Nat
  <2>1. Max({n, p}) = IF n >= p THEN n ELSE p
    BY <1>3, <1>4 DEF Max, p
  <2> QED
    BY <1>3, <1>4, <2>1 DEF p
<1>6. m \in Nat
  BY <1>3, <1>5 DEF p
<1> HIDE DEF m
<1> QED
  BY <1>1, <1>2, <1>6

(* A call of dictNext returns an entry, or NULL, and counts a safe iterator *)
(* if it is the first one.                                                 *)
LEMMA NextReturns ==
  ASSUME DictInv, IterInv, NEW i \in Iter, DictNext(i)
  PROVE  /\ it[i].live /\ Register(i)
         /\ \E table \in {0, 1}, index \in Nat, k \in Entries \cup {NULL} : Return(i, table, index, k)
<1>0. it[i] \in IterRec /\ it[i].table \in {0, 1} /\ it[i].index \in {-1} \cup Nat
  BY DEF IterInv, IterRec
<1>1. CASE DictNextInChain(i)
  <2>1. it[i].index \in Nat /\ it[i].next \in Entries /\ it[i].live /\ d' = d
        /\ Return(i, it[i].table, it[i].index, it[i].next)
    BY <1>0, <1>1 DEF DictNextInChain, IterInv
  <2>2. Started(i)
    BY <1>0, <2>1 DEF Started
  <2> QED
    BY <1>0, <2>1, <2>2 DEF Register
<1>2. CASE DictNextBucket(i)
  <2> DEFINE x == First(Ahead(i))
             k == Head(d.ht[x[1]].table[x[2]])
  <2>1. it[i].live /\ Ahead(i) # {} /\ Return(i, x[1], x[2], k) /\ Register(i)
    BY <1>2 DEF DictNextBucket, AtChainEnd
  <2>2. x[1] \in {0, 1} /\ x[2] \in Nat /\ k \in Entries
    BY <1>0, <2>1, AheadIs
  <2> HIDE DEF x, k
  <2> QED
    BY <2>1, <2>2
<1>3. CASE DictNextEnd(i)
  BY <1>3, EndReturns DEF DictNextEnd, AtChainEnd
<1> QED
  BY <1>1, <1>2, <1>3 DEF DictNext

(* There are finitely many safe iterators under way.                       *)
LEMMA SafeFinite ==
  LET S == {i \in Running : it[i].safe}
  IN  IsFiniteSet(S) /\ Cardinality(S) \in Nat /\ (Cardinality(S) = 0 <=> S = {})
<1> DEFINE S == {i \in Running : it[i].safe}
<1>1. S \in SUBSET Iter
  BY DEF Running
<1> HIDE DEF S
<1>2. IsFiniteSet(S)
  BY <1>1, FS_Subset, DictAssumption
<1>3. Cardinality(S) \in Nat /\ (Cardinality(S) = 0 <=> S = {})
  BY <1>2, FS_CardinalityType, FS_EmptySet
<1> QED
  BY <1>2, <1>3 DEF S

(* The iterators keep their form.                                          *)
LEMMA IterInvIterate ==
  ASSUME DictInv, IterInv, NEW i \in Iter, Iterate(i)
  PROVE  IterInv'
<1>1. CASE \E safe \in BOOLEAN : DictGetIterator(i, safe)
  <2>1. PICK safe \in BOOLEAN : it' = [it EXCEPT ![i] = [NoIter EXCEPT !.live = TRUE, !.safe = safe]]
    BY <1>1 DEF DictGetIterator
  <2> DEFINE r == [NoIter EXCEPT !.live = TRUE, !.safe = safe]
  <2>2. /\ r \in IterRec /\ r.entry = NULL /\ r.got = {} /\ r.twice = FALSE
    BY DEF NoIter, IterRec
  <2> HIDE DEF r
  <2>3. it' = [it EXCEPT ![i] = r]
    BY <2>1 DEF r
  <2>4. it' \in [Iter -> IterRec] /\ it'[i] = r /\ \A j \in Iter : j # i => it'[j] = it[j]
    BY <2>2, <2>3 DEF IterInv
  <2> QED
    BY <2>2, <2>4 DEF IterInv, Started
<1>2. CASE DictNext(i)
  <2>1. PICK table \in {0, 1}, index \in Nat, k \in Entries \cup {NULL} : Return(i, table, index, k)
    BY <1>2, NextReturns
  <2>2. it[i].live
    BY <1>2, NextReturns
  <2>3. /\ it' \in [Iter -> IterRec] /\ \A j \in Iter : j # i => it'[j] = it[j]
        /\ ReturnedFields(i, it'[i], table, index, k)
    BY <2>1, Returned DEF IterInv
  <2>4. it'[i].live = TRUE /\ it'[i].index = index /\ index # -1
    BY <2>2, <2>3 DEF ReturnedFields, IterInv, IterRec
  <2> QED
    BY <2>3, <2>4 DEF IterInv, Started
<1>3. CASE DictReleaseIterator(i)
  <2>1. it' = [it EXCEPT ![i] = NoIter]
    BY <1>3 DEF DictReleaseIterator
  <2>2. NoIter \in IterRec /\ NoIter.entry = NULL /\ NoIter.got = {} /\ NoIter.twice = FALSE
    BY DEF NoIter, IterRec
  <2>3. it' \in [Iter -> IterRec] /\ it'[i] = NoIter /\ \A j \in Iter : j # i => it'[j] = it[j]
    BY <2>1, <2>2 DEF IterInv
  <2> QED
    BY <2>2, <2>3 DEF IterInv, Started
<1> QED
  BY <1>1, <1>2, <1>3 DEF Iterate

(* Any other call leaves the iterators, or forgets deleted entries.        *)
Others == Update \/ Lookup \/ Tune \/ DictScan

(* The calls that are not an iterator's own make iterators forget entries  *)
(* at most ...                                                             *)
LEMMA OthersForget ==
  ASSUME Others
  PROVE  it' = it \/ \E K : Forget(K)
<1>1. CASE Update
  BY <1>1 DEF Update, DictAdd, DictReplace, DictReplaceRaw, DictDelete, DictEmpty, DictRelease
<1>2. CASE Lookup \/ Tune \/ DictScan
  BY <1>2 DEF Lookup, Tune, DictFind, DictGetRandomKey, DictExpand, DictRehash, DictResize,
              DictSwitchResize, DictScan
<1> QED
  BY <1>1, <1>2 DEF Others

(* ... and so keep the form of the iterators.                              *)
LEMMA OthersStay ==
  ASSUME IterInv, Others
  PROVE  IterInv' /\ \A i \in Iter : Place(i)' = Place(i)
<1>1. CASE it' = it
  BY <1>1 DEF IterInv, Place, Started
<1>2. ASSUME NEW K, Forget(K) PROVE IterInv' /\ \A i \in Iter : Place(i)' = Place(i)
  <2>1. /\ it' \in [Iter -> IterRec] /\ \A i \in Iter : Place(i)' = Place(i)
        /\ \A i \in Iter : it'[i].got = it[i].got \ K
    BY <1>2, Forgotten DEF IterInv
  <2>2. \A i \in Iter : /\ Started(i)' = Started(i) /\ it'[i].index = it[i].index
                        /\ it'[i].entry = it[i].entry /\ it'[i].twice = it[i].twice
    BY <2>1, SamePlaces
  <2> QED
    BY <2>1, <2>2 DEF IterInv
<1> QED
  BY <1>1, <1>2, OthersForget

-----------------------------------------------------------------------------
(* The number of safe iterators.                                           *)

SafeRunning == {i \in Running : it[i].safe}

(* An iterator starts or is released: the count follows.                   *)
LEMMA CountIterate ==
  ASSUME DictInv, IterInv, IteratorsCounted, NEW i \in Iter, Iterate(i)
  PROVE  IteratorsCounted'
<1>0. IsFiniteSet(SafeRunning) /\ Cardinality(SafeRunning) \in Nat /\ d.iterators = Cardinality(SafeRunning)
  BY SafeFinite DEF SafeRunning, IteratorsCounted
<1>1. CASE \E safe \in BOOLEAN : DictGetIterator(i, safe)
  <2>1. PICK safe \in BOOLEAN : /\ it' = [it EXCEPT ![i] = [NoIter EXCEPT !.live = TRUE, !.safe = safe]]
                                /\ ~it[i].live /\ d' = d
    BY <1>1 DEF DictGetIterator
  <2> DEFINE r == [NoIter EXCEPT !.live = TRUE, !.safe = safe]
  <2>2. r.table = 0 /\ r.index = -1
    BY DEF NoIter
  <2> HIDE DEF r
  <2>3. it'[i] = r /\ \A j \in Iter : j # i => it'[j] = it[j]
    BY <2>1 DEF IterInv, r
  <2>4. ~Started(i) /\ ~Started(i)' /\ \A j \in Iter : j # i => Started(j)' = Started(j)
    BY <2>1, <2>2, <2>3 DEF Started
  <2>5. SafeRunning' = SafeRunning
    BY <2>3, <2>4 DEF SafeRunning, Running
  <2> QED
    BY <1>0, <2>1, <2>5 DEF IteratorsCounted, SafeRunning
<1>2. CASE DictNext(i)
  <2>1. PICK table \in {0, 1}, index \in Nat, k \in Entries \cup {NULL} : Return(i, table, index, k)
    BY <1>2, NextReturns
  <2>2. it[i].live /\ Register(i)
    BY <1>2, NextReturns
  <2>3. /\ it' \in [Iter -> IterRec] /\ \A j \in Iter : j # i => it'[j] = it[j]
        /\ ReturnedFields(i, it'[i], table, index, k)
    BY <2>1, Returned DEF IterInv
  <2>4. it'[i].live /\ it'[i].index = index /\ index # -1 /\ it'[i].safe = it[i].safe
    BY <2>2, <2>3 DEF ReturnedFields, IterInv, IterRec
  <2>5. Started(i)' /\ \A j \in Iter : j # i => Started(j)' = Started(j)
    BY <2>3, <2>4 DEF Started
  <2>6. SafeRunning' = IF it[i].safe THEN SafeRunning \cup {i} ELSE SafeRunning
    <3>1. ASSUME NEW j PROVE j \in SafeRunning' <=> j \in IF it[i].safe THEN SafeRunning \cup {i} ELSE SafeRunning
      <4>1. CASE j = i
        BY <2>4, <2>5, <4>1 DEF SafeRunning, Running
      <4>2. CASE j # i
        BY <2>3, <2>5, <4>2 DEF SafeRunning, Running
      <4> QED
        BY <4>1, <4>2
    <3> QED
      BY <3>1
  <2>7. CASE it[i].safe /\ ~Started(i)
    <3>1. i \notin SafeRunning
      BY <2>7 DEF SafeRunning, Running
    <3>2. Cardinality(SafeRunning') = Cardinality(SafeRunning) + 1
      BY <1>0, <2>6, <2>7, <3>1, FS_AddElement
    <3>3. d'.iterators = d.iterators + 1
      <4>1. d \in DictRec /\ d' = [d EXCEPT !.iterators = @ + 1]
        BY <2>2, <2>7 DEF Register, DictInv, DictOK
      <4> QED
        BY <4>1 DEF DictRec
    <3> QED
      BY <1>0, <3>2, <3>3 DEF IteratorsCounted, SafeRunning
  <2>8. CASE ~(it[i].safe /\ ~Started(i))
    <3>1. SafeRunning' = SafeRunning
      BY <2>6, <2>8 DEF SafeRunning, Running
    <3>2. d' = d
      BY <2>2, <2>8 DEF Register
    <3> QED
      BY <1>0, <3>1, <3>2 DEF IteratorsCounted, SafeRunning
  <2> QED
    BY <2>7, <2>8
<1>3. CASE DictReleaseIterator(i)
  <2>1. it' = [it EXCEPT ![i] = NoIter]
        /\ d' = IF it[i].safe /\ Started(i) THEN [d EXCEPT !.iterators = @ - 1] ELSE d
    BY <1>3 DEF DictReleaseIterator
  <2>2. it'[i] = NoIter /\ NoIter.live = FALSE /\ \A j \in Iter : j # i => it'[j] = it[j]
    BY <2>1 DEF IterInv, NoIter
  <2>3. ~Started(i)' /\ \A j \in Iter : j # i => Started(j)' = Started(j)
    BY <2>2 DEF Started
  <2>4. SafeRunning' = SafeRunning \ {i}
    BY <2>2, <2>3 DEF SafeRunning, Running
  <2>5. CASE it[i].safe /\ Started(i)
    <3>1. i \in SafeRunning
      BY <2>5 DEF SafeRunning, Running
    <3>2. Cardinality(SafeRunning') = Cardinality(SafeRunning) - 1
      BY <1>0, <2>4, <3>1, FS_RemoveElement
    <3>3. d'.iterators = d.iterators - 1
      <4>1. d \in DictRec /\ d' = [d EXCEPT !.iterators = @ - 1]
        BY <2>1, <2>5 DEF DictInv, DictOK
      <4> QED
        BY <4>1 DEF DictRec
    <3> QED
      BY <1>0, <3>2, <3>3 DEF IteratorsCounted, SafeRunning
  <2>6. CASE ~(it[i].safe /\ Started(i))
    <3>1. SafeRunning' = SafeRunning
      BY <2>4, <2>6 DEF SafeRunning, Running
    <3>2. d' = d
      BY <2>1, <2>6
    <3> QED
      BY <1>0, <3>1, <3>2 DEF IteratorsCounted, SafeRunning
  <2> QED
    BY <2>5, <2>6
<1> QED
  BY <1>1, <1>2, <1>3 DEF Iterate

(* Any other call leaves it, provided that nobody empties the dictionary   *)
(* during an iteration.                                                    *)
LEMMA CountOthers ==
  ASSUME DictInv, IterInv, IteratorsCounted, Others, "empty" \notin During
  PROVE  IteratorsCounted'
<1>1. SafeRunning' = SafeRunning
  BY OthersStay, SamePlaces DEF SafeRunning
<1>2. d'.iterators = d.iterators
  <2>1. CASE DictEmpty \/ DictRelease
    <3>1. Running = {}
      BY <2>1 DEF DictEmpty, DictRelease, May, Running, Started
    <3>2. SafeRunning = {} /\ d.iterators = 0
      BY <3>1, FS_EmptySet DEF SafeRunning, IteratorsCounted
    <3>3. d' = New
      BY <2>1 DEF DictEmpty, DictRelease
    <3> QED
      BY <3>2, <3>3, NewOK
  <2>2. CASE Lookup \/ Tune
    BY <2>2, LookupStep, TuneStep
  <2>3. CASE DictScan
    BY <2>3 DEF DictScan
  <2>4. CASE Update /\ ~(DictEmpty \/ DictRelease)
    BY <2>4, AddStep, ReplaceStep, ReplaceRawStep, DeleteStep DEF Update
  <2> QED
    BY <2>1, <2>2, <2>3, <2>4 DEF Others
<1> QED
  BY <1>1, <1>2 DEF IteratorsCounted, SafeRunning

(* No iterator is under way at first.                                      *)
LEMMA IterInvInit ==
  ASSUME Init
  PROVE  IterInv /\ IteratorsCounted
<1>1. it = [i \in Iter |-> NoIter] /\ d = New
  BY DEF Init
<1>2. /\ NoIter \in IterRec /\ NoIter.entry = NULL /\ NoIter.got = {} /\ NoIter.twice = FALSE
      /\ NoIter.live = FALSE
  BY DEF NoIter, IterRec
<1>3. IterInv /\ Running = {}
  BY <1>1, <1>2 DEF IterInv, Started, Running
<1>4. {i \in Running : it[i].safe} = {}
  BY <1>3
<1>5. IteratorsCounted
  BY <1>1, <1>4, NewOK, FS_EmptySet DEF IteratorsCounted
<1> QED
  BY <1>3, <1>5

(* Every step keeps the form of the iterators.                             *)
LEMMA IterInvStep ==
  ASSUME DictInv, IterInv, [Next]_vars
  PROVE  IterInv'
<1>1. CASE UNCHANGED vars
  BY <1>1 DEF vars, IterInv, Started
<1>2. CASE Next
  BY <1>2, OthersStay, IterInvIterate DEF Next, Others
<1> QED
  BY <1>1, <1>2

(* Every step keeps the counter of safe iterators exact if dictEmpty is    *)
(* not called while one is under way.                                      *)
LEMMA CountStep ==
  ASSUME DictInv, IterInv, IteratorsCounted, [Next]_vars, "empty" \notin During
  PROVE  IteratorsCounted'
<1>1. CASE UNCHANGED vars
  BY <1>1 DEF vars, IteratorsCounted, Running, Started
<1>2. CASE Next
  BY <1>2, CountOthers, CountIterate DEF Next, Others
<1> QED
  BY <1>1, <1>2

(* dictGetIterator, dictNext and dictReleaseIterator keep the form of an   *)
(* iterator: one that holds an entry has a place, and one that has not     *)
(* started holds nothing and has returned nothing.                         *)
THEOREM IteratorForm == Spec => []IterInv
<1>1. Init => DictInv /\ IterInv
  BY DictInvInit, IterInvInit
<1>2. DictInv /\ IterInv /\ [Next]_vars => (DictInv /\ IterInv)'
  BY DictInvStep, IterInvStep
<1> QED
  BY <1>1, <1>2, PTL DEF Spec

(* Theorem for IteratorsCounted: the rehashing is paused exactly while a   *)
(* safe iterator is between its first dictNext and its release.            *)
THEOREM IteratorsCountedAlways ==
  ASSUME "empty" \notin During
  PROVE  Spec => []IteratorsCounted
<1>1. Init => IteratorsCounted
  BY IterInvInit
<1>2. DictInv /\ IterInv /\ IteratorsCounted /\ [Next]_vars => IteratorsCounted'
  BY CountStep
<1> QED
  BY <1>1, <1>2, TablesHoldEntries, IteratorForm, PTL DEF Spec

-----------------------------------------------------------------------------
(* How full the tables get.                                                *)

NoSafe == d.iterators = 0 /\ \A i \in Iter : ~it[i].safe

(* Without a safe iterator nothing pauses the rehashing.                   *)
LEMMA NoSafeStep ==
  ASSUME DictInv, IterInv, NoSafe, [Next]_vars, "safe" \notin Calls
  PROVE  NoSafe'
<1>1. CASE UNCHANGED vars
  BY <1>1 DEF vars, NoSafe
<1>2. CASE Others
  <2>1. \A i \in Iter : it'[i].safe = it[i].safe
    BY <1>2, OthersStay, SamePlaces
  <2>2. d'.iterators = 0
    <3>1. CASE DictEmpty \/ DictRelease
      BY <3>1, NewOK DEF DictEmpty, DictRelease
    <3>2. CASE Lookup \/ Tune
      BY <3>2, LookupStep, TuneStep DEF NoSafe
    <3>3. CASE DictScan
      BY <3>3 DEF DictScan, NoSafe
    <3>4. CASE Update /\ ~(DictEmpty \/ DictRelease)
      BY <3>4, AddStep, ReplaceStep, ReplaceRawStep, DeleteStep DEF Update, NoSafe
    <3> QED
      BY <1>2, <3>1, <3>2, <3>3, <3>4 DEF Others
  <2> QED
    BY <2>1, <2>2 DEF NoSafe
<1>3. ASSUME NEW i \in Iter, Iterate(i) PROVE NoSafe'
  <2>0. it \in [Iter -> IterRec] /\ ~it[i].safe /\ d.iterators = 0
    BY DEF IterInv, NoSafe
  <2>1. CASE \E safe \in BOOLEAN : DictGetIterator(i, safe)
    <3>1. it' = [it EXCEPT ![i] = [NoIter EXCEPT !.live = TRUE, !.safe = FALSE]] /\ d' = d
      BY <2>1 DEF DictGetIterator
    <3> DEFINE r == [NoIter EXCEPT !.live = TRUE, !.safe = FALSE]
    <3>2. r.safe = FALSE
      BY DEF NoIter
    <3>3. it' = [it EXCEPT ![i] = r]
      BY <3>1
    <3> HIDE DEF r
    <3> QED
      BY <2>0, <3>1, <3>2, <3>3 DEF NoSafe
  <2>2. CASE DictNext(i)
    <3>1. PICK table \in {0, 1}, index \in Nat, k \in Entries \cup {NULL} : Return(i, table, index, k)
      BY <2>2, NextReturns
    <3>2. Register(i)
      BY <2>2, NextReturns
    <3>3. /\ \A j \in Iter : j # i => it'[j] = it[j]
          /\ ReturnedFields(i, it'[i], table, index, k)
      BY <2>0, <3>1, Returned
    <3>4. it'[i].safe = it[i].safe
      BY <3>3 DEF ReturnedFields
    <3> QED
      BY <2>0, <3>2, <3>3, <3>4 DEF NoSafe, Register
  <2>3. CASE DictReleaseIterator(i)
    <3>1. it' = [it EXCEPT ![i] = NoIter] /\ d' = d
      BY <2>0, <2>3 DEF DictReleaseIterator
    <3>2. NoIter.safe = FALSE
      BY DEF NoIter
    <3> QED
      BY <2>0, <3>1, <3>2 DEF NoSafe
  <2> QED
    BY <1>3, <2>1, <2>2, <2>3 DEF Iterate
<1> QED
  BY <1>1, <1>2, <1>3 DEF Next, Others

(* The load survives every call.                                           *)
LEMMA LoadAdd ==
  ASSUME NEW e, DictOK(e), Load(e), e.iterators = 0, NEW k \in Key
  PROVE  /\ Load(Room(e))
         /\ Found(Room(e), k) = {} => Load(Push(Room(e), k))
<1>1. DictOK(Room(e)) /\ Room(e).ht[0].size > 0
  BY RoomOK DEF Same
<1>2. Slack(Room(e)) /\ Load(Room(e))
  BY LoadRoom
<1>3. ASSUME Found(Room(e), k) = {} PROVE Load(Push(Room(e), k))
  <2>1. k \notin All(Room(e))
    BY <1>1, <1>3, FoundOK
  <2> QED
    BY <1>1, <1>2, <2>1, LoadPush
<1> QED
  BY <1>2, <1>3

(* The rehashing in a lookup keeps the load bounded.                       *)
LEMMA LoadSearched ==
  ASSUME NEW e, DictOK(e), Load(e)
  PROVE  /\ Load(RehashStep(e)) /\ Load(Searched(e))
         /\ DictOK(RehashStep(e)) /\ DictOK(Searched(e))
         /\ Searched(e).iterators = e.iterators /\ All(Searched(e)) = All(e)
<1>1. Same(e, RehashStep(e)) /\ Same(e, Searched(e))
  BY RehashStepOK
<1>2. Load(RehashOne(e))
  BY LoadRound
<1> QED
  BY <1>1, <1>2 DEF RehashStep, Searched, Same

(* Every step does, as long as no safe iterator can hold the rehashing up. *)
LEMMA LoadStep ==
  ASSUME DictInv, IterInv, NoSafe, Load(d), [Next]_vars
  PROVE  Load(d')
<1>0. DictOK(d) /\ d.iterators = 0
  BY DEF DictInv, NoSafe
<1>1. CASE d' = d
  BY <1>1
<1>2. ASSUME NEW k \in Key, NEW v \in Val, DictAdd(k, v) PROVE Load(d')
  <2>1. d' = IF Found(Room(d), k) = {} THEN Push(Room(d), k) ELSE Room(d)
    BY <1>2 DEF DictAdd
  <2> QED
    BY <1>0, <2>1, LoadAdd
<1>3. ASSUME NEW k \in Key, NEW v \in Val, DictReplace(k, v) PROVE Load(d')
  <2>1. d' = IF Found(Room(d), k) = {} THEN Push(Room(d), k) ELSE Searched(Room(d))
    BY <1>3 DEF DictReplace
  <2>2. Load(Room(d)) /\ DictOK(Room(d))
    BY <1>0, LoadAdd, RoomOK DEF Same
  <2>3. Load(Searched(Room(d)))
    BY <2>2, LoadSearched
  <2> QED
    BY <1>0, <2>1, <2>3, LoadAdd
<1>4. ASSUME NEW k \in Key, NEW v \in Val, DictReplaceRaw(k, v) PROVE Load(d')
  <2> DEFINE e == Searched(d)
  <2>1. d' = IF Found(e, k) = {} THEN Push(Room(e), k) ELSE e
    BY <1>4 DEF DictReplaceRaw
  <2>2. DictOK(e) /\ Load(e) /\ e.iterators = 0
    BY <1>0, LoadSearched
  <2> HIDE DEF e
  <2>3. Found(e, k) = {} => Found(Room(e), k) = {}
    <3>1. DictOK(Room(e)) /\ All(Room(e)) = All(e)
      BY <2>2, RoomOK DEF Same
    <3> QED
      BY <2>2, <3>1, FoundOK
  <2> QED
    BY <2>1, <2>2, <2>3, LoadAdd
<1>5. ASSUME NEW k \in Key, DictDelete(k) PROVE Load(d')
  <2> DEFINE e == Searched(d)
  <2>1. d' = IF Found(e, k) = {} THEN e ELSE Unlink(e, k, Min(Found(e, k)))
    BY <1>5 DEF DictDelete
  <2>2. DictOK(e) /\ Load(e)
    BY <1>0, LoadSearched
  <2> HIDE DEF e
  <2>3. CASE Found(e, k) # {}
    <3>1. Min(Found(e, k)) \in Found(e, k)
      BY <2>2, <2>3, FoundMin
    <3> QED
      BY <2>1, <2>2, <2>3, <3>1, LoadUnlink
  <2> QED
    BY <2>1, <2>2, <2>3
<1>6. CASE d' = New
  <2>1. ~IsRehashing(New) /\ New.ht[0].used = 0 /\ New.ht[0].size = 0
    BY NewOK, ResetOK
  <2>2. 0 <= (ForceRatio + 1) * 0
    BY Twice
  <2> QED
    BY <1>6, <2>1, <2>2 DEF Load
<1>7. CASE Lookup
  <2>1. d' = RehashStep(d) \/ d' = Searched(d)
    BY <1>7 DEF Lookup, DictFind, DictGetRandomKey
  <2> QED
    BY <1>0, <2>1, LoadSearched
<1>8. ASSUME NEW n \in 0 .. TwoTo[Width], d' = Expand(d, n) PROVE Load(d')
  <2>1. Expanded(d, n, d')
    BY <1>0, <1>8, ExpandOK
  <2>2. n \in Nat
    BY Powers
  <2> QED
    BY <1>0, <2>1, <2>2, LoadExpand
<1>9. CASE Tune
  <2>1. CASE \E n \in Sizes : DictExpand(n)
    BY <1>8, <2>1, SizesOK DEF DictExpand
  <2>2. CASE \E n \in 1 .. MaxSteps : DictRehash(n)
    <3>1. PICK n \in 1 .. MaxSteps : d' = Rehash(d, n)[n]
      BY <2>2 DEF DictRehash
    <3> QED
      BY <1>0, <3>1, LoadRehash
  <2>3. CASE DictResize
    BY <1>8, <2>3, SizesOK DEF DictResize
  <2>4. CASE DictSwitchResize
    BY <2>4 DEF DictSwitchResize
  <2> QED
    BY <1>9, <2>1, <2>2, <2>3, <2>4 DEF Tune
<1>10. ASSUME NEW i \in Iter, Iterate(i) PROVE Load(d')
  <2>1. ASSUME NEW n \in Int, d' = [d EXCEPT !.iterators = n] PROVE Load(d')
    <3>1. d'.ht = d.ht /\ d'.rehashidx = d.rehashidx
      BY <1>0, <2>1, CountOK
    <3> QED
      BY <3>1 DEF Load, IsRehashing
  <2> QED
    BY <1>10, <2>1, IterateCounts
<1>11. CASE Update
  BY <1>2, <1>3, <1>4, <1>5, <1>6, <1>11 DEF Update, DictEmpty, DictRelease
<1>12. CASE DictScan \/ UNCHANGED vars
  BY <1>12 DEF DictScan, vars
<1> QED
  BY <1>7, <1>9, <1>10, <1>11, <1>12 DEF Next

(* Theorem for LoadBounded: however resizing is switched on and off, if no *)
(* safe iterator pauses the rehashing, a table that is not being replaced  *)
(* has at most ForceRatio + 1 entries per bucket.                          *)
THEOREM LoadBoundedAlways ==
  ASSUME "safe" \notin Calls
  PROVE  Spec => []LoadBounded
<1>1. Init => NoSafe /\ Load(d)
  <2> SUFFICES ASSUME Init PROVE NoSafe /\ Load(d)
    OBVIOUS
  <2>1. NoIter.safe = FALSE
    BY DEF NoIter
  <2>2. NoSafe
    BY <2>1, NewOK DEF Init, NoSafe
  <2>3. ~IsRehashing(New) /\ New.ht[0].used = 0 /\ New.ht[0].size = 0 /\ 0 <= (ForceRatio + 1) * 0
    BY NewOK, ResetOK, Twice
  <2> QED
    BY <2>2, <2>3 DEF Init, Load
<1>2. DictInv /\ IterInv /\ NoSafe /\ Load(d) /\ [Next]_vars => NoSafe' /\ Load(d')
  BY NoSafeStep, LoadStep
<1>3. Load(d) => LoadBounded
  BY DEF Load, LoadBounded
<1> DEFINE L == NoSafe /\ Load(d)
<1>4. DictInv /\ IterInv /\ L /\ [Next]_vars => L'
  BY <1>2
<1>5. (Init => L) /\ (L => LoadBounded)
  BY <1>1, <1>3
<1> HIDE DEF L
<1> QED
  BY <1>4, <1>5, TablesHoldEntries, IteratorForm, PTL DEF Spec

-----------------------------------------------------------------------------
(* What an iterator has in front of it.                                    *)

(* The entries in buckets after bucket b of table j.                       *)
Later(e, j, b) ==
  {k \in Key : \E a \in {0, 1} : k \in Home(e.ht[a])
                 /\ (a > j \/ (a = j /\ Hash[k] % e.ht[a].size > b))}
(* The entries of a chain from n on.                                       *)
From(c, n) == {k \in Key : \E x, y \in 1 .. Len(c) : x <= y /\ c[x] = n /\ c[y] = k}
Rest(e, r) == Later(e, r.table, r.index) \cup From(e.ht[r.table].table[r.index], r.next)

(* An iterator that has returned an entry: next is in the chain it is in   *)
(* and is another entry, what it has to return still is in front of it,    *)
(* and what it has returned is not.                                        *)
At(e, r) ==
  /\ r.index \in Slots(e.ht[r.table])
  /\ r.next # NULL => Contains(e.ht[r.table].table[r.index], r.next)
  /\ r.next # r.entry
  /\ r.todo \subseteq Rest(e, r)
  /\ r.got \cap Rest(e, r) = {}

ExactOf(i) ==
  /\ it[i].got \subseteq Entries /\ ~it[i].twice
  /\ it[i].entry # NULL => At(d, it[i])
  /\ Started(i) /\ it[i].entry = NULL => it[i].todo = {}
ExactInv == \A i \in Iter : ExactOf(i)

(* The chain of an iterator.                                               *)
LEMMA ChainAt ==
  ASSUME NEW e, DictOK(e), NEW j \in {0, 1}, NEW b \in Slots(e.ht[j])
  PROVE  /\ TableOK(e.ht[j]) /\ ChainOK(e.ht[j].table[b], e.ht[j].size, b)
         /\ e.ht[j].table[b] \in Seq(Key) /\ e.ht[j].size > 0 /\ b \in Nat
         /\ \A k \in Key : Contains(e.ht[j].table[b], k) <=> k \in Home(e.ht[j]) /\ Hash[k] % e.ht[j].size = b
<1>1. TableOK(e.ht[j]) /\ e.ht[j].size \in Nat
  BY DEF DictOK, TableOK, TableRec
<1>2. ChainOK(e.ht[j].table[b], e.ht[j].size, b)
  BY <1>1 DEF TableOK
<1>3. e.ht[j].size > 0 /\ b \in Nat
  BY <1>1 DEF Slots
<1>4. ASSUME NEW k \in Key
      PROVE  Contains(e.ht[j].table[b], k) <=> k \in Home(e.ht[j]) /\ Hash[k] % e.ht[j].size = b
  <2>1. ASSUME Contains(e.ht[j].table[b], k) PROVE k \in Home(e.ht[j]) /\ Hash[k] % e.ht[j].size = b
    BY <1>1, <2>1, InTable
  <2>2. ASSUME k \in Home(e.ht[j]), Hash[k] % e.ht[j].size = b PROVE Contains(e.ht[j].table[b], k)
    BY <2>2 DEF Home, Bucket
  <2> QED
    BY <2>1, <2>2
<1> QED
  BY <1>1, <1>2, <1>3, <1>4 DEF ChainOK

(* Behind the entry at position p comes the next one.                      *)
LEMMA FromNext ==
  ASSUME NEW c, NEW n, NEW b, ChainOK(c, n, b), NEW p \in 1 .. Len(c),
         NEW nx, nx = IF p + 1 <= Len(c) THEN c[p + 1] ELSE NULL
  PROVE  /\ From(c, nx) = From(c, c[p]) \ {c[p]} /\ nx # c[p] /\ c[p] \in From(c, c[p])
         /\ nx # NULL => Contains(c, nx)
<1>1. c \in Seq(Key) /\ Len(c) \in Nat /\ \A x, y \in 1 .. Len(c) : c[x] = c[y] => x = y
  BY DEF ChainOK
<1>2. \A x \in 1 .. Len(c) : c[x] \in Key /\ c[x] # NULL
  BY <1>1, DictAssumption
<1>3. CASE p + 1 <= Len(c)
  <2>1. p + 1 \in 1 .. Len(c) /\ nx = c[p + 1]
    BY <1>1, <1>3
  <2>2. ASSUME NEW k PROVE k \in From(c, nx) <=> k \in From(c, c[p]) \ {c[p]}
    <3>1. ASSUME k \in From(c, nx) PROVE k \in From(c, c[p]) \ {c[p]}
      <4>1. PICK x, y \in 1 .. Len(c) : x <= y /\ c[x] = nx /\ c[y] = k
        BY <3>1 DEF From
      <4>2. x = p + 1
        BY <1>1, <2>1, <4>1
      <4>3. p <= y /\ y # p
        BY <1>1, <4>1, <4>2
      <4> QED
        BY <1>1, <1>2, <4>1, <4>3 DEF From
    <3>2. ASSUME k \in From(c, c[p]), k # c[p] PROVE k \in From(c, nx)
      <4>1. PICK x, y \in 1 .. Len(c) : x <= y /\ c[x] = c[p] /\ c[y] = k
        BY <3>2 DEF From
      <4>2. x = p /\ y # p
        BY <1>1, <3>2, <4>1
      <4>3. p + 1 <= y
        BY <4>1, <4>2
      <4> QED
        BY <1>2, <2>1, <4>1, <4>3 DEF From
    <3> QED
      BY <3>1, <3>2
  <2>3. nx # c[p] /\ Contains(c, nx)
    <3>1. p + 1 # p
      OBVIOUS
    <3> QED
      BY <1>1, <2>1, <3>1 DEF Contains
  <2> QED
    BY <1>2, <2>2, <2>3 DEF From
<1>4. CASE ~(p + 1 <= Len(c))
  <2>1. p = Len(c) /\ nx = NULL
    BY <1>1, <1>4
  <2>2. From(c, nx) = {}
    BY <1>2, <2>1 DEF From
  <2>3. ASSUME NEW k \in From(c, c[p]) PROVE k = c[p]
    <3>1. PICK x, y \in 1 .. Len(c) : x <= y /\ c[x] = c[p] /\ c[y] = k
      BY DEF From
    <3>2. x = p
      BY <1>1, <3>1
    <3>3. y = p
      BY <1>1, <2>1, <3>1, <3>2
    <3> QED
      BY <3>1, <3>3
  <2> QED
    BY <1>2, <2>1, <2>2, <2>3 DEF From
<1> QED
  BY <1>3, <1>4

(* A new first entry, and a removed entry that is not n.                   *)
LEMMA FromPush ==
  ASSUME NEW c \in Seq(Key), NEW k \in Key, NEW n, n # k, ~Contains(c, k)
  PROVE  From(<<k>> \o c, n) = From(c, n)
<1> DEFINE e == <<k>> \o c
<1>1. /\ Len(e) = Len(c) + 1 /\ Len(c) \in Nat
      /\ e[1] = k /\ \A x \in 2 .. Len(c) + 1 : e[x] = c[x - 1]
  OBVIOUS
<1> HIDE DEF e
<1>2. \A x \in 1 .. Len(c) : x + 1 \in 1 .. Len(e) /\ e[x + 1] = c[x]
  <2> SUFFICES ASSUME NEW x \in 1 .. Len(c) PROVE x + 1 \in 1 .. Len(e) /\ e[x + 1] = c[x]
    OBVIOUS
  <2>1. x + 1 \in 2 .. Len(c) + 1 /\ (x + 1) - 1 = x
    BY <1>1
  <2> QED
    BY <1>1, <2>1
<1>3. \A x \in 1 .. Len(e) : x # 1 => x - 1 \in 1 .. Len(c) /\ e[x] = c[x - 1]
  BY <1>1
<1>4. ASSUME NEW j \in From(e, n) PROVE j \in From(c, n)
  <2>1. PICK x, y \in 1 .. Len(e) : x <= y /\ e[x] = n /\ e[y] = j
    BY DEF From
  <2>2. x # 1 /\ y # 1
    BY <1>1, <2>1
  <2>3. x - 1 \in 1 .. Len(c) /\ y - 1 \in 1 .. Len(c) /\ c[x - 1] = n /\ c[y - 1] = j /\ x - 1 <= y - 1
    BY <1>3, <2>1, <2>2
  <2> QED
    BY <2>3 DEF From
<1>5. ASSUME NEW j \in From(c, n) PROVE j \in From(e, n)
  <2>1. PICK x, y \in 1 .. Len(c) : x <= y /\ c[x] = n /\ c[y] = j
    BY DEF From
  <2>2. x + 1 \in 1 .. Len(e) /\ y + 1 \in 1 .. Len(e) /\ e[x + 1] = n /\ e[y + 1] = j /\ x + 1 <= y + 1
    BY <1>2, <2>1
  <2> QED
    BY <2>2 DEF From
<1> QED
  BY <1>4, <1>5 DEF e

(* Without an entry that is not the first one of the rest, the rest of a   *)
(* chain is what it was without it.                                        *)
LEMMA FromDrop ==
  ASSUME NEW c, NEW m, NEW b, ChainOK(c, m, b), NEW i \in 1 .. Len(c), NEW n, n # c[i]
  PROVE  From(RemoveAt(c, i), n) = From(c, n) \ {c[i]}
<1> DEFINE e == RemoveAt(c, i)
<1>1. /\ c \in Seq(Key) /\ Len(e) = Len(c) - 1 /\ Len(c) \in Nat
      /\ \A x \in 1 .. Len(c) - 1 : e[x] = IF x < i THEN c[x] ELSE c[x + 1]
  BY Removed DEF ChainOK
<1> HIDE DEF e
<1> DEFINE Old(x) == IF x < i THEN x ELSE x + 1
           New1(z) == IF z < i THEN z ELSE z - 1
<1>2. \A x \in 1 .. Len(e) : Old(x) \in 1 .. Len(c) /\ Old(x) # i /\ e[x] = c[Old(x)]
  BY <1>1
<1>3. \A x, y \in 1 .. Len(e) : x <= y => Old(x) <= Old(y)
  BY <1>1
<1>4. \A z \in 1 .. Len(c) : z # i => New1(z) \in 1 .. Len(e) /\ Old(New1(z)) = z
  BY <1>1
<1>5. \A y, z \in 1 .. Len(c) : y # i /\ z # i /\ y <= z => New1(y) <= New1(z)
  BY <1>1
<1> HIDE DEF Old, New1
<1>6. ASSUME NEW j \in From(e, n) PROVE j \in From(c, n) /\ j # c[i]
  <2>1. PICK x, y \in 1 .. Len(e) : x <= y /\ e[x] = n /\ e[y] = j
    BY DEF From
  <2>2. /\ Old(x) \in 1 .. Len(c) /\ Old(y) \in 1 .. Len(c) /\ c[Old(x)] = n /\ c[Old(y)] = j
        /\ Old(x) <= Old(y) /\ Old(y) # i
    BY <1>2, <1>3, <2>1
  <2>3. j # c[i]
    BY <2>2 DEF ChainOK
  <2> QED
    BY <2>2, <2>3 DEF From
<1>7. ASSUME NEW j \in From(c, n), j # c[i] PROVE j \in From(e, n)
  <2>1. PICK x, y \in 1 .. Len(c) : x <= y /\ c[x] = n /\ c[y] = j
    BY DEF From
  <2>2. x # i /\ y # i
    BY <1>7, <2>1
  <2>3. New1(x) \in 1 .. Len(e) /\ New1(y) \in 1 .. Len(e) /\ New1(x) <= New1(y)
        /\ Old(New1(x)) = x /\ Old(New1(y)) = y
    BY <1>4, <1>5, <2>1, <2>2
  <2>4. e[New1(x)] = n /\ e[New1(y)] = j
    BY <1>2, <2>1, <2>3
  <2> QED
    BY <2>3, <2>4 DEF From
<1> QED
  BY <1>6, <1>7 DEF e

(* The tables matter, not the count of iterators.                          *)
LEMMA AtSameTables ==
  ASSUME NEW e, NEW f, f.ht = e.ht, NEW r, At(e, r)
  PROVE  At(f, r)
BY DEF At, Rest, Later

(* A new table is put beside the one the iterator is in.                   *)
LEMMA AtExpand ==
  ASSUME NEW e, NEW f, NEW n, DictOK(e), Expanded(e, n, f), NEW r \in IterRec, At(e, r)
  PROVE  At(f, r)
<1>1. r.table \in {0, 1} /\ r.index \in Slots(e.ht[r.table])
  BY DEF IterRec, At
<1>2. e.ht[r.table].size > 0
  BY <1>1, ChainAt
<1>3. CASE f = e
  BY <1>3
<1>4. CASE ~IsRehashing(e)
  <2>1. r.table = 0 /\ e.ht[1] = Reset /\ e.ht[0].size > 0
    BY <1>1, <1>2, <1>4, ResetOK DEF DictOK
  <2>2. CASE f # e
    <3>1. f.ht[0] = e.ht[0] /\ f.ht[1].used = 0 /\ DictOK(f)
      BY <1>4, <2>1, <2>2 DEF Expanded, Same
    <3>2. Home(f.ht[1]) = {} /\ Home(e.ht[1]) = {}
      <4>1. Cardinality(Home(f.ht[1])) = 0 /\ IsFiniteSet(Home(f.ht[1]))
        BY <3>1, HomeFinite DEF DictOK, TableOK
      <4> QED
        BY <2>1, <4>1, FS_EmptySet, ResetOK
    <3>3. Later(f, r.table, r.index) = Later(e, r.table, r.index)
      BY <3>1, <3>2 DEF Later
    <3> QED
      BY <2>1, <3>1, <3>3 DEF At, Rest
  <2> QED
    BY <1>3, <2>2
<1> QED
  BY <1>3, <1>4 DEF Expanded

(* A new entry comes in front of next, or in another chain.                *)
LEMMA AtPush ==
  ASSUME NEW e, DictOK(e), e.ht[0].size > 0, NEW k \in Key, k \notin All(e),
         NEW r \in IterRec, r.got \subseteq All(e), At(e, r)
  PROVE  At(Push(e, k), r)
<1> DEFINE f == Push(e, k)
           j == Target(e)
           h == Hash[k] % e.ht[j].size
           a == r.table
           b == r.index
           c == e.ht[a].table[b]
           c2 == f.ht[a].table[b]
<1>0. a \in {0, 1} /\ b \in Slots(e.ht[a]) /\ 1 - j \in {0, 1} /\ j \in {0, 1}
  BY DEF IterRec, At, Target
<1>1. /\ f.ht[j] = PushOn(e.ht[j], k) /\ f.ht[1 - j] = e.ht[1 - j]
  BY PushOK
<1>2. TableOK(e.ht[j]) /\ e.ht[j].size > 0 /\ k \notin Home(e.ht[j])
  BY <1>0 DEF DictOK, Moving, All, Target
<1> HIDE DEF f, j
<1>3. /\ f.ht[j].size = e.ht[j].size /\ Home(f.ht[j]) = Home(e.ht[j]) \cup {k}
      /\ f.ht[j].table = [e.ht[j].table EXCEPT ![h] = <<k>> \o e.ht[j].table[h]]
  <2>1. /\ PushOn(e.ht[j], k).size = e.ht[j].size /\ Home(PushOn(e.ht[j], k)) = Home(e.ht[j]) \cup {k}
        /\ PushOn(e.ht[j], k).table = [e.ht[j].table EXCEPT ![h] = <<k>> \o e.ht[j].table[h]]
    BY <1>2, PushOnOK
  <2> QED
    BY <1>1, <2>1
<1>4. \A g \in {0, 1} : /\ f.ht[g].size = e.ht[g].size
                       /\ Home(e.ht[g]) \subseteq Home(f.ht[g])
                       /\ Home(f.ht[g]) \subseteq Home(e.ht[g]) \cup {k}
  <2>1. \A g \in {0, 1} : g = j \/ g = 1 - j
    BY <1>0
  <2> QED
    BY <1>1, <1>3, <2>1
<1>5. Later(e, a, b) \subseteq Later(f, a, b) /\ Later(f, a, b) \subseteq Later(e, a, b) \cup {k}
  BY <1>4 DEF Later
<1>6. ChainOK(c, e.ht[a].size, b) /\ c \in Seq(Key) /\ ~Contains(c, k)
  <2>1. k \notin Home(e.ht[a])
    BY <1>0 DEF All
  <2> QED
    BY <1>0, <2>1, ChainAt
<1>7. r.next # k /\ (r.next # NULL => Contains(c, r.next))
  <2>1. r.next # NULL => Contains(c, r.next)
    BY DEF At
  <2> QED
    BY <1>6, <2>1, DictAssumption
<1>8. c2 = c \/ c2 = <<k>> \o c
  <2>1. CASE a = 1 - j
    BY <1>1, <2>1
  <2>2. CASE a = j
    <3>1. e.ht[j].table \in [Slots(e.ht[j]) -> Seq(Key)]
      BY <1>2 DEF TableOK
    <3> HIDE DEF h
    <3>2. c2 = IF b = h THEN <<k>> \o c ELSE c
      BY <1>0, <1>3, <2>2, <3>1
    <3> QED
      BY <3>2
  <2>3. a = 1 - j \/ a = j
    BY <1>0
  <2> QED
    BY <2>1, <2>2, <2>3
<1> HIDE DEF c, c2, h
<1>9. From(c2, r.next) = From(c, r.next) /\ (r.next # NULL => Contains(c2, r.next))
  <2>1. CASE c2 = c
    BY <1>7, <2>1
  <2>2. CASE c2 = <<k>> \o c
    <3>1. From(<<k>> \o c, r.next) = From(c, r.next)
      BY <1>6, <1>7, FromPush
    <3>2. \A x \in 1 .. Len(c) : x + 1 \in 1 .. Len(<<k>> \o c) /\ (<<k>> \o c)[x + 1] = c[x]
      BY <1>6
    <3>3. Contains(c, r.next) => Contains(<<k>> \o c, r.next)
      BY <3>2 DEF Contains
    <3> QED
      BY <1>7, <2>2, <3>1, <3>3
  <2> QED
    BY <1>8, <2>1, <2>2
<1>10. b \in Slots(f.ht[a])
  BY <1>0, <1>4 DEF Slots
<1>11. Rest(e, r) \subseteq Rest(f, r) /\ Rest(f, r) \subseteq Rest(e, r) \cup {k}
  BY <1>5, <1>9 DEF Rest, c, c2
<1>12. r.todo \subseteq Rest(f, r) /\ r.got \cap Rest(f, r) = {}
  BY <1>11 DEF At
<1>13. At(f, r)
  BY <1>9, <1>10, <1>12 DEF At, c2
<1> QED
  BY <1>13 DEF f

(* The entry that was returned is deleted.                                 *)
LEMMA AtUnlink ==
  ASSUME NEW e, DictOK(e), NEW k \in Key, NEW j \in Found(e, k),
         NEW r \in IterRec, r.entry = k, At(e, r),
         NEW r2, r2.table = r.table, r2.index = r.index, r2.entry = r.entry, r2.next = r.next,
         r2.todo = r.todo \ {k}, r2.got = r.got \ {k}
  PROVE  At(Unlink(e, k, j), r2)
<1> DEFINE f == Unlink(e, k, j)
           h == Hash[k] % e.ht[j].size
           a == r.table
           b == r.index
           c == e.ht[a].table[b]
           c2 == f.ht[a].table[b]
<1>0. a \in {0, 1} /\ b \in Slots(e.ht[a]) /\ j \in {0, 1} /\ k \in Home(e.ht[j]) /\ 1 - j \in {0, 1}
  BY FoundOK DEF IterRec, At
<1>1. /\ f.ht[j] = DropFrom(e.ht[j], k) /\ f.ht[1 - j] = e.ht[1 - j]
  BY UnlinkOK
<1>2. TableOK(e.ht[j]) /\ k \notin Home(e.ht[1 - j])
  BY <1>0 DEF DictOK
<1> HIDE DEF f
<1>3. /\ f.ht[j].size = e.ht[j].size /\ Home(f.ht[j]) = Home(e.ht[j]) \ {k}
      /\ f.ht[j].table = [e.ht[j].table EXCEPT ![h] = RemoveFirst(e.ht[j].table[h], k)]
  <2>1. PICK t : t = e.ht[j]
    OBVIOUS
  <2>2. TableOK(t) /\ k \in Home(t)
    BY <1>0, <1>2, <2>1
  <2>3. /\ DropFrom(t, k).size = t.size /\ Home(DropFrom(t, k)) = Home(t) \ {k}
        /\ DropFrom(t, k).table = [t.table EXCEPT ![Hash[k] % t.size] = RemoveFirst(t.table[Hash[k] % t.size], k)]
    BY <2>2, DropFromOK
  <2> QED
    BY <1>1, <2>1, <2>3
<1>4. \A g \in {0, 1} : f.ht[g].size = e.ht[g].size /\ Home(f.ht[g]) = Home(e.ht[g]) \ {k}
  <2>1. \A g \in {0, 1} : g = j \/ g = 1 - j
    BY <1>0
  <2>2. Home(e.ht[1 - j]) = Home(e.ht[1 - j]) \ {k}
    BY <1>2
  <2> QED
    BY <1>1, <1>3, <2>1, <2>2
<1>5. Later(f, a, b) = Later(e, a, b) \ {k}
  BY <1>4 DEF Later
<1>6. ChainOK(c, e.ht[a].size, b) /\ c \in Seq(Key)
      /\ (Contains(c, k) <=> k \in Home(e.ht[a]) /\ Hash[k] % e.ht[a].size = b)
  BY <1>0, ChainAt
<1>7. r.next # k /\ (r.next # NULL => Contains(c, r.next))
  BY DEF At
<1>8. (c2 = c /\ ~Contains(c, k)) \/ (c2 = RemoveFirst(c, k) /\ Contains(c, k))
  <2>1. CASE a = 1 - j
    BY <1>1, <1>2, <1>6, <2>1
  <2>2. CASE a = j
    <3>1. e.ht[j].table \in [Slots(e.ht[j]) -> Seq(Key)]
      BY <1>2 DEF TableOK
    <3>2. Contains(c, k) <=> b = h
      BY <1>0, <1>6, <2>2
    <3> HIDE DEF h
    <3>3. c2 = IF b = h THEN RemoveFirst(c, k) ELSE c
      BY <1>0, <1>3, <2>2, <3>1
    <3> QED
      BY <3>2, <3>3
  <2> QED
    BY <1>0, <2>1, <2>2
<1> HIDE DEF c, c2, h
<1>9. From(c2, r.next) = From(c, r.next) \ {k} /\ (r.next # NULL => Contains(c2, r.next))
  <2>1. CASE c2 = c /\ ~Contains(c, k)
    <3>1. k \notin From(c, r.next)
      BY <2>1 DEF From, Contains
    <3> QED
      BY <1>7, <2>1, <3>1
  <2>2. CASE c2 = RemoveFirst(c, k) /\ Contains(c, k)
    <3>1. PICK p \in 1 .. Len(c) : c[p] = k
      BY <2>2 DEF Contains
    <3>2. c2 = RemoveAt(c, p) /\ \A q : Contains(RemoveAt(c, p), q) <=> q # c[p] /\ Contains(c, q)
      BY <1>6, <2>2, <3>1, ChainDrop
    <3>3. From(RemoveAt(c, p), r.next) = From(c, r.next) \ {c[p]}
      BY <1>6, <1>7, <3>1, FromDrop
    <3> QED
      BY <1>7, <3>1, <3>2, <3>3
  <2> QED
    BY <1>8, <2>1, <2>2
<1>10. b \in Slots(f.ht[a])
  BY <1>0, <1>4 DEF Slots
<1>11. Rest(f, r2) = Rest(e, r) \ {k}
  BY <1>5, <1>9 DEF Rest, c, c2
<1>12. r2.todo \subseteq Rest(f, r2) /\ r2.got \cap Rest(f, r2) = {}
  BY <1>11 DEF At
<1>13. At(f, r2)
  BY <1>7, <1>9, <1>10, <1>12 DEF At, c2
<1> QED
  BY <1>13 DEF f

(* The buckets ahead hold the later entries.                               *)
LEMMA AheadHolds ==
  ASSUME DictInv, NEW i \in Iter, it[i] \in IterRec, NEW k \in Later(d, it[i].table, it[i].index)
  PROVE  \E a \in {0, 1} : /\ k \in Home(d.ht[a]) /\ <<a, Hash[k] % d.ht[a].size>> \in Ahead(i)
<1>1. PICK a \in {0, 1} : k \in Home(d.ht[a])
                         /\ (a > it[i].table \/ (a = it[i].table /\ Hash[k] % d.ht[a].size > it[i].index))
  BY DEF Later
<1> DEFINE b == Hash[k] % d.ht[a].size
<1>2. k \in Key /\ TableOK(d.ht[a]) /\ d.ht[a].size > 0 /\ Contains(Bucket(d.ht[a], k), k)
      /\ d.ht[a].size \in PowersOfTwo \cup {0}
  BY <1>1 DEF DictInv, DictOK, Home, TableOK
<1>3. b \in Slots(d.ht[a]) /\ d.ht[a].table[b] # <<>> /\ d.ht[a].size \in Nat
  <2>1. b \in Slots(d.ht[a]) /\ Contains(d.ht[a].table[b], k) /\ d.ht[a].size \in Nat
    BY <1>2, SlotOf
  <2> QED
    BY <2>1 DEF Contains
<1>4. b \in Word /\ b < d.ht[a].size
  BY <1>2, <1>3, Powers DEF Slots, Word
<1>5. a \in Tables(d)
  <2>1. CASE IsRehashing(d)
    BY <2>1 DEF Tables
  <2>2. CASE ~IsRehashing(d)
    <3>1. a # 1
      BY <1>1, <2>2, ResetOK DEF DictInv, DictOK
    <3> QED
      BY <2>2, <3>1 DEF Tables
  <2> QED
    BY <2>1, <2>2
<1> HIDE DEF b
<1>6. <<a, b>> \in Ahead(i)
  BY <1>1, <1>3, <1>4, <1>5 DEF Ahead, b
<1> QED
  BY <1>1, <1>6 DEF b

(* The next bucket takes its entries from them.                            *)
LEMMA NextBucketTakes ==
  ASSUME DictInv, NEW i \in Iter, it[i] \in IterRec, Ahead(i) # {}
  PROVE  LET x == First(Ahead(i))
             c == d.ht[x[1]].table[x[2]]
         IN  /\ Later(d, it[i].table, it[i].index) = Later(d, x[1], x[2]) \cup From(c, c[1])
             /\ Later(d, x[1], x[2]) \cap From(c, c[1]) = {}
<1> DEFINE x == First(Ahead(i))
           c == d.ht[x[1]].table[x[2]]
<1>1. /\ x \in Ahead(i) /\ x[1] \in {0, 1} /\ x[2] \in Nat /\ x[2] \in Slots(d.ht[x[1]])
      /\ Len(c) >= 1
      /\ \A y \in Ahead(i) : x[1] < y[1] \/ (x[1] = y[1] /\ x[2] <= y[2])
  BY AheadIs
<1> HIDE DEF x
<1>2. /\ c \in Seq(Key) /\ ChainOK(c, d.ht[x[1]].size, x[2])
      /\ \A k \in Key : Contains(c, k) <=> k \in Home(d.ht[x[1]]) /\ Hash[k] % d.ht[x[1]].size = x[2]
  BY <1>1, ChainAt DEF DictInv
<1>3. x[1] > it[i].table \/ (x[1] = it[i].table /\ x[2] > it[i].index)
  BY <1>1 DEF Ahead
<1>4. it[i].table \in {0, 1} /\ it[i].index \in Int
  BY DEF IterRec
<1>5. \A k : k \in From(c, c[1]) <=> k \in Key /\ Contains(c, k)
  <2>1. 1 \in 1 .. Len(c) /\ \A y \in 1 .. Len(c) : 1 <= y
    BY <1>1, <1>2
  <2> HIDE DEF c
  <2> QED
    BY <2>1 DEF From, Contains
<1>6. ASSUME NEW k \in Later(d, it[i].table, it[i].index) PROVE k \in Later(d, x[1], x[2]) \cup From(c, c[1])
  <2>1. PICK a \in {0, 1} : k \in Home(d.ht[a]) /\ <<a, Hash[k] % d.ht[a].size>> \in Ahead(i)
    BY AheadHolds
  <2> DEFINE b == Hash[k] % d.ht[a].size
  <2>2. x[1] < a \/ (x[1] = a /\ x[2] <= b)
    BY <1>1, <2>1
  <2>3. k \in Key /\ b \in Nat
    <3>1. k \in Key /\ TableOK(d.ht[a]) /\ d.ht[a].size > 0
      BY <2>1 DEF Home, DictInv, DictOK
    <3>2. b \in Slots(d.ht[a]) /\ d.ht[a].size \in Nat
      BY <3>1, SlotOf
    <3> QED
      BY <3>1, <3>2 DEF Slots
  <2>4. CASE x[1] = a /\ x[2] = b
    BY <1>2, <1>5, <2>1, <2>3, <2>4
  <2>5. CASE ~(x[1] = a /\ x[2] = b)
    <3>1. a > x[1] \/ (a = x[1] /\ b > x[2])
      BY <1>1, <2>2, <2>3, <2>5
    <3> QED
      BY <2>1, <2>3, <3>1 DEF Later
  <2> QED
    BY <2>4, <2>5
<1>7. ASSUME NEW k \in Later(d, x[1], x[2]) PROVE k \in Later(d, it[i].table, it[i].index) /\ k \notin From(c, c[1])
  <2>1. PICK a \in {0, 1} : k \in Home(d.ht[a]) /\ (a > x[1] \/ (a = x[1] /\ Hash[k] % d.ht[a].size > x[2]))
    BY DEF Later
  <2> DEFINE b == Hash[k] % d.ht[a].size
  <2>2. k \in Key /\ b \in Nat
    <3>1. k \in Key /\ TableOK(d.ht[a]) /\ d.ht[a].size > 0
      BY <2>1 DEF Home, DictInv, DictOK
    <3>2. b \in Slots(d.ht[a]) /\ d.ht[a].size \in Nat
      BY <3>1, SlotOf
    <3> QED
      BY <3>1, <3>2 DEF Slots
  <2>3. a > it[i].table \/ (a = it[i].table /\ b > it[i].index)
    BY <1>1, <1>3, <1>4, <2>1, <2>2
  <2>4. k \in Later(d, it[i].table, it[i].index)
    BY <2>1, <2>2, <2>3 DEF Later
  <2>5. ~Contains(c, k)
    <3>1. CASE a = x[1]
      BY <1>1, <1>2, <2>1, <2>2, <3>1
    <3>2. CASE a # x[1]
      <4>1. k \notin Home(d.ht[x[1]])
        BY <1>1, <2>1, <3>2 DEF DictInv, DictOK
      <4> QED
        BY <1>2, <2>2, <4>1
    <3> QED
      BY <3>1, <3>2
  <2> QED
    BY <1>5, <2>4, <2>5
<1>8. ASSUME NEW k \in From(c, c[1]) PROVE k \in Later(d, it[i].table, it[i].index)
  BY <1>1, <1>2, <1>3, <1>5, <1>8 DEF Later
<1> QED
  BY <1>6, <1>7, <1>8 DEF x

(* Before the first dictNext every entry is ahead.                         *)
LEMMA AllLater ==
  ASSUME DictInv
  PROVE  Entries \subseteq Later(d, 0, -1)
<1> SUFFICES ASSUME NEW e \in Entries PROVE e \in Later(d, 0, -1)
  OBVIOUS
<1>1. PICK a \in {0, 1} : e \in Home(d.ht[a])
  BY DEF DictInv, All
<1>2. e \in Key /\ TableOK(d.ht[a]) /\ d.ht[a].size > 0
  BY <1>1 DEF Home, DictInv, DictOK
<1>3. Hash[e] % d.ht[a].size \in Slots(d.ht[a]) /\ d.ht[a].size \in Nat
  BY <1>2, SlotOf
<1>4. Hash[e] % d.ht[a].size > -1 /\ (a > 0 \/ a = 0)
  BY <1>3 DEF Slots
<1> QED
  BY <1>1, <1>2, <1>4 DEF Later

(* An iterator step leaves the tables alone.                               *)
LEMMA SameTables ==
  ASSUME DictInv, NEW i \in Iter, Iterate(i)
  PROVE  d'.ht = d.ht
<1>1. d \in DictRec
  BY DEF DictInv, DictOK
<1>2. ASSUME NEW n \in Int, d' = [d EXCEPT !.iterators = n] PROVE d'.ht = d.ht
  BY <1>1, <1>2 DEF DictRec
<1> QED
  BY <1>2, IterateCounts

(* Nothing follows the end of a chain.                                     *)
LEMMA FromNull ==
  ASSUME NEW c \in Seq(Key)
  PROVE  From(c, NULL) = {}
<1>1. \A x \in 1 .. Len(c) : c[x] # NULL
  BY DictAssumption
<1> QED
  BY <1>1 DEF From

(* dictNext returns what is next, once.                                    *)
LEMMA ExactNext ==
  ASSUME DictInv, IterInv, ExactInv, NEW i \in Iter, DictNext(i)
  PROVE  ExactOf(i)'
<1>0. /\ it[i] \in IterRec /\ it[i].table \in {0, 1} /\ it[i].index \in {-1} \cup Nat
      /\ it[i].got \subseteq Entries /\ it[i].twice = FALSE /\ it[i].todo \in SUBSET Key
      /\ NULL \notin Key /\ Entries \subseteq Key
  BY DictAssumption DEF IterInv, IterRec, ExactInv, ExactOf, Entries
<1>1. val' = val /\ Entries' = Entries /\ (d' = d \/ \E n \in Int : d' = [d EXCEPT !.iterators = n])
  BY IterateCounts DEF Iterate, Entries
<1>2. d'.ht = d.ht
  BY SameTables DEF Iterate
<1>3. CASE DictNextInChain(i)
  <2> DEFINE r == it[i]
             k == r.next
             c == d.ht[r.table].table[r.index]
             r2 == it'[i]
  <2>1. r.entry # NULL /\ k \in Entries /\ Return(i, r.table, r.index, k) /\ r.index \in Nat
    BY <1>0, <1>3 DEF DictNextInChain, IterInv
  <2>2. At(d, r) /\ r.index \in Slots(d.ht[r.table])
    BY <2>1 DEF ExactInv, ExactOf, At
  <2>3. ReturnedFields(i, r2, r.table, r.index, k)
    BY <1>0, <2>1, Returned DEF IterInv
  <2>4. Started(i)
    BY <2>1 DEF IterInv
  <2>5. k # NULL /\ k \in Key /\ Contains(c, k)
    BY <1>0, <2>1, <2>2 DEF At
  <2>6. ChainOK(c, d.ht[r.table].size, r.index) /\ k \in Home(d.ht[r.table]) /\ Hash[k] % d.ht[r.table].size = r.index
    <3>1. PICK g \in {0, 1} : g = r.table
      BY <1>0
    <3>2. PICK b \in Slots(d.ht[g]) : b = r.index
      BY <2>2, <3>1
    <3>3. /\ ChainOK(d.ht[g].table[b], d.ht[g].size, b)
          /\ \A m \in Key : Contains(d.ht[g].table[b], m) <=> m \in Home(d.ht[g]) /\ Hash[m] % d.ht[g].size = b
      BY ChainAt DEF DictInv
    <3> QED
      BY <2>5, <3>1, <3>2, <3>3
  <2>7. PICK p \in 1 .. Len(c) : c[p] = k
    BY <2>5 DEF Contains
  <2>8. After(k) = IF p + 1 <= Len(c) THEN c[p + 1] ELSE NULL
    <3>1. After(c[p]) = IF p + 1 <= Len(c) THEN c[p + 1] ELSE NULL
      BY <1>0, <2>2, AfterIs
    <3> QED
      BY <2>7, <3>1
  <2> HIDE DEF c
  <2>9. /\ From(c, After(k)) = From(c, k) \ {k} /\ After(k) # k
        /\ After(k) # NULL => Contains(c, After(k))
        /\ k \in From(c, k)
    <3>1. PICK nx : nx = After(k)
      OBVIOUS
    <3>2. nx = IF p + 1 <= Len(c) THEN c[p + 1] ELSE NULL
      BY <2>8, <3>1
    <3>3. /\ From(c, nx) = From(c, c[p]) \ {c[p]} /\ nx # c[p] /\ c[p] \in From(c, c[p])
          /\ nx # NULL => Contains(c, nx)
      BY <2>6, <3>2, FromNext
    <3> QED
      BY <2>7, <3>1, <3>3
  <2>10. k \notin Later(d, r.table, r.index)
    <3>1. \A a \in {0, 1} : k \in Home(d.ht[a]) => a = r.table
      BY <1>0, <2>6 DEF DictInv, DictOK
    <3> QED
      BY <1>0, <2>1, <2>6, <3>1 DEF Later
  <2>11. /\ r2.table = r.table /\ r2.index = r.index /\ r2.entry = k /\ r2.next = After(k)
         /\ r2.todo = r.todo \ {k} /\ r2.got = r.got \cup {k}
         /\ r2.twice = (r.twice \/ k \in r.got)
    BY <2>3, <2>4, <2>5 DEF ReturnedFields
  <2> HIDE DEF r, r2, k
  <2>12. Rest(d, r) = Later(d, r.table, r.index) \cup From(c, k) /\ Rest(d, r2) = Rest(d, r) \ {k}
    BY <2>9, <2>10, <2>11 DEF Rest, c, k
  <2>13. k \notin r.got
    BY <2>2, <2>9, <2>12 DEF At
  <2>14. At(d, r2)
    BY <2>2, <2>9, <2>11, <2>12 DEF At, c
  <2>15. At(d', r2)
    BY <1>2, <2>14, AtSameTables
  <2>16. r2.got \subseteq Entries
    BY <1>0, <2>1, <2>11 DEF r
  <2> QED
    BY <1>0, <1>1, <2>5, <2>11, <2>13, <2>15, <2>16 DEF ExactOf, r, r2
<1>4. CASE DictNextBucket(i)
  <2> DEFINE r == it[i]
             x == First(Ahead(i))
             c == d.ht[x[1]].table[x[2]]
             k == Head(c)
             r2 == it'[i]
  <2>1. Ahead(i) # {} /\ Return(i, x[1], x[2], k) /\ AtChainEnd(i)
    BY <1>4 DEF DictNextBucket
  <2>2. /\ x[1] \in {0, 1} /\ x[2] \in Nat /\ x[2] \in Slots(d.ht[x[1]])
        /\ Len(c) >= 1 /\ k = c[1] /\ k \in Entries
    BY <1>0, <2>1, AheadIs
  <2>3. ReturnedFields(i, r2, x[1], x[2], k)
    BY <1>0, <2>1, <2>2, Returned DEF IterInv
  <2>4. Later(d, r.table, r.index) = Later(d, x[1], x[2]) \cup From(c, c[1])
        /\ Later(d, x[1], x[2]) \cap From(c, c[1]) = {}
    BY <1>0, <2>1, NextBucketTakes
  <2> HIDE DEF x
  <2>5. ChainOK(c, d.ht[x[1]].size, x[2]) /\ 1 \in 1 .. Len(c)
    <3>1. ChainOK(c, d.ht[x[1]].size, x[2]) /\ c \in Seq(Key)
      BY <2>2, ChainAt DEF DictInv
    <3> QED
      BY <2>2, <3>1
  <2>6. After(k) = IF 1 + 1 <= Len(c) THEN c[1 + 1] ELSE NULL
    <3>1. After(c[1]) = IF 1 + 1 <= Len(c) THEN c[1 + 1] ELSE NULL
      BY <2>2, <2>5, AfterIs
    <3> QED
      BY <2>2, <3>1
  <2> HIDE DEF c, k
  <2>7. /\ From(c, After(k)) = From(c, k) \ {k} /\ After(k) # k
        /\ After(k) # NULL => Contains(c, After(k))
        /\ k \in From(c, k)
    BY <2>2, <2>5, <2>6, FromNext
  <2> DEFINE todo == IF Started(i) THEN r.todo ELSE Entries
  <2>8. /\ r2.table = x[1] /\ r2.index = x[2] /\ r2.entry = k /\ r2.next = After(k)
        /\ r2.todo = todo \ {k} /\ r2.got = r.got \cup {k} /\ k # NULL
        /\ r2.twice = (r.twice \/ k \in r.got)
    BY <1>0, <2>2, <2>3 DEF ReturnedFields
  <2>9. todo \subseteq Later(d, r.table, r.index) /\ r.got \cap Later(d, r.table, r.index) = {}
    <3>1. CASE Started(i)
      <4>1. r.entry # NULL /\ r.next = NULL
        BY <2>1, <3>1 DEF AtChainEnd
      <4>2. At(d, r)
        BY <4>1 DEF ExactInv, ExactOf
      <4>3. From(d.ht[r.table].table[r.index], NULL) = {}
        <5>1. d.ht[r.table].table[r.index] \in Seq(Key)
          BY <1>0, <4>2, ChainAt DEF At, DictInv
        <5> QED
          BY <5>1, FromNull
      <4>4. Rest(d, r) = Later(d, r.table, r.index)
        BY <4>1, <4>3 DEF Rest
      <4> QED
        BY <3>1, <4>2, <4>4 DEF At
    <3>2. CASE ~Started(i)
      <4>1. r.got = {} /\ r.table = 0 /\ r.index = -1
        BY <2>1, <3>2 DEF IterInv, Started, AtChainEnd
      <4>2. Entries \subseteq Later(d, 0, -1)
        BY AllLater
      <4> QED
        BY <3>2, <4>1, <4>2
    <3> QED
      BY <3>1, <3>2
  <2> HIDE DEF r, r2, todo
  <2>10. Rest(d, r2) = Later(d, r.table, r.index) \ {k} /\ k \in Later(d, r.table, r.index)
    BY <2>2, <2>4, <2>7, <2>8 DEF Rest, c
  <2>11. At(d, r2)
    BY <2>2, <2>7, <2>8, <2>9, <2>10 DEF At, c
  <2>12. At(d', r2)
    BY <1>2, <2>11, AtSameTables
  <2>13. k \notin r.got /\ r2.got \subseteq Entries
    BY <1>0, <2>2, <2>8, <2>9, <2>10 DEF r
  <2> QED
    BY <1>0, <1>1, <2>8, <2>12, <2>13 DEF ExactOf, r, r2
<1>5. CASE DictNextEnd(i)
  <2> DEFINE r == it[i]
             r2 == it'[i]
  <2>1. PICK table \in {0, 1}, index \in Nat : Return(i, table, index, NULL)
    BY <1>5, EndReturns
  <2>2. ReturnedFields(i, r2, table, index, NULL)
    BY <1>0, <2>1, Returned DEF IterInv
  <2>3. AtChainEnd(i) /\ Ahead(i) = {}
    BY <1>5 DEF DictNextEnd
  <2>4. Later(d, r.table, r.index) = {}
    BY <1>0, <2>3, AheadHolds
  <2>5. (IF Started(i) THEN r.todo ELSE Entries) = {}
    <3>1. CASE Started(i)
      <4>1. r.entry # NULL /\ r.next = NULL
        BY <2>3, <3>1 DEF AtChainEnd
      <4>2. At(d, r)
        BY <4>1 DEF ExactInv, ExactOf
      <4>3. From(d.ht[r.table].table[r.index], NULL) = {}
        <5>1. d.ht[r.table].table[r.index] \in Seq(Key)
          BY <1>0, <4>2, ChainAt DEF At, DictInv
        <5> QED
          BY <5>1, FromNull
      <4> QED
        BY <2>4, <3>1, <4>1, <4>2, <4>3 DEF At, Rest
    <3>2. CASE ~Started(i)
      <4>1. r.table = 0 /\ r.index = -1
        BY <2>3, <3>2 DEF Started, AtChainEnd
      <4>2. Entries \subseteq Later(d, 0, -1)
        BY AllLater
      <4> QED
        BY <2>4, <3>2, <4>1, <4>2
    <3> QED
      BY <3>1, <3>2
  <2>6. r2.entry = NULL /\ r2.todo = {} /\ r2.got = r.got /\ r2.twice = (r.twice \/ NULL \in r.got)
    BY <2>2, <2>5 DEF ReturnedFields
  <2> QED
    BY <1>0, <1>1, <2>6 DEF ExactOf
<1> QED
  BY <1>3, <1>4, <1>5 DEF DictNext

(* An iterator that has not been started.                                  *)
LEMMA ExactIdle ==
  ASSUME IterInv, NEW i \in Iter, ~Started(i)
  PROVE  ExactOf(i)
BY DEF IterInv, ExactOf

-----------------------------------------------------------------------------
(* The calls that are made while an iteration is under way.                *)

(* While a safe iterator is under way its user deletes no entry but the    *)
(* current one, and calls neither dictEmpty nor dictRehash.                *)
Quiet == "delete" \notin During /\ "empty" \notin During /\ "rehash" \notin During

(* Nothing is rehashed on the way ...                                      *)
LEMMA Paused ==
  ASSUME NEW e, e.iterators # 0
  PROVE  RehashStep(e) = e /\ Searched(e) = e /\ Room(e) = ExpandIfNeeded(e)
BY DEF RehashStep, Searched, Room

(* An iterator under way that lets another call be made is safe, and       *)
(* counted.                                                                *)
LEMMA RunningPauses ==
  ASSUME IteratorsCounted, NEW f, May(f), Running # {}
  PROVE  d.iterators # 0 /\ f \in During
<1>1. PICK i \in Running : it[i].safe /\ f \in During
  BY DEF May
<1>2. {j \in Running : it[j].safe} # {}
  BY <1>1
<1> QED
  BY <1>1, <1>2, SafeFinite DEF IteratorsCounted

(* ... but a second table may be put beside the first one ...              *)
Widened(e, f) == f = e \/ \E n : Expanded(e, n, f)

(* A second table that is empty changes nothing.                           *)
LEMMA WidenedOK ==
  ASSUME NEW e, NEW f, DictOK(e), Widened(e, f)
  PROVE  DictOK(f) /\ All(f) = All(e) /\ f.iterators = e.iterators
BY DEF Widened, Expanded, Same

(* With a safe iterator under way dictAddRaw may begin to rehash, and      *)
(* moves nothing.                                                          *)
LEMMA RoomWidens ==
  ASSUME DictInv, d.iterators # 0
  PROVE  /\ Widened(d, Room(d)) /\ DictOK(Room(d)) /\ Room(d).ht[0].size > 0
         /\ All(Room(d)) = All(d) /\ Searched(Room(d)) = Room(d)
<1>1. Room(d) = ExpandIfNeeded(d)
  BY Paused
<1>2. Grown(d, Room(d)) /\ DictOK(d)
  BY <1>1, ExpandIfNeededOK DEF DictInv
<1>3. Widened(d, Room(d)) /\ Room(d).ht[0].size > 0
  BY <1>2, GrownOK DEF Grown, Widened
<1>4. DictOK(Room(d)) /\ All(Room(d)) = All(d) /\ Room(d).iterators # 0
  BY <1>2, <1>3, WidenedOK
<1>5. Searched(Room(d)) = Room(d)
  BY <1>4, Paused
<1> QED
  BY <1>3, <1>4, <1>5

(* ... an entry may be added to it, and the one that all iterators have    *)
(* returned may be deleted.                                                *)
Adds(k, e) ==
  Widened(d, e) /\ DictOK(e) /\ e.ht[0].size > 0 /\ k \notin All(e) /\ d' = Push(e, k)
Drops(k, j) ==
  /\ j \in Found(d, k) /\ d' = Unlink(d, k, j) /\ Forget({k})
  /\ \A i \in Running : it[i].entry = k
Calm ==
  \/ it' = it /\ Widened(d, d')
  \/ it' = it /\ \E k \in Key : \E e : Adds(k, e)
  \/ \E k \in Key : \E j : Drops(k, j)

(* Adding an entry while iterators are under way is calm: it is put in     *)
(* front of a chain, and no bucket moves.                                  *)
LEMMA CalmAdd ==
  ASSUME DictInv, IteratorsCounted, Running # {}, NEW k \in Key, NEW v \in Val,
         DictAdd(k, v) \/ DictReplace(k, v) \/ DictReplaceRaw(k, v)
  PROVE  Calm
<1>1. d.iterators # 0 /\ it' = it
  BY RunningPauses DEF DictAdd, DictReplace, DictReplaceRaw
<1>2. Searched(d) = d
  BY <1>1, Paused
<1> DEFINE e == Room(d)
<1>3. Widened(d, e) /\ DictOK(e) /\ e.ht[0].size > 0 /\ All(e) = All(d) /\ Searched(e) = e
  BY <1>1, RoomWidens
<1>4. d' = Push(e, k) \/ d' = e \/ d' = d
  BY <1>2, <1>3 DEF DictAdd, DictReplace, DictReplaceRaw
<1>5. d' = Push(e, k) => Found(e, k) = {} \/ Found(d, k) = {} \/ d' = e \/ d' = d
  BY <1>2, <1>3 DEF DictAdd, DictReplace, DictReplaceRaw
<1> HIDE DEF e
<1>6. Found(e, k) = {} \/ Found(d, k) = {} => k \notin All(e)
  BY <1>3, FoundOK DEF DictInv
<1>7. CASE d' = e \/ d' = d
  BY <1>1, <1>3, <1>7 DEF Calm, Widened
<1>8. CASE d' = Push(e, k) /\ ~(d' = e \/ d' = d)
  <2>1. Adds(k, e)
    BY <1>3, <1>5, <1>6, <1>8 DEF Adds
  <2> QED
    BY <1>1, <2>1 DEF Calm
<1> QED
  BY <1>4, <1>7, <1>8

(* So is deleting the entry that they have all returned last ...           *)
LEMMA CalmDelete ==
  ASSUME DictInv, IteratorsCounted, Running # {}, Quiet, NEW k \in Key, DictDelete(k)
  PROVE  Calm
<1>1. d.iterators # 0 /\ \A i \in Running : it[i].entry = k
  <2>1. MayDelete(k)
    BY DEF DictDelete
  <2>2. ~May("delete")
    BY RunningPauses DEF Quiet
  <2> QED
    BY <2>1, <2>2, RunningPauses DEF MayDelete
<1>2. Searched(d) = d
  BY <1>1, Paused
<1>3. CASE Found(d, k) = {}
  BY <1>2, <1>3 DEF DictDelete, Calm, Widened
<1>4. CASE Found(d, k) # {}
  <2>1. d' = Unlink(d, k, Min(Found(d, k))) /\ Forget({k})
    BY <1>2, <1>4 DEF DictDelete
  <2>2. Min(Found(d, k)) \in Found(d, k)
    BY <1>4, FoundMin DEF DictInv
  <2>3. Drops(k, Min(Found(d, k)))
    BY <1>1, <2>1, <2>2 DEF Drops
  <2> QED
    BY <2>3 DEF Calm
<1> QED
  BY <1>3, <1>4

(* ... looking up, scanning, expanding and resizing ...                    *)
LEMMA CalmTune ==
  ASSUME DictInv, IteratorsCounted, Running # {}, Quiet, Lookup \/ Tune \/ DictScan
  PROVE  Calm
<1>1. CASE Lookup
  <2>1. d.iterators # 0 /\ it' = it
    BY <1>1, RunningPauses DEF Lookup, DictFind, DictGetRandomKey
  <2>2. d' = d
    BY <1>1, <2>1, Paused DEF Lookup, DictFind, DictGetRandomKey
  <2> QED
    BY <2>1, <2>2 DEF Calm, Widened
<1>2. ASSUME NEW n \in Sizes, DictExpand(n) PROVE Calm
  <2>1. Expanded(d, n, d')
    BY <1>2, ExpandOK, DictAssumption DEF DictExpand, DictInv
  <2> QED
    BY <1>2, <2>1 DEF DictExpand, Calm, Widened
<1>3. CASE DictResize
  <2> DEFINE n == Max({d.ht[0].used, InitialSize})
  <2>1. n \in 0 .. TwoTo[Width] /\ d' = Expand(d, n) /\ it' = it
    BY <1>3, SizesOK DEF DictResize, DictInv
  <2> HIDE DEF n
  <2>2. Expanded(d, n, d')
    BY <2>1, ExpandOK DEF DictInv
  <2> QED
    BY <2>1, <2>2 DEF Calm, Widened
<1>4. CASE DictSwitchResize \/ DictScan
  BY <1>4 DEF DictSwitchResize, DictScan, Calm, Widened
<1>5. ASSUME NEW n \in 1 .. MaxSteps, DictRehash(n) PROVE Calm
  BY <1>5, RunningPauses DEF DictRehash, Quiet
<1> QED
  BY <1>1, <1>2, <1>3, <1>4, <1>5 DEF Tune

(* ... and every call that may be made then.                               *)
LEMMA CalmOthers ==
  ASSUME DictInv, IteratorsCounted, Running # {}, Quiet, Others
  PROVE  Calm
<1>1. ~DictEmpty /\ ~DictRelease
  <2>1. ~DictEmpty
    BY RunningPauses DEF DictEmpty, Quiet
  <2>2. ~DictRelease
    BY DEF DictRelease, Running, Started
  <2> QED
    BY <2>1, <2>2
<1> QED
  BY <1>1, CalmAdd, CalmDelete, CalmTune DEF Others, Update

(* What the calls made during an iteration do to one that is under way.    *)
LEMMA ExactCalm ==
  ASSUME DictInv, DictInv', IterInv, ExactInv, Calm, NEW i \in Iter, Started(i)
  PROVE  ExactOf(i)'
<1>0. /\ it[i] \in IterRec /\ it[i].got \subseteq Entries /\ ~it[i].twice
      /\ it[i].entry # NULL => At(d, it[i])
      /\ it[i].entry = NULL => it[i].todo = {}
      /\ DictOK(d) /\ All(d) = Entries /\ All(d') = Entries'
  BY DEF IterInv, ExactInv, ExactOf, DictInv
<1>1. \A e : Widened(d, e) /\ it[i].entry # NULL => At(e, it[i])
  <2>1. SUFFICES ASSUME NEW e, Widened(d, e), it[i].entry # NULL PROVE At(e, it[i])
    OBVIOUS
  <2>2. CASE e = d
    BY <1>0, <2>1, <2>2
  <2>3. ASSUME NEW n, Expanded(d, n, e) PROVE At(e, it[i])
    BY <1>0, <2>1, <2>3, AtExpand
  <2> QED
    BY <2>1, <2>2, <2>3 DEF Widened
<1>2. CASE it' = it /\ Widened(d, d')
  <2>1. All(d') = All(d)
    BY <1>0, <1>2, WidenedOK
  <2> QED
    BY <1>0, <1>1, <1>2, <2>1 DEF ExactOf
<1>3. ASSUME it' = it, NEW k \in Key, NEW e, Adds(k, e) PROVE ExactOf(i)'
  <2>1. Widened(d, e) /\ DictOK(e) /\ e.ht[0].size > 0 /\ k \notin All(e) /\ d' = Push(e, k)
    BY <1>3 DEF Adds
  <2>2. All(e) = All(d)
    BY <1>0, <2>1, WidenedOK
  <2>3. it[i].entry # NULL => At(Push(e, k), it[i])
    BY <1>0, <1>1, <2>1, <2>2, AtPush
  <2>4. Entries \subseteq Entries'
    BY <1>0, <2>1, <2>2, PushOK
  <2> QED
    BY <1>0, <1>3, <2>1, <2>3, <2>4 DEF ExactOf
<1>4. ASSUME NEW k \in Key, NEW j, Drops(k, j) PROVE ExactOf(i)'
  <2>1. j \in Found(d, k) /\ d' = Unlink(d, k, j) /\ Forget({k}) /\ it[i].entry = k /\ k # NULL
    BY <1>4, DictAssumption DEF Drops, Running
  <2>2. \A g \in Iter : Place(g)' = Place(g) /\ it'[g].todo = it[g].todo \ {k} /\ it'[g].got = it[g].got \ {k}
    BY <2>1, Forgotten DEF IterInv
  <2>3. /\ it'[i].table = it[i].table /\ it'[i].index = it[i].index
        /\ it'[i].entry = it[i].entry /\ it'[i].next = it[i].next /\ it'[i].twice = it[i].twice
    BY <2>2, SamePlaces
  <2> DEFINE r == it[i]
             r2 == it'[i]
  <2>4. r2.todo = r.todo \ {k} /\ r2.got = r.got \ {k} /\ At(d, r) /\ r \in IterRec /\ r.entry = k
    BY <1>0, <2>1, <2>2
  <2>5. /\ r2.table = r.table /\ r2.index = r.index /\ r2.entry = r.entry /\ r2.next = r.next
    BY <2>3
  <2> HIDE DEF r, r2
  <2>6. At(Unlink(d, k, j), r2)
    BY <1>0, <2>1, <2>4, <2>5, AtUnlink
  <2>7. Entries' = Entries \ {k}
    BY <1>0, <2>1, UnlinkOK
  <2> QED
    BY <1>0, <2>1, <2>2, <2>3, <2>6, <2>7 DEF ExactOf, r2
<1> QED
  BY <1>2, <1>3, <1>4 DEF Calm

(* Calm calls leave exactly the entries ahead of an iterator to be         *)
(* returned.                                                               *)
LEMMA ExactOthers ==
  ASSUME DictInv, DictInv', IterInv, IteratorsCounted, ExactInv, Others, Quiet
  PROVE  ExactInv'
<1>1. IterInv' /\ \A i \in Iter : Started(i)' = Started(i)
  BY OthersStay, SamePlaces
<1>2. ASSUME NEW i \in Iter PROVE ExactOf(i)'
  <2>1. CASE Started(i)
    <3>1. Running # {}
      BY <2>1 DEF Running
    <3>2. Calm
      BY <3>1, CalmOthers
    <3> QED
      BY <2>1, <3>2, ExactCalm
  <2>2. CASE ~Started(i)
    <3>1. ~Started(i)'
      BY <1>1, <2>2
    <3> QED
      BY <1>1, <3>1 DEF IterInv, ExactOf
  <2> QED
    BY <2>1, <2>2
<1> QED
  BY <1>2 DEF ExactInv

(* dictNext returns one of the entries ahead and leaves the others ahead.  *)
LEMMA ExactIterate ==
  ASSUME DictInv, IterInv, ExactInv, NEW i \in Iter, Iterate(i)
  PROVE  ExactInv'
<1>1. Entries' = Entries /\ d'.ht = d.ht /\ IterInv'
  BY IterateCounts, SameTables, IterInvIterate DEF Entries
<1>2. \A j \in Iter : j # i => it'[j] = it[j]
  <2>1. CASE DictNext(i)
    BY <2>1, NextReturns, Returned DEF IterInv
  <2>2. CASE ~DictNext(i)
    BY <2>2 DEF Iterate, DictGetIterator, DictReleaseIterator, IterInv
  <2> QED
    BY <2>1, <2>2
<1>3. ASSUME NEW j \in Iter, j # i PROVE ExactOf(j)'
  <2>1. it'[j] = it[j] /\ Started(j)' = Started(j) /\ ExactOf(j)
    BY <1>2, <1>3 DEF Started, ExactInv
  <2>2. it[j].entry # NULL => At(d', it[j])
    BY <1>1, <2>1, AtSameTables DEF ExactOf
  <2> QED
    BY <1>1, <2>1, <2>2 DEF ExactOf
<1>4. ExactOf(i)'
  <2>1. CASE DictNext(i)
    BY <2>1, ExactNext
  <2>2. CASE ~DictNext(i)
    <3>1. ~Started(i)'
      <4>1. CASE \E safe \in BOOLEAN : DictGetIterator(i, safe)
        <5>1. PICK safe \in BOOLEAN : it' = [it EXCEPT ![i] = [NoIter EXCEPT !.live = TRUE, !.safe = safe]]
          BY <4>1 DEF DictGetIterator
        <5>2. it'[i].table = 0 /\ it'[i].index = -1
          BY <5>1 DEF IterInv, NoIter
        <5> QED
          BY <5>2 DEF Started
      <4>2. CASE DictReleaseIterator(i)
        <5>1. it' = [it EXCEPT ![i] = NoIter]
          BY <4>2 DEF DictReleaseIterator
        <5>2. it'[i].live = FALSE
          BY <5>1 DEF IterInv, NoIter
        <5> QED
          BY <5>2 DEF Started
      <4> QED
        BY <2>2, <4>1, <4>2 DEF Iterate
    <3> QED
      BY <1>1, <3>1 DEF IterInv, ExactOf
  <2> QED
    BY <2>1, <2>2
<1> QED
  BY <1>3, <1>4 DEF ExactInv

(* Every step keeps the iterations exact.                                  *)
LEMMA ExactStep ==
  ASSUME DictInv, DictInv', IterInv, IteratorsCounted, ExactInv, Quiet, [Next]_vars
  PROVE  ExactInv'
<1>1. CASE UNCHANGED vars
  BY <1>1 DEF vars, ExactInv, ExactOf, Started, Entries
<1>2. CASE Next
  BY <1>2, ExactOthers, ExactIterate DEF Next, Others
<1> QED
  BY <1>1, <1>2

(* The invariant of the iterations: an iterator between two calls of       *)
(* dictNext has in front of it what it must return still, and nothing of   *)
(* what it has returned.                                                   *)
THEOREM IteratorsAhead ==
  ASSUME Quiet
  PROVE  Spec => []ExactInv
<1>1. Init => ExactInv
  <2>1. Init => \A i \in Iter : ~Started(i)
    BY DEF Init, NoIter, Started
  <2> QED
    BY <2>1, IterInvInit, ExactIdle DEF ExactInv
<1>2. DictInv /\ DictInv' /\ IterInv /\ IteratorsCounted /\ ExactInv /\ [Next]_vars => ExactInv'
  BY ExactStep
<1>3. "empty" \notin During
  BY DEF Quiet
<1>4. Spec => []IteratorsCounted
  BY <1>3, IteratorsCountedAlways
<1> QED
  BY <1>1, <1>2, <1>4, TablesHoldEntries, IteratorForm, PTL DEF Spec

(* Theorem for IteratorExact: as long as nobody deletes other entries than *)
(* the returned one, empties the dictionary or calls dictRehash during an  *)
(* iteration, it returns every entry that was there throughout, and none   *)
(* twice, however many tables come and go.                                 *)
THEOREM IteratorExactAlways ==
  ASSUME Quiet
  PROVE  Spec => []IteratorExact
<1>1. ExactInv => IteratorExact
  BY DEF ExactInv, ExactOf, IteratorExact
<1> QED
  BY <1>1, IteratorsAhead, PTL

(* Theorem for NextNotFreed: under the same conditions the entry to which  *)
(* the iterator keeps a pointer is allocated.                              *)
THEOREM NextNotFreedAlways ==
  ASSUME Quiet
  PROVE  Spec => []NextNotFreed
<1>1. DictInv /\ IterInv /\ ExactInv => NextNotFreed
  <2> SUFFICES ASSUME DictInv, IterInv, ExactInv, NEW i \in Iter, it[i].entry # NULL, it[i].next # NULL
               PROVE  it[i].next \in Entries
    BY DEF NextNotFreed
  <2> DEFINE r == it[i]
  <2>1. At(d, r) /\ r.table \in {0, 1} /\ r.next \in Key
    BY DEF ExactInv, ExactOf, IterInv, IterRec
  <2>2. r.index \in Slots(d.ht[r.table]) /\ Contains(d.ht[r.table].table[r.index], r.next)
    BY <2>1 DEF At
  <2>3. r.next \in Home(d.ht[r.table])
    BY <2>1, <2>2, ChainAt DEF DictInv
  <2> QED
    BY <2>1, <2>3 DEF DictInv, All
<1> QED
  BY <1>1, IteratorsAhead, TablesHoldEntries, IteratorForm, PTL

-----------------------------------------------------------------------------
(* The scan, and the types.                                                *)

ScanRec == [v : Word, todo : SUBSET Key, skewed : BOOLEAN]
ScanType == scan \in ScanRec /\ can \in BOOLEAN

(* There is a table to scan when there are entries.                        *)
LEMMA SmallTable ==
  ASSUME NEW e, DictOK(e), e.ht[0].used + e.ht[1].used > 0
  PROVE  /\ Small(e) \in {0, 1} /\ Big(e) = 1 - Small(e)
         /\ e.ht[Small(e)].size \in PowersOfTwo
         /\ IsRehashing(e) => e.ht[Big(e)].size \in PowersOfTwo
<1>1. /\ e.ht[0].size \in PowersOfTwo \cup {0} /\ e.ht[1].size \in PowersOfTwo \cup {0}
      /\ e.ht[0].size \in Nat /\ e.ht[1].size \in Nat
  BY DEF DictOK, TableOK, TableRec
<1>2. CASE IsRehashing(e)
  <2>1. e.ht[0].size > 0 /\ e.ht[1].size > 0
    BY <1>2 DEF DictOK, Moving
  <2> QED
    BY <1>1, <2>1 DEF Small, Big
<1>3. CASE ~IsRehashing(e)
  <2>1. e.ht[1].used = 0
    BY <1>3 DEF DictOK, Reset
  <2>2. e.ht[0].used # 0 /\ e.ht[0].used = Cardinality(Home(e.ht[0]))
    BY <2>1 DEF DictOK, TableOK, TableRec
  <2>3. Home(e.ht[0]) # {}
    BY <2>2, FS_EmptySet
  <2>4. e.ht[0].size > 0
    BY <2>3 DEF Home
  <2> QED
    BY <1>1, <1>3, <2>4 DEF Small, Big
<1> QED
  BY <1>2, <1>3

(* Every step keeps the type of the scan.                                  *)
LEMMA ScanTypeStep ==
  ASSUME DictInv, ScanType, [Next]_vars
  PROVE  ScanType'
<1>0. scan \in ScanRec /\ scan.v \in Word /\ scan.todo \in SUBSET Key /\ 0 \in Word /\ scan.skewed \in BOOLEAN
  <2>1. TwoTo[Width] \in Nat /\ TwoTo[Width] > 0
    BY Powers
  <2> QED
    BY <2>1 DEF ScanType, ScanRec, Word
<1>1. CASE UNCHANGED <<scan, can>>
  BY <1>1 DEF ScanType
<1>2. CASE DictSwitchResize
  BY <1>2 DEF DictSwitchResize, ScanType
<1>3. ASSUME NEW K, Forget(K), can' = can PROVE ScanType'
  <2>1. scan' = [scan EXCEPT !.todo = @ \ K]
    BY <1>3 DEF Forget
  <2> QED
    BY <1>0, <1>3, <2>1 DEF ScanType, ScanRec
<1>4. CASE DictRelease
  BY <1>0, <1>4 DEF DictRelease, ScanType, ScanRec
<1>5. CASE DictScan
  <2>1. CASE d.ht[0].used + d.ht[1].used = 0
    <3>1. scan' = [scan EXCEPT !.v = 0] /\ can' = can
      BY <1>5, <2>1 DEF DictScan
    <3> QED
      BY <1>0, <3>1 DEF ScanType, ScanRec
  <2>2. CASE d.ht[0].used + d.ht[1].used # 0
    <3>1. d.ht[0].used + d.ht[1].used > 0
      BY <2>2 DEF DictInv, DictOK, TableOK, TableRec
    <3> DEFINE w == NextCursor(scan.v, d.ht[Small(d)].size)
               todo == (IF scan.v = 0 THEN Entries ELSE scan.todo) \ Emitted(d, scan.v)
               skewed == (scan.v # 0 /\ scan.skewed) \/ Skewed(d, scan.v)
    <3>2. scan' = [v |-> w, todo |-> todo, skewed |-> skewed] /\ can' = can
      BY <1>5, <2>2 DEF DictScan, Advance
    <3>3. w \in Word
      BY <1>0, <3>1, SmallTable, NextCursorWord DEF DictInv, Word
    <3>4. todo \in SUBSET Key
      BY <1>0 DEF Entries
    <3>5. skewed \in BOOLEAN
      BY DEF Skewed
    <3> HIDE DEF w, todo, skewed
    <3> QED
      BY <3>2, <3>3, <3>4, <3>5 DEF ScanType, ScanRec
  <2> QED
    BY <2>1, <2>2
<1>6. CASE Update
  BY <1>1, <1>3, <1>4, <1>6 DEF Update, DictAdd, DictReplace, DictReplaceRaw, DictDelete, DictEmpty
<1>7. CASE Lookup \/ Tune
  BY <1>1, <1>2, <1>7 DEF Lookup, Tune, DictFind, DictGetRandomKey, DictExpand, DictRehash, DictResize
<1>8. ASSUME NEW i \in Iter, Iterate(i) PROVE ScanType'
  BY <1>1, <1>8, IterateCounts
<1> QED
  BY <1>1, <1>5, <1>6, <1>7, <1>8 DEF Next, vars

(* A cursor is a word.                                                     *)
LEMMA ScanTypes == Spec => []ScanType
<1>1. Init => ScanType
  <2>1. TwoTo[Width] \in Nat /\ TwoTo[Width] > 0
    BY Powers
  <2> QED
    BY <2>1 DEF Init, ScanType, ScanRec, Word
<1>2. DictInv /\ ScanType /\ [Next]_vars => ScanType'
  BY ScanTypeStep
<1> QED
  BY <1>1, <1>2, TablesHoldEntries, PTL DEF Spec

(* Theorem for TypeOK: whatever the hash function and the calls, a cursor  *)
(* stays a word and a table has a power of two of buckets, each a chain of *)
(* keys.                                                                   *)
THEOREM TypesAlways == Spec => []TypeOK
<1>1. DictInv /\ IterInv /\ ScanType => TypeOK
  <2> SUFFICES ASSUME DictInv, IterInv, ScanType PROVE TypeOK
    OBVIOUS
  <2>1. ASSUME NEW j \in {0, 1}
        PROVE  LET t == d.ht[j]
               IN /\ t.size \in PowersOfTwo \cup {0}
                  /\ t.used \in Nat
                  /\ DOMAIN t.table = Slots(t)
                  /\ \A b \in Slots(t) : t.table[b] \in Seq(Key)
    BY DEF DictInv, DictOK, TableOK, TableRec
  <2>2. d.rehashidx \in {-1} \cup Nat
    BY DEF DictInv, DictOK, Moving, IsRehashing
  <2>3. d.iterators \in Int /\ val \in [Key -> Val \cup {NULL}]
    BY DEF DictInv, DictOK, DictRec
  <2>4. it \in [Iter -> IterRec]
    BY DEF IterInv
  <2> QED
    BY <2>1, <2>2, <2>3, <2>4 DEF TypeOK, IterRec, ScanType, ScanRec
<1> QED
  BY <1>1, TablesHoldEntries, IteratorForm, ScanTypes, PTL

-----------------------------------------------------------------------------
(* The map of helper.h.                                                    *)

(* The call under way has its arguments.                                   *)
CallInv ==
  /\ op \in {"none", "add", "find", "del"}
  /\ op # "none" => arg \in Key
  /\ op = "add" => argv \in Val

(* A call of add, find, del or clear is a call of the dictionary, and a    *)
(* call under way keeps its arguments.                                     *)
LEMMA CallStep ==
  ASSUME CallInv, [MapNext]_mapvars
  PROVE  CallInv' /\ [Next]_vars
<1>1. CASE UNCHANGED mapvars
  BY <1>1 DEF mapvars, call, CallInv
<1>2. ASSUME NEW k \in Key, Begin("find", k, NULL) \/ Begin("del", k, NULL) PROVE CallInv' /\ [Next]_vars
  BY <1>2 DEF Begin, CallInv
<1>3. ASSUME NEW k \in Key, NEW v \in Val, Begin("add", k, v) PROVE CallInv' /\ [Next]_vars
  BY <1>3 DEF Begin, CallInv
<1>4. CASE Add
  BY <1>4 DEF Add, In, CallInv, Next, Update
<1>5. CASE Find
  BY <1>5 DEF Find, In, CallInv, Next, Lookup
<1>6. CASE Del
  BY <1>6 DEF Del, In, CallInv, Next, Update
<1>7. CASE End
  BY <1>7 DEF End, CallInv
<1>8. CASE Clear
  BY <1>8 DEF Clear, call, CallInv, Next, Update
<1>9. CASE Between
  BY <1>9 DEF Between, call, CallInv, Next
<1> QED
  BY <1>1, <1>2, <1>3, <1>4, <1>5, <1>6, <1>7, <1>8, <1>9 DEF MapNext

(* The caller of the map uses the dictionary as its specification allows.  *)
LEMMA MapUsesDict == DictMapSpec => Spec /\ []CallInv /\ []DictInv
<1>1. MapInit => Init /\ CallInv
  BY DEF MapInit, CallInv
<1>2. CallInv /\ [MapNext]_mapvars => CallInv' /\ [Next]_vars
  BY CallStep
<1>3. DictMapSpec => []CallInv
  BY <1>1, <1>2, PTL DEF DictMapSpec
<1>4. DictMapSpec => Spec
  BY <1>1, <1>2, <1>3, PTL DEF DictMapSpec, Spec
<1> QED
  BY <1>3, <1>4, TablesHoldEntries, PTL

(* A search of both tables finds the entries.                              *)
LEMMA HoldsVal ==
  ASSUME DictInv
  PROVE  Holds = val
<1>1. \A k \in Key : Found(d, k) = {} <=> val[k] = NULL
  BY FoundOK DEF DictInv, Entries
<1> QED
  BY <1>1 DEF Holds, DictInv

(* What dictFind finds is what the map binds. *)
HoldsIsVal == Holds = val
(* The same after a step.                                                  *)
LEMMA HoldsNext == DictInv' => Holds' = val'
<1>1. DictInv => HoldsIsVal
  BY HoldsVal DEF HoldsIsVal
<1>2. DictInv' => HoldsIsVal'
  BY <1>1, PTL
<1> QED
  BY <1>2 DEF HoldsIsVal

(* Also after the rehashing that a call begins with.                       *)
LEMMA FindsVal ==
  ASSUME DictInv, NEW k \in Key
  PROVE  /\ Found(Room(d), k) = {} <=> val[k] = NULL
         /\ Found(Searched(d), k) = {} <=> val[k] = NULL
<1>1. /\ DictOK(Room(d)) /\ All(Room(d)) = All(d)
      /\ DictOK(Searched(d)) /\ All(Searched(d)) = All(d)
  BY RoomOK, RehashStepOK DEF DictInv, Same
<1>2. k \notin All(d) <=> val[k] = NULL
  BY DEF DictInv, Entries
<1> QED
  BY <1>1, <1>2, FoundOK

(* What a find of key arg may return, as the map sees it.                  *)
Seen == IF op = "find" THEN {Holds[arg]} ELSE {}

(* A call begins ...                                                       *)
LEMMA BeginMap ==
  ASSUME DictInv, NEW o \in {"find", "del", "add"}, NEW k \in Key, NEW v, Begin(o, k, v)
  PROVE  Map!Begin("main", o, k, v)
<1>1. /\ op = "none" /\ op' = o /\ arg' = k /\ argv' = v /\ res' = res /\ d' = d /\ val' = val
  BY DEF Begin, vars
<1>2. Holds' = Holds
  BY <1>1 DEF Holds
<1>3. Seen' = (IF o = "find" THEN {Holds[k]} ELSE {})
  BY <1>1, <1>2 DEF Seen
<1> QED
  BY <1>1, <1>2, <1>3 DEF Map!Begin, Seen, Of, Caller

(* ... takes effect ...                                                    *)
LEMMA AddMap ==
  ASSUME DictInv, DictInv', CallInv, Add
  PROVE  Map!Add("main")
<1>1. /\ op = "add" /\ res = {} /\ UNCHANGED <<op, arg, argv>> /\ arg \in Key /\ argv \in Val
      /\ DictAdd(arg, argv) /\ res' = {IF Found(Room(d), arg) = {} THEN 0 ELSE 1}
  BY DEF Add, In, CallInv
<1>2. Holds = val /\ Holds' = val' /\ Seen = {} /\ Seen' = {}
  BY <1>1, HoldsVal, HoldsNext DEF Seen
<1>3. Found(Room(d), arg) = {} <=> val[arg] = NULL
  BY <1>1, FindsVal
<1>4. Of(Seen) = [t \in Caller |-> IF Of(op)[t] = "find" /\ Of(arg)[t] = arg THEN Of(Seen)[t] \cup {argv} ELSE Of(Seen)[t]]
  BY <1>1, <1>2 DEF Of
<1>5. CASE val[arg] = NULL
  <2>1. Holds' = [Holds EXCEPT ![arg] = argv] /\ res' = {0} /\ Holds[arg] = NULL
    BY <1>1, <1>2, <1>3, <1>5 DEF DictAdd
  <2> QED
    BY <1>1, <1>2, <1>4, <2>1 DEF Map!Add, Map!Result, Map!Bind, Seen, Of, Caller
<1>6. CASE val[arg] # NULL
  <2>1. Holds' = Holds /\ res' = {1} /\ Holds[arg] # NULL
    BY <1>1, <1>2, <1>3, <1>6 DEF DictAdd
  <2> QED
    BY <1>1, <1>2, <2>1 DEF Map!Add, Map!Result, Seen, Of, Caller
<1> QED
  BY <1>5, <1>6

(* del removes the binding from the map.                                   *)
LEMMA DelMap ==
  ASSUME DictInv, DictInv', CallInv, Del
  PROVE  Map!Del("main")
<1>1. /\ op = "del" /\ res = {} /\ UNCHANGED <<op, arg, argv>> /\ arg \in Key
      /\ DictDelete(arg) /\ res' = {IF Found(Searched(d), arg) = {} THEN 1 ELSE 0}
  BY DEF Del, In, CallInv
<1>2. Holds = val /\ Holds' = val' /\ Seen = {} /\ Seen' = {}
  BY <1>1, HoldsVal, HoldsNext DEF Seen
<1>3. Found(Searched(d), arg) = {} <=> val[arg] = NULL
  BY <1>1, FindsVal
<1>4. Of(Seen) = [t \in Caller |-> IF Of(op)[t] = "find" /\ Of(arg)[t] = arg THEN Of(Seen)[t] \cup {NULL} ELSE Of(Seen)[t]]
  BY <1>1, <1>2 DEF Of
<1>5. CASE val[arg] # NULL
  <2>1. Holds' = [Holds EXCEPT ![arg] = NULL] /\ res' = {0} /\ Holds[arg] # NULL
    BY <1>1, <1>2, <1>3, <1>5 DEF DictDelete
  <2> QED
    BY <1>1, <1>2, <1>4, <2>1 DEF Map!Del, Map!Result, Map!Bind, Seen, Of, Caller
<1>6. CASE val[arg] = NULL
  <2>1. Holds' = Holds /\ res' = {1} /\ Holds[arg] = NULL
    BY <1>1, <1>2, <1>3, <1>6 DEF DictDelete
  <2> QED
    BY <1>1, <1>2, <2>1 DEF Map!Del, Map!Result, Seen, Of, Caller
<1> QED
  BY <1>5, <1>6

(* find returns the binding of its key.                                    *)
LEMMA FindMap ==
  ASSUME DictInv, DictInv', CallInv, Find
  PROVE  Map!Find("main")
<1>1. /\ op = "find" /\ res = {} /\ UNCHANGED <<op, arg, argv>> /\ arg \in Key /\ val' = val
      /\ res' = {IF Found(Searched(d), arg) = {} THEN NULL ELSE val[arg]}
  BY DEF Find, In, CallInv, DictFind
<1>2. Holds = val /\ Holds' = val'
  BY HoldsVal, HoldsNext
<1>3. Found(Searched(d), arg) = {} <=> val[arg] = NULL
  BY <1>1, FindsVal
<1>4. Seen = {val[arg]} /\ Seen' = Seen /\ Holds' = Holds /\ res' = {val[arg]}
  BY <1>1, <1>2, <1>3 DEF Seen
<1> QED
  BY <1>1, <1>4 DEF Map!Find, Map!Result, Seen, Of, Caller

(* ... and ends.                                                           *)
LEMMA EndMap ==
  ASSUME End
  PROVE  Map!End("main")
<1>1. /\ res # {} /\ op' = "none" /\ arg' = NULL /\ argv' = NULL /\ res' = {} /\ d' = d /\ val' = val
  BY DEF End, vars
<1>2. Holds' = Holds
  BY <1>1 DEF Holds
<1>3. Seen' = {}
  BY <1>1 DEF Seen
<1> QED
  BY <1>1, <1>2, <1>3 DEF Map!End, Seen, Of, Caller

(* clear empties the map.                                                  *)
LEMMA ClearMap ==
  ASSUME DictInv, DictInv', Clear
  PROVE  Map!Clear
<1>1. op = "none" /\ UNCHANGED <<op, arg, argv, res>> /\ val' = [k \in Key |-> NULL]
  BY DEF Clear, call, DictEmpty
<1>2. Holds' = val' /\ Seen = {} /\ Seen' = {}
  BY <1>1, HoldsVal, HoldsNext DEF Seen
<1>3. \A t \in Caller : Of(op)[t] = "none"
  BY <1>1 DEF Of
<1> QED
  BY <1>1, <1>2, <1>3 DEF Map!Clear, Seen

(* Nothing else is seen of the map.                                        *)
LEMMA StutterMap ==
  ASSUME DictInv, DictInv', UNCHANGED <<val, op, arg, argv, res>>
  PROVE  UNCHANGED Map!vars
<1>1. Holds = val /\ Holds' = val'
  BY HoldsVal, HoldsNext
<1>2. Holds' = Holds /\ Seen' = Seen
  BY <1>1 DEF Seen
<1> QED
  BY <1>2 DEF Map!vars, Seen

(* Every call is a step of the map or leaves it alone.                     *)
LEMMA MapStep ==
  ASSUME DictInv, DictInv', CallInv, [MapNext]_mapvars
  PROVE  [Map!Next]_(Map!vars)
<1>0. "main" \in Caller
  BY DEF Caller
<1>1. CASE UNCHANGED mapvars \/ Between
  <2>1. val' = val
    BY <1>1, IterateCounts DEF mapvars, vars, Between, Tune, DictExpand, DictRehash, DictResize, DictSwitchResize
  <2> QED
    BY <1>1, <2>1, StutterMap DEF mapvars, call, Between
<1>2. ASSUME NEW k \in Key, Begin("find", k, NULL) PROVE Map!Next
  BY <1>0, <1>2, BeginMap DEF Map!Next
<1>3. ASSUME NEW k \in Key, Begin("del", k, NULL) PROVE Map!Next
  BY <1>0, <1>3, BeginMap DEF Map!Next
<1>4. ASSUME NEW k \in Key, NEW v \in Val, Begin("add", k, v) PROVE Map!Next
  BY <1>0, <1>4, BeginMap DEF Map!Next
<1>5. CASE Add \/ Find \/ Del \/ End \/ Clear
  BY <1>0, <1>5, AddMap, FindMap, DelMap, EndMap, ClearMap DEF Map!Next
<1> QED
  BY <1>1, <1>2, <1>3, <1>4, <1>5 DEF MapNext

(* Theorem for ImplementsMap: the dictionary is the map of helper.h for    *)
(* one caller at a time, whatever is rehashed, resized or iterated over    *)
(* between and within the calls.                                           *)
THEOREM DictImplementsMap == DictMapSpec => ImplementsMap
<1>1. MapInit /\ DictInv => Map!Init
  <2> SUFFICES ASSUME MapInit, DictInv PROVE Map!Init
    OBVIOUS
  <2>1. Holds = [k \in Key |-> NULL] /\ op = "none" /\ arg = NULL /\ argv = NULL /\ res = {} /\ Seen = {}
    BY HoldsVal DEF MapInit, Init, Seen
  <2> QED
    BY <2>1 DEF Map!Init, Of, Seen
<1>2. DictInv /\ DictInv' /\ CallInv /\ [MapNext]_mapvars => [Map!Next]_(Map!vars)
  BY MapStep
<1> QED
  BY <1>1, <1>2, MapUsesDict, PTL DEF DictMapSpec, ImplementsMap, Map!Spec

-----------------------------------------------------------------------------
(* dictScan returns every entry that is in the dictionary all the time,    *)
(* unless it meets tables of very different sizes with an old cursor: the  *)
(* entries still to return have a reversed hash that is not below the      *)
(* reversed cursor.  First words, their bits and rev, then the calls.      *)

(* Division by p has one quotient and one remainder ...                    *)
Split(v, p, q, r) == q \in Nat /\ r \in Nat /\ r < p /\ v = p * q + r

(* ... which are \div and %.                                               *)
LEMMA Division ==
  ASSUME NEW p \in Nat, p > 0, NEW v \in Nat, NEW q, NEW r, Split(v, p, q, r)
  PROVE  v \div p = q /\ v % p = r
<1>0. q \in Nat /\ r \in Nat /\ r < p /\ v = p * q + r
  BY DEF Split
<1>1. v \div p \in Nat /\ v % p \in Nat /\ v % p < p /\ v = p * (v \div p) + (v % p)
  BY Z3
<1>2. PICK a \in Nat : a = v \div p
  BY <1>1
<1>3. PICK b \in Nat : b = v % p /\ b < p
  BY <1>1
<1>4. p * a + b = p * q + r
  BY <1>0, <1>1, <1>2, <1>3
<1>5. a >= q
  <2> SUFFICES ASSUME a < q PROVE FALSE
    BY <1>0, <1>2
  <2>1. PICK c \in Nat : q = a + 1 + c
    <3>1. q - a - 1 \in Nat /\ q = a + 1 + (q - a - 1)
      BY <1>0, <1>2
    <3> QED
      BY <3>1
  <2>2. p * q = p * a + p + p * c /\ p * c >= 0
    BY <1>0, <1>2, <2>1, Z3
  <2> QED
    BY <1>0, <1>2, <1>3, <1>4, <2>2, Z3
<1>6. q >= a
  <2> SUFFICES ASSUME q < a PROVE FALSE
    BY <1>0, <1>2
  <2>1. PICK c \in Nat : a = q + 1 + c
    <3>1. a - q - 1 \in Nat /\ a = q + 1 + (a - q - 1)
      BY <1>0, <1>2
    <3> QED
      BY <3>1
  <2>2. p * a = p * q + p + p * c /\ p * c >= 0
    BY <1>0, <1>2, <2>1, Z3
  <2> QED
    BY <1>0, <1>2, <1>3, <1>4, <2>2, Z3
<1>7. a = q
  BY <1>0, <1>2, <1>5, <1>6
<1> QED
  BY <1>0, <1>2, <1>3, <1>4, <1>7, Z3

(* ... which exist.                                                        *)
LEMMA Divides ==
  ASSUME NEW p \in Nat, p > 0, NEW v \in Nat
  PROVE  v \div p \in Nat /\ v % p \in Nat /\ v % p < p /\ v = p * (v \div p) + (v % p)
BY Z3

(* Division by 2 * p: one bit more.                                        *)
LEMMA Halves ==
  ASSUME NEW p \in Nat, p > 0, NEW v \in Nat
  PROVE  /\ v % (2 * p) = (v % p) + p * ((v \div p) % 2)
         /\ v \div p = 2 * (v \div (2 * p)) + ((v \div p) % 2)
         /\ (v \div p) % 2 \in {0, 1}
<1>1. PICK q \in Nat, r \in Nat : q = v \div p /\ r = v % p /\ r < p /\ v = p * q + r
  BY Divides
<1>2. PICK a \in Nat, b \in Nat : a = q \div 2 /\ b = q % 2 /\ b < 2 /\ q = 2 * a + b
  <2>1. q \div 2 \in Nat /\ q % 2 \in Nat /\ q % 2 < 2 /\ q = 2 * (q \div 2) + (q % 2)
    OBVIOUS
  <2> QED
    BY <2>1
<1>3. v = (2 * p) * a + (p * b + r)
  BY <1>1, <1>2, Z3
<1>4. p * b + r \in Nat /\ p * b + r < 2 * p
  <2>1. b = 0 \/ b = 1
    BY <1>2
  <2> QED
    BY <1>1, <2>1, Z3
<1>5. PICK m \in Nat, c \in Nat : m = 2 * p /\ m > 0 /\ c = p * b + r
  BY <1>4
<1>6. v \div m = a /\ v % m = c
  <2>1. Split(v, m, a, c)
    BY <1>2, <1>3, <1>4, <1>5 DEF Split
  <2> QED
    BY <1>5, <2>1, Division
<1>7. b = (v \div p) % 2 /\ b \in {0, 1}
  BY <1>1, <1>2
<1>8. v % (2 * p) = r + p * b
  BY <1>4, <1>5, <1>6
<1>9. v \div (2 * p) = a
  BY <1>5, <1>6
<1> QED
  BY <1>1, <1>2, <1>7, <1>8, <1>9

(* Division by a multiple of p and then by p.                              *)
LEMMA ModMod ==
  ASSUME NEW p \in Nat, p > 0, NEW m \in Nat, m > 0, NEW v \in Nat
  PROVE  (v % (p * m)) % p = v % p
<1>1. PICK n \in Nat : n = p * m /\ n > 0
  BY Z3
<1>2. PICK q \in Nat, r \in Nat : q = v \div n /\ r = v % n /\ r < n /\ v = n * q + r
  BY <1>1, Divides
<1>3. PICK a \in Nat, b \in Nat : a = r \div p /\ b = r % p /\ b < p /\ r = p * a + b
  BY Divides
<1>4. PICK c \in Nat : c = m * q + a
  <2>1. m * q + a \in Nat
    BY Z3
  <2> QED
    BY <2>1
<1>5. Split(v, p, c, b)
  <2>1. v = p * c + b
    BY <1>1, <1>2, <1>3, <1>4, Z3
  <2> QED
    BY <1>3, <1>4, <2>1 DEF Split
<1>6. v % p = b
  BY <1>3, <1>5, Division
<1> QED
  BY <1>1, <1>2, <1>3, <1>6

(* Products of powers.                                                     *)
LEMMA TwoToPlus ==
  ASSUME NEW i \in 0 .. Width, NEW j \in 0 .. Width, i + j <= Width
  PROVE  TwoTo[i + j] = TwoTo[i] * TwoTo[j]
<1> DEFINE T == {k \in 0 .. j : TwoTo[i + k] = TwoTo[i] * TwoTo[k]}
<1>0. Width \in Nat /\ j \in Nat /\ i \in Nat /\ TwoTo[i] \in Nat
  BY DictAssumption, TwoToEquation
<1>1. T \in SUBSET (0 .. j) /\ 0 \in T
  BY <1>0, TwoToEquation
<1>2. ASSUME NEW k \in T, k < j PROVE k + 1 \in T
  <2>1. /\ k + 1 \in 0 .. j /\ k + 1 \in 0 .. Width /\ k + 1 # 0 /\ (k + 1) - 1 = k /\ k \in 0 .. Width
        /\ i + (k + 1) \in 0 .. Width /\ i + (k + 1) # 0 /\ (i + (k + 1)) - 1 = i + k /\ i + k \in 0 .. Width
    BY <1>0, <1>2
  <2>2. TwoTo[k + 1] = 2 * TwoTo[k] /\ TwoTo[i + (k + 1)] = 2 * TwoTo[i + k]
    BY <2>1, TwoToEquation
  <2>3. TwoTo[k] \in Nat /\ TwoTo[i + k] = TwoTo[i] * TwoTo[k]
    BY <1>2, <2>1, TwoToEquation
  <2>4. TwoTo[i] * (2 * TwoTo[k]) = 2 * (TwoTo[i] * TwoTo[k])
    BY <1>0, <2>3, Z3
  <2> QED
    BY <2>1, <2>2, <2>3, <2>4
<1>3. T = 0 .. j
  <2> HIDE DEF T
  <2> QED
    BY <1>0, <1>1, <1>2, Induction
<1> QED
  BY <1>0, <1>3

(* One power is a multiple of another one that is not greater.             *)
LEMMA PowerMultiple ==
  ASSUME NEW i \in 0 .. Width, NEW j \in 0 .. Width, i <= j
  PROVE  /\ TwoTo[j] = TwoTo[i] * TwoTo[j - i] /\ j - i \in 0 .. Width
         /\ TwoTo[i] \in Nat /\ TwoTo[i] > 0 /\ TwoTo[j - i] \in Nat /\ TwoTo[j - i] > 0
<1>1. Width \in Nat /\ j - i \in 0 .. Width /\ i + (j - i) = j
  BY DictAssumption
<1>2. TwoTo[j] = TwoTo[i] * TwoTo[j - i]
  BY <1>1, TwoToPlus
<1> QED
  BY <1>1, <1>2, Powers DEF PowersOfTwo

(* The exponents are in the order of the powers.                           *)
LEMMA PowerOrder ==
  ASSUME NEW i \in 0 .. Width, NEW j \in 0 .. Width, i < j
  PROVE  TwoTo[j] >= 2 * TwoTo[i] /\ (j # i + 1 => TwoTo[j] >= 4 * TwoTo[i])
<1>0. Width \in Nat
  BY DictAssumption
<1>1. i + 1 \in 0 .. Width /\ i + 1 # 0 /\ (i + 1) - 1 = i /\ i + 1 <= j
  BY <1>0
<1>2. TwoTo[i + 1] = 2 * TwoTo[i] /\ TwoTo[i] \in Nat /\ TwoTo[i] > 0
  BY SMTT(40), <1>1, TwoToEquation, PowerMultiple
<1>3. \A a \in 0 .. Width : a <= j => TwoTo[j] >= TwoTo[a] /\ TwoTo[j] \in Nat
  <2> SUFFICES ASSUME NEW a \in 0 .. Width, a <= j PROVE TwoTo[j] >= TwoTo[a]
    BY TwoToEquation
  <2>1. PICK p \in Nat, m \in Nat : p = TwoTo[a] /\ m = TwoTo[j - a] /\ TwoTo[j] = p * m /\ m > 0
    BY SMTT(40), PowerMultiple
  <2>2. p * m >= p
    BY <2>1, Z3
  <2> QED
    BY <2>1, <2>2
<1>4. CASE j # i + 1
  <2>1. i + 2 \in 0 .. Width /\ i + 2 # 0 /\ (i + 2) - 1 = i + 1 /\ i + 2 <= j
    BY <1>0, <1>4
  <2>2. TwoTo[i + 2] = 2 * TwoTo[i + 1]
    BY <2>1, TwoToEquation
  <2> QED
    BY <1>2, <1>3, <2>1, <2>2
<1>5. TwoTo[j] >= 2 * TwoTo[i]
  BY <1>1, <1>2, <1>3
<1> QED
  BY <1>4, <1>5

(* The low bits of two words are the same when the words are, modulo a     *)
(* power.                                                                  *)
LEMMA BitsIff ==
  ASSUME NEW u \in Nat, NEW v \in Nat, NEW j \in 0 .. Width
  PROVE  Bits(u)[j] = Bits(v)[j] <=> u % TwoTo[j] = v % TwoTo[j]
<1>0. Width \in Nat
  BY DictAssumption
<1>1. PICK f, g : f = Bits(u) /\ g = Bits(v)
  OBVIOUS
<1>2. /\ \A i \in 0 .. Width : f[i] \in Nat /\ g[i] \in Nat
      /\ f[0] = 0 /\ g[0] = 0
      /\ \A i \in 0 .. Width : i # 0 => f[i] = 2 * f[i - 1] + Bit(u, i - 1) /\ g[i] = 2 * g[i - 1] + Bit(v, i - 1)
  BY <1>1, BitsEquation
<1> DEFINE T == {i \in 0 .. Width : f[i] = g[i] <=> u % TwoTo[i] = v % TwoTo[i]}
<1>3. T \in SUBSET (0 .. Width) /\ 0 \in T
  <2>1. u % 1 = v % 1
    OBVIOUS
  <2> QED
    BY <1>0, <1>2, <2>1, TwoToEquation
<1>4. ASSUME NEW i \in T, i < Width PROVE i + 1 \in T
  <2>1. i + 1 \in 0 .. Width /\ i + 1 # 0 /\ (i + 1) - 1 = i /\ i \in 0 .. Width
    BY <1>0, <1>4
  <2>2. f[i + 1] = 2 * f[i] + Bit(u, i) /\ g[i + 1] = 2 * g[i] + Bit(v, i) /\ f[i] \in Nat /\ g[i] \in Nat
    BY <1>2, <2>1
  <2>3. PICK p \in Nat : p = TwoTo[i] /\ p > 0 /\ TwoTo[i + 1] = 2 * p
    BY <2>1, TwoToEquation, Powers DEF PowersOfTwo
  <2>4. /\ u % (2 * p) = (u % p) + p * ((u \div p) % 2) /\ (u \div p) % 2 \in {0, 1}
        /\ v % (2 * p) = (v % p) + p * ((v \div p) % 2) /\ (v \div p) % 2 \in {0, 1}
        /\ u % p \in Nat /\ v % p \in Nat /\ u % p < p /\ v % p < p
    BY <2>3, Halves, Divides
  <2>5. Bit(u, i) = (u \div p) % 2 /\ Bit(v, i) = (v \div p) % 2
    BY <2>3 DEF Bit
  <2>6. PICK a \in Nat, b \in Nat : a = u % p /\ b = v % p
    BY <2>4
  <2>7. PICK x \in {0, 1}, y \in {0, 1} : x = Bit(u, i) /\ y = Bit(v, i)
    BY <2>4, <2>5
  <2>8. u % (2 * p) = a + p * x /\ v % (2 * p) = b + p * y /\ a < p /\ b < p
    BY <2>4, <2>5, <2>6, <2>7
  <2>9. a + p * x = b + p * y <=> a = b /\ x = y
    <3>1. p * 0 = 0 /\ p * 1 = p
      BY <2>3, Z3
    <3>2. p * x \in {0, p} /\ (p * x = 0 <=> x = 0) /\ p * y \in {0, p} /\ (p * y = 0 <=> y = 0)
      BY <2>3, <2>7, <3>1
    <3>3. PICK m \in {0, p}, n \in {0, p} : m = p * x /\ n = p * y
      BY <3>2
    <3>4. a + m = b + n <=> a = b /\ m = n
      <4>1. a \in Nat /\ b \in Nat /\ p \in Nat /\ a < p /\ b < p
        BY <2>3, <2>6, <2>8
      <4>2. (m = 0 \/ m = p) /\ (n = 0 \/ n = p)
        BY <3>3
      <4> QED
        BY <4>1, <4>2
    <3>5. m = n <=> x = y
      BY <2>3, <2>7, <3>2, <3>3
    <3> QED
      BY <3>3, <3>4, <3>5
  <2>10. f[i + 1] = g[i + 1] <=> f[i] = g[i] /\ x = y
    <3>1. PICK A \in Nat, B \in Nat : A = f[i] /\ B = g[i]
      BY <2>2
    <3>2. 2 * A + x = 2 * B + y <=> A = B /\ x = y
      <4>1. (x = 0 \/ x = 1) /\ (y = 0 \/ y = 1)
        BY <2>7
      <4> QED
        BY <3>1, <4>1
    <3> QED
      BY <2>2, <2>7, <3>1, <3>2
  <2>11. f[i] = g[i] <=> a = b
    BY <1>4, <2>3, <2>6
  <2> QED
    BY <2>1, <2>3, <2>8, <2>9, <2>10, <2>11
<1>5. T = 0 .. Width
  <2> HIDE DEF T
  <2> QED
    BY <1>0, <1>3, <1>4, Induction
<1> QED
  BY <1>1, <1>5

(* The first bits taken are the leading ones of the result.                *)
LEMMA BitsPrefix ==
  ASSUME NEW v \in Nat, NEW i \in 0 .. Width, NEW j \in 0 .. Width, j <= i
  PROVE  \E r : Split(Bits(v)[i], TwoTo[i - j], Bits(v)[j], r)
<1>0. Width \in Nat /\ i - j \in 0 .. Width /\ j + (i - j) = i
  BY DictAssumption
<1>1. PICK f : f = Bits(v)
  OBVIOUS
<1>2. /\ \A k \in 0 .. Width : f[k] \in Nat
      /\ \A k \in 0 .. Width : k # 0 => f[k] = 2 * f[k - 1] + Bit(v, k - 1)
  BY <1>1, BitsEquation
<1> DEFINE T == {k \in 0 .. (i - j) : \E r : Split(f[j + k], TwoTo[k], f[j], r)}
<1>3. T \in SUBSET (0 .. (i - j)) /\ 0 \in T
  <2>1. PICK b \in Nat : b = f[j]
    BY <1>2
  <2>2. Split(b, 1, b, 0)
    BY <2>1 DEF Split
  <2> QED
    BY <1>0, <2>1, <2>2, TwoToEquation
<1>4. ASSUME NEW k \in T, k < i - j PROVE k + 1 \in T
  <2>1. /\ k + 1 \in 0 .. (i - j) /\ k \in 0 .. Width /\ k + 1 \in 0 .. Width /\ k + 1 # 0 /\ (k + 1) - 1 = k
        /\ j + k \in 0 .. Width /\ j + (k + 1) \in 0 .. Width /\ j + (k + 1) # 0 /\ (j + (k + 1)) - 1 = j + k
    BY <1>0, <1>4
  <2>2. PICK r : Split(f[j + k], TwoTo[k], f[j], r)
    BY <1>4
  <2>3. PICK a \in Nat, b \in Nat, p \in Nat : a = f[j + k] /\ b = f[j] /\ p = TwoTo[k] /\ TwoTo[k + 1] = 2 * p
    BY <1>2, <2>1, TwoToEquation
  <2>4. r \in Nat /\ r < p /\ a = p * b + r
    BY <2>2, <2>3 DEF Split
  <2>5. PICK c \in {0, 1} : c = Bit(v, j + k) /\ f[j + (k + 1)] = 2 * a + c
    <3>1. Bit(v, j + k) \in {0, 1}
      BY <2>1, BitIs
    <3>2. f[j + (k + 1)] = 2 * f[j + k] + Bit(v, j + k)
      BY <1>2, <2>1
    <3> QED
      BY <2>3, <3>1, <3>2
  <2>6. 2 * a + c = (2 * p) * b + (2 * r + c)
    BY <2>3, <2>4, <2>5, Z3
  <2>7. 2 * r + c \in Nat /\ 2 * r + c < 2 * p
    BY <2>3, <2>4, <2>5
  <2>8. Split(f[j + (k + 1)], TwoTo[k + 1], f[j], 2 * r + c)
    BY <2>3, <2>5, <2>6, <2>7 DEF Split
  <2> QED
    BY <2>1, <2>8
<1>5. T = 0 .. (i - j)
  <2> HIDE DEF T
  <2> QED
    BY <1>0, <1>3, <1>4, Induction
<1>6. i - j \in T
  BY <1>0, <1>5
<1> QED
  BY <1>0, <1>1, <1>6

(* The lowest j bits of a word are the highest ones of the reversed word,  *)
(* in the opposite order.                                                  *)
LEMMA RevPrefix ==
  ASSUME NEW v \in Nat, NEW j \in 0 .. Width
  PROVE  /\ \E r : Split(Rev(v), TwoTo[Width - j], Bits(v)[j], r)
         /\ Rev(v) \div TwoTo[Width - j] = Bits(v)[j]
         /\ Width - j \in 0 .. Width /\ Rev(v) \in Nat
<1>1. Width \in 0 .. Width /\ j <= Width /\ Width - j \in 0 .. Width
  BY DictAssumption
<1>2. PICK r : Split(Rev(v), TwoTo[Width - j], Bits(v)[j], r)
  BY <1>1, BitsPrefix DEF Rev
<1>3. TwoTo[Width - j] \in Nat /\ TwoTo[Width - j] > 0 /\ Rev(v) \in Nat
  BY <1>1, Powers, RevWord DEF PowersOfTwo, Word
<1> QED
  BY <1>1, <1>2, <1>3, Division

(* Bit j from the low end is bit j from the high end of the reversed word. *)
LEMMA RevBit ==
  ASSUME NEW v \in Nat, NEW j \in 0 .. Width, j # Width
  PROVE  Bit(Rev(v), j) = Bit(v, (Width - j) - 1)
<1>1. Width \in Nat /\ Width - j \in 0 .. Width /\ Width - (Width - j) = j /\ Width - j # 0
      /\ (Width - j) - 1 \in 0 .. Width
  BY DictAssumption
<1>2. Rev(v) \div TwoTo[j] = Bits(v)[Width - j]
  BY <1>1, RevPrefix
<1>3. /\ Bits(v)[Width - j] = 2 * Bits(v)[(Width - j) - 1] + Bit(v, (Width - j) - 1)
      /\ Bits(v)[(Width - j) - 1] \in Nat /\ Bit(v, (Width - j) - 1) \in {0, 1}
  BY <1>1, BitsEquation, BitIs
<1>4. PICK a \in Nat, b \in {0, 1} : a = Bits(v)[(Width - j) - 1] /\ b = Bit(v, (Width - j) - 1)
  BY <1>3
<1>5. (2 * a + b) % 2 = b
  BY <1>4
<1> QED
  BY <1>2, <1>3, <1>4, <1>5 DEF Bit

(* Reversing a word twice gives it back.                                   *)
LEMMA RevRev ==
  ASSUME NEW y \in Word
  PROVE  Rev(Rev(y)) = y
<1>0. Width \in Nat /\ y \in Nat /\ y < TwoTo[Width] /\ TwoTo[Width] \in Nat
  BY DictAssumption, TwoToEquation DEF Word
<1>1. PICK w \in Nat : w = Rev(y)
  BY <1>0, RevWord DEF Word
<1>2. PICK f : f = Bits(w)
  OBVIOUS
<1>3. f[0] = 0 /\ \A j \in 0 .. Width : j # 0 => f[j] = 2 * f[j - 1] + Bit(w, j - 1)
  BY <1>2, BitsEquation
<1> DEFINE T == {j \in 0 .. Width : f[j] = y \div TwoTo[Width - j]}
<1>4. T \in SUBSET (0 .. Width) /\ 0 \in T
  <2>1. Split(y, TwoTo[Width], 0, y)
    BY <1>0 DEF Split
  <2>2. y \div TwoTo[Width] = 0
    BY <1>0, <2>1, Division
  <2> QED
    BY <1>0, <1>3, <2>2
<1>5. ASSUME NEW j \in T, j < Width PROVE j + 1 \in T
  <2>1. /\ j + 1 \in 0 .. Width /\ j + 1 # 0 /\ (j + 1) - 1 = j /\ j \in 0 .. Width /\ j # Width
        /\ (Width - j) - 1 = Width - (j + 1) /\ Width - (j + 1) \in 0 .. Width /\ Width - j \in 0 .. Width
        /\ Width - j # 0
    BY <1>0, <1>5
  <2>2. f[j + 1] = 2 * f[j] + Bit(w, j)
    BY <1>3, <2>1
  <2>3. Bit(w, j) = Bit(y, Width - (j + 1))
    BY <1>0, <1>1, <2>1, RevBit
  <2>4. PICK p \in Nat : p = TwoTo[Width - (j + 1)] /\ p > 0 /\ TwoTo[Width - j] = 2 * p
    BY <2>1, TwoToEquation, Powers DEF PowersOfTwo
  <2>5. y \div p = 2 * (y \div (2 * p)) + ((y \div p) % 2)
    BY <1>0, <2>4, Halves
  <2>6. f[j] = y \div (2 * p) /\ Bit(w, j) = (y \div p) % 2
    BY <1>5, <2>3, <2>4 DEF Bit
  <2>7. f[j + 1] = y \div TwoTo[Width - (j + 1)]
    BY <2>2, <2>4, <2>5, <2>6
  <2> QED
    BY <2>1, <2>7
<1>6. T = 0 .. Width
  <2> HIDE DEF T
  <2> QED
    BY <1>0, <1>4, <1>5, Induction
<1>7. f[Width] = y \div TwoTo[0]
  <2>1. Width \in T /\ Width - Width = 0
    BY <1>0, <1>6
  <2> QED
    BY <2>1
<1>8. y \div 1 = y
  BY <1>0
<1> QED
  BY <1>1, <1>2, <1>7, <1>8, TwoToEquation DEF Rev

(* v |= ~m0 and rev: the bits above those of the table are ones.           *)
LEMMA RevUnmasked ==
  ASSUME NEW v \in Nat, NEW j \in 0 .. Width
  PROVE  LET s == TwoTo[j]
             u == (TwoTo[Width] - s) + (v % s)
         IN  u \in Nat /\ Rev(u) + 1 = TwoTo[Width - j] * (Bits(v)[j] + 1)
<1>0. Width \in Nat /\ Width - j \in 0 .. Width /\ j <= Width /\ Width \in 0 .. Width
  BY DictAssumption
<1>1. PICK s \in Nat, g \in Nat, n \in Nat : s = TwoTo[j] /\ g = TwoTo[Width - j] /\ n = TwoTo[Width]
                                     /\ n = s * g /\ s > 0 /\ g > 0
  BY ZenonT(60), <1>0, PowerMultiple, TwoToEquation
<1>2. PICK m \in Nat : m = v % s /\ m < s
  BY <1>1, Divides
<1>3. PICK h \in Nat : g = h + 1
  <2>1. g - 1 \in Nat /\ g = (g - 1) + 1
    BY <1>1
  <2> QED
    BY <2>1
<1>4. n = s * h + s
  BY <1>1, <1>3, Z3
<1>5. PICK u \in Nat : u = (n - s) + m /\ u = s * h + m
  <2>1. s * h \in Nat
    BY <1>1, <1>3, Z3
  <2>2. (n - s) + m \in Nat /\ (n - s) + m = s * h + m
    BY <1>1, <1>2, <1>4, <2>1
  <2> QED
    BY <2>2
<1>6. u % s = m
  <2>1. Split(u, s, h, m)
    BY <1>2, <1>3, <1>5 DEF Split
  <2> QED
    BY <1>1, <1>5, <2>1, Division
<1>7. PICK f : f = Bits(u)
  OBVIOUS
<1>8. PICK b \in Nat : b = Bits(v)[j] /\ f[j] = b
  <2>1. u % TwoTo[j] = v % TwoTo[j]
    BY <1>1, <1>2, <1>6
  <2>2. Bits(u)[j] = Bits(v)[j] /\ Bits(v)[j] \in Nat
    BY <1>5, <2>1, BitsIff, BitsEquation
  <2> QED
    BY <1>7, <2>2
<1>9. \A i \in 0 .. Width : i # 0 => f[i] = 2 * f[i - 1] + Bit(u, i - 1)
  BY <1>5, <1>7, BitsEquation
<1>10. ASSUME NEW i \in 0 .. Width, j <= i, i < Width PROVE Bit(u, i) = 1
  <2>1. Width - i \in 0 .. Width /\ Width - i # 0 /\ (Width - i) - 1 \in 0 .. Width
    BY <1>0, <1>10
  <2>2. PICK p \in Nat, q \in Nat, r \in Nat : /\ p = TwoTo[i] /\ q = TwoTo[Width - i] /\ n = p * q /\ p > 0
                                              /\ r = TwoTo[(Width - i) - 1] /\ q = 2 * r /\ r > 0
    <3>1. TwoTo[Width] = TwoTo[i] * TwoTo[Width - i] /\ TwoTo[i] > 0 /\ TwoTo[i] \in Nat
          /\ TwoTo[Width - i] \in Nat
      BY <1>0, <1>10, PowerMultiple
    <3>2. TwoTo[Width - i] = 2 * TwoTo[(Width - i) - 1] /\ TwoTo[(Width - i) - 1] \in Nat
          /\ TwoTo[(Width - i) - 1] > 0
      BY <2>1, TwoToEquation, Powers DEF PowersOfTwo
    <3> QED
      BY <1>1, <3>1, <3>2
  <2>3. p >= s
    <3>1. CASE i = j
      BY <1>1, <2>2, <3>1
    <3>2. CASE j < i
      BY <1>1, <2>2, <3>2, PowerOrder
    <3> QED
      BY <1>10, <3>1, <3>2
  <2>4. PICK c \in Nat : c = q - 1 /\ c = 2 * (r - 1) + 1
    <3>1. q - 1 \in Nat /\ q - 1 = 2 * (r - 1) + 1
      BY <2>2
    <3> QED
      BY <3>1
  <2>5. n = p * c + p
    BY <2>2, <2>4, Z3
  <2>6. PICK e \in Nat : e = u - p * c /\ e < p
    <3>1. PICK pc \in Nat : pc = p * c
      <4>1. p * c \in Nat
        BY <2>2, <2>4, Z3
      <4> QED
        BY <4>1
    <3>2. u - pc \in Nat /\ u - pc < p
      BY <1>1, <1>2, <1>5, <2>2, <2>3, <2>5, <3>1
    <3> QED
      BY <3>1, <3>2
  <2>7. Split(u, p, c, e)
    <3>1. u = p * c + e
      BY <1>5, <2>2, <2>4, <2>6, Z3
    <3> QED
      BY <2>4, <2>6, <3>1 DEF Split
  <2>8. u \div p = c
    BY <1>5, <2>2, <2>7, Division
  <2>9. c % 2 = 1
    <3>1. r - 1 \in Nat
      BY <2>2
    <3> QED
      BY <2>4, <3>1
  <2> QED
    BY <2>2, <2>8, <2>9 DEF Bit
<1> DEFINE T == {k \in 0 .. (Width - j) : f[j + k] + 1 = TwoTo[k] * (b + 1)}
<1>11. T \in SUBSET (0 .. (Width - j)) /\ 0 \in T
  <2>1. 1 * (b + 1) = f[j] + 1 /\ j + 0 = j
    BY <1>0, <1>8
  <2> QED
    BY <1>0, <2>1, TwoToEquation
<1>12. ASSUME NEW k \in T, k < Width - j PROVE k + 1 \in T
  <2>1. /\ k + 1 \in 0 .. (Width - j) /\ k \in 0 .. Width /\ k + 1 \in 0 .. Width /\ k + 1 # 0 /\ (k + 1) - 1 = k
        /\ j + k \in 0 .. Width /\ j + (k + 1) \in 0 .. Width /\ j + (k + 1) # 0 /\ (j + (k + 1)) - 1 = j + k
        /\ j <= j + k /\ j + k < Width
    BY <1>0, <1>12
  <2>2. f[j + (k + 1)] = 2 * f[j + k] + 1
    BY <1>9, <1>10, <2>1
  <2>3. PICK p \in Nat : p = TwoTo[k] /\ TwoTo[k + 1] = 2 * p
    BY <2>1, TwoToEquation
  <2>4. PICK a \in Nat : a = f[j + k]
    BY <1>5, <1>7, <2>1, BitsEquation
  <2>5. a + 1 = p * (b + 1)
    BY <1>12, <2>3, <2>4
  <2>6. (2 * a + 1) + 1 = (2 * p) * (b + 1)
    BY <1>8, <2>3, <2>4, <2>5, Z3
  <2>7. f[j + (k + 1)] + 1 = TwoTo[k + 1] * (b + 1)
    BY <2>2, <2>3, <2>4, <2>6
  <2> QED
    BY <2>1, <2>7
<1>13. T = 0 .. (Width - j)
  <2>1. Width - j \in Nat
    BY <1>0
  <2> HIDE DEF T
  <2> QED
    BY <1>11, <1>12, <2>1, Induction
<1>14. f[Width] + 1 = TwoTo[Width - j] * (b + 1)
  <2>1. Width - j \in T /\ j + (Width - j) = Width
    BY <1>0, <1>13
  <2> QED
    BY <2>1
<1> QED
  BY <1>1, <1>2, <1>5, <1>7, <1>8, <1>14 DEF Rev

(* The first cursor is its own reverse.                                    *)
LEMMA RevZero == Rev(0) = 0
<1>0. Width \in Nat /\ 0 \in Nat
  BY DictAssumption
<1>1. PICK f : f = Bits(0)
  OBVIOUS
<1>2. f[0] = 0 /\ \A j \in 0 .. Width : j # 0 => f[j] = 2 * f[j - 1] + Bit(0, j - 1)
  BY <1>0, <1>1, BitsEquation
<1> DEFINE T == {j \in 0 .. Width : f[j] = 0}
<1>3. T \in SUBSET (0 .. Width) /\ 0 \in T
  BY <1>0, <1>2
<1>4. ASSUME NEW j \in T, j < Width PROVE j + 1 \in T
  <2>1. j + 1 \in 0 .. Width /\ j + 1 # 0 /\ (j + 1) - 1 = j /\ j \in 0 .. Width
    BY <1>0, <1>4
  <2>2. f[j + 1] = 2 * f[j] + Bit(0, j)
    BY <1>2, <2>1
  <2>3. PICK p \in Nat : p = TwoTo[j] /\ p > 0
    BY <2>1, Powers DEF PowersOfTwo
  <2>4. 0 \div p = 0
    BY <2>3, Z3
  <2>5. Bit(0, j) = 0
    BY <2>3, <2>4 DEF Bit
  <2> QED
    BY <1>4, <2>1, <2>2, <2>5
<1>5. T = 0 .. Width
  <2> HIDE DEF T
  <2> QED
    BY <1>0, <1>3, <1>4, Induction
<1> QED
  BY <1>0, <1>1, <1>5 DEF Rev

(* Where the reversed cursor is after bucket v of a table of 2^j.          *)
Past(v, j) == TwoTo[Width - j] * (Bits(v)[j] + 1)

(* The next cursor is the first one past that bucket, 0 if it was the      *)
(* last.                                                                   *)
LEMMA NextCursorRev ==
  ASSUME NEW v \in Nat, NEW j \in 0 .. Width
  PROVE  /\ Past(v, j) \in Nat
         /\ \/ Past(v, j) = TwoTo[Width] /\ NextCursor(v, TwoTo[j]) = 0
            \/ NextCursor(v, TwoTo[j]) # 0 /\ Rev(NextCursor(v, TwoTo[j])) = Past(v, j)
<1>0. Width \in 0 .. Width /\ Width - j \in 0 .. Width
  BY DictAssumption
<1>1. PICK n \in Nat : n = TwoTo[Width] /\ n > 0
  BY Powers
<1>2. PICK u \in Nat : u = (TwoTo[Width] - TwoTo[j]) + (v % TwoTo[j]) /\ Rev(u) + 1 = Past(v, j)
  BY RevUnmasked DEF Past
<1>3. PICK w \in Nat : w = Rev(u) /\ w < n
  BY <1>1, <1>2, RevWord DEF Word
<1>4. Past(v, j) = w + 1 /\ NextCursor(v, TwoTo[j]) = Rev((w + 1) % n)
  BY <1>1, <1>2, <1>3 DEF NextCursor
<1>5. CASE w + 1 = n
  <2>1. Split(n, n, 1, 0)
    BY <1>1 DEF Split
  <2>2. n % n = 0
    BY <1>1, <2>1, Division
  <2> QED
    BY <1>1, <1>4, <1>5, <2>2, RevZero
<1>6. CASE w + 1 < n
  <2>1. PICK y \in Nat : y = w + 1 /\ y # 0 /\ y < n
    BY <1>3, <1>6
  <2>2. Split(y, n, 0, y)
    BY <1>1, <2>1 DEF Split
  <2>3. y % n = y
    BY <1>1, <2>1, <2>2, Division
  <2>4. Rev(Rev(y)) = y
    BY <1>1, <2>1, RevRev DEF Word
  <2>5. Rev(y) # 0
    BY <2>1, <2>4, RevZero
  <2> QED
    BY <1>4, <2>1, <2>3, <2>4, <2>5
<1> QED
  BY <1>1, <1>3, <1>4, <1>5, <1>6

(* A hash between the cursor and the next one belongs to bucket v ...      *)
LEMMA BucketCovers ==
  ASSUME NEW v \in Nat, NEW h \in Nat, NEW j \in 0 .. Width, Rev(h) >= Rev(v), Rev(h) < Past(v, j)
  PROVE  h % TwoTo[j] = v % TwoTo[j] /\ Bits(h)[j] = Bits(v)[j]
<1>1. PICK r : Split(Rev(v), TwoTo[Width - j], Bits(v)[j], r)
  BY RevPrefix
<1>2. PICK g \in Nat, b \in Nat, x \in Nat, y \in Nat :
        /\ g = TwoTo[Width - j] /\ g > 0 /\ b = Bits(v)[j] /\ x = Rev(v) /\ y = Rev(h)
        /\ y \div g = Bits(h)[j]
  <2>1. Width - j \in 0 .. Width /\ Rev(v) \in Nat /\ Rev(h) \in Nat /\ Rev(h) \div TwoTo[Width - j] = Bits(h)[j]
    BY RevPrefix
  <2>2. TwoTo[Width - j] \in Nat /\ TwoTo[Width - j] > 0 /\ Bits(v)[j] \in Nat
    BY <2>1, Powers, BitsEquation DEF PowersOfTwo
  <2> QED
    BY <2>1, <2>2
<1>3. r \in Nat /\ x = g * b + r /\ y >= x /\ y < g * (b + 1)
  BY <1>1, <1>2 DEF Split, Past
<1>4. PICK m \in Nat : m = g * b /\ g * (b + 1) = m + g
  BY <1>2, Z3
<1>5. Split(y, g, b, y - m)
  <2>1. y - m \in Nat /\ y - m < g /\ y = m + (y - m)
    BY <1>2, <1>3, <1>4
  <2> QED
    BY <1>2, <1>4, <2>1 DEF Split
<1>6. y \div g = b
  BY <1>2, <1>5, Division
<1>7. Bits(h)[j] = Bits(v)[j]
  BY <1>2, <1>6
<1> QED
  BY <1>7, BitsIff

(* ... and, in a table twice as large, to a bucket that is not before v.   *)
LEMMA TwiceCovers ==
  ASSUME NEW v \in Nat, NEW h \in Nat, NEW j \in 0 .. Width, j + 1 \in 0 .. Width,
         Rev(h) >= Rev(v), Rev(h) < Past(v, j)
  PROVE  h % TwoTo[j + 1] >= v % TwoTo[j + 1]
<1>1. h % TwoTo[j] = v % TwoTo[j] /\ Bits(h)[j] = Bits(v)[j]
  BY BucketCovers
<1>2. PICK p \in Nat : p = TwoTo[j] /\ p > 0 /\ TwoTo[j + 1] = 2 * p
  <2>1. j + 1 # 0 /\ (j + 1) - 1 = j
    BY DictAssumption
  <2> QED
    BY <2>1, TwoToEquation, Powers DEF PowersOfTwo
<1>3. PICK x \in {0, 1}, y \in {0, 1} : x = Bit(h, j) /\ y = Bit(v, j)
  BY BitIs
<1>4. PICK m \in Nat : m = v % p
  BY <1>2, Divides
<1>5. h % (2 * p) = m + p * x /\ v % (2 * p) = m + p * y
  <2>1. Bit(h, j) = (h \div p) % 2 /\ Bit(v, j) = (v \div p) % 2 /\ h % p = m
    BY <1>1, <1>2, <1>4 DEF Bit
  <2>2. h % (2 * p) = (h % p) + p * ((h \div p) % 2) /\ v % (2 * p) = (v % p) + p * ((v \div p) % 2)
    BY <1>2, Halves
  <2> QED
    BY <1>3, <1>4, <2>1, <2>2
<1>6. CASE x >= y
  <2>1. p * x >= p * y /\ p * x \in Nat /\ p * y \in Nat
    BY <1>2, <1>3, <1>6, Z3
  <2> QED
    BY <1>2, <1>4, <1>5, <2>1
<1>7. CASE x = 0 /\ y = 1
  <2>0. j + 1 # 0 /\ (j + 1) - 1 = j
    BY DictAssumption
  <2>1. PICK b \in Nat : b = Bits(v)[j] /\ Bits(h)[j + 1] = 2 * b /\ Bits(v)[j + 1] = 2 * b + 1
    <3>1. Bits(v)[j] \in Nat
      BY BitsEquation
    <3>2. Bits(h)[j + 1] = 2 * Bits(h)[j] + Bit(h, j) /\ Bits(v)[j + 1] = 2 * Bits(v)[j] + Bit(v, j)
      BY <2>0, BitsEquation
    <3>3. PICK b \in Nat : b = Bits(v)[j]
      BY <3>1
    <3>4. Bits(h)[j + 1] = 2 * b + 0 /\ Bits(v)[j + 1] = 2 * b + 1
      BY <1>1, <1>3, <1>7, <3>2, <3>3
    <3> QED
      BY <3>3, <3>4
  <2>2. PICK q : Split(Rev(h), TwoTo[Width - (j + 1)], Bits(h)[j + 1], q)
    BY RevPrefix
  <2>3. PICK r : Split(Rev(v), TwoTo[Width - (j + 1)], Bits(v)[j + 1], r)
    BY RevPrefix
  <2>4. PICK g \in Nat : g = TwoTo[Width - (j + 1)]
    BY RevPrefix, TwoToEquation
  <2>5. q \in Nat /\ q < g /\ Rev(h) = g * (2 * b) + q /\ r \in Nat /\ Rev(v) = g * (2 * b + 1) + r
    BY <2>1, <2>2, <2>3, <2>4 DEF Split
  <2>6. PICK n \in Nat : n = g * (2 * b) /\ g * (2 * b + 1) = n + g
    BY <2>1, <2>4, Z3
  <2>7. Rev(h) < Rev(v)
    BY <2>4, <2>5, <2>6
  <2>8. Rev(h) \in Nat /\ Rev(v) \in Nat
    BY RevPrefix
  <2> QED
    BY <2>7, <2>8
<1> QED
  BY <1>3, <1>6, <1>7


-----------------------------------------------------------------------------

(* Whatever of the entries still to return has its reversed hash between   *)
(* the cursor and the next one is in a bucket that the call goes through.  *)
LEMMA ScanCovers ==
  ASSUME NEW e, DictOK(e), e.ht[0].used + e.ht[1].used > 0, NEW v \in Nat, ~Skewed(e, v),
         NEW j \in 0 .. Width, TwoTo[j] = e.ht[Small(e)].size,
         NEW k \in All(e), Rev(Hash[k]) >= Rev(v), k \notin Emitted(e, v)
  PROVE  Rev(Hash[k]) >= Past(v, j)
<1>0. k \in Key /\ Hash[k] \in Nat /\ TwoTo[Width] \in Nat
  <2>1. k \in Key
    BY DEF All, Home
  <2> QED
    BY <2>1, DictAssumption, TwoToEquation DEF Word
<1>1. PICK h \in Nat : h = Hash[k]
  BY <1>0
<1>2. Rev(h) \in Nat /\ Past(v, j) \in Nat
  BY RevPrefix, NextCursorRev
<1> SUFFICES ASSUME Rev(h) < Past(v, j) PROVE FALSE
  BY <1>1, <1>2
<1>3. PICK s \in Nat : s = TwoTo[j] /\ s = e.ht[Small(e)].size /\ s > 0
  BY Powers DEF PowersOfTwo
<1>4. h % s = v % s
  BY <1>1, <1>3, BucketCovers
<1>5. PICK a \in {0, 1} : k \in Home(e.ht[a])
  BY DEF All
<1>6. Contains(e.ht[a].table[h % e.ht[a].size], k)
  BY <1>1, <1>5 DEF Home, Bucket
<1>7. k \in ToSet(e.ht[a].table[h % e.ht[a].size])
  <2>1. PICK c : c = e.ht[a].table[h % e.ht[a].size]
    OBVIOUS
  <2>2. c \in Seq(Key)
    <3>1. h % e.ht[a].size \in Slots(e.ht[a]) /\ TableOK(e.ht[a])
      BY <1>0, <1>1, <1>5, SlotOf DEF DictOK, Home
    <3> QED
      BY <2>1, <3>1 DEF TableOK
  <2> QED
    BY <1>6, <2>1, <2>2 DEF Contains, ToSet
<1>8. CASE a = Small(e)
  BY <1>3, <1>4, <1>7, <1>8 DEF Emitted
<1>9. CASE a # Small(e)
  <2>1. IsRehashing(e)
    <3> SUFFICES ASSUME ~IsRehashing(e) PROVE FALSE
      OBVIOUS
    <3>1. Small(e) = 0
      BY DEF Small
    <3>2. a = 1 /\ e.ht[1] = Reset
      BY <1>5, <1>9, <3>1 DEF DictOK
    <3> QED
      BY <1>5, <3>2, ResetOK
  <2>2. a = Big(e) /\ Small(e) \in {0, 1} /\ Big(e) = 1 - Small(e) /\ e.ht[a].size \in PowersOfTwo
    BY <1>9, <2>1, SmallTable
  <2>3. PICK i \in 0 .. Width : TwoTo[i] = e.ht[a].size
    BY <2>2 DEF PowersOfTwo
  <2>4. PICK b \in Nat : b = TwoTo[i] /\ b = e.ht[a].size /\ b > 0
    BY <2>3, Powers DEF PowersOfTwo
  <2>5. s <= b
    <3>1. e.ht[0].size \in Nat /\ e.ht[1].size \in Nat
      BY CountsNat
    <3> QED
      BY <1>3, <1>9, <2>1, <2>2, <2>4, <3>1 DEF Small
  <2>6. j <= i
    <3> SUFFICES ASSUME i < j PROVE FALSE
      BY DictAssumption
    <3>1. s >= 2 * b
      BY <1>3, <2>4, PowerOrder
    <3> QED
      BY <1>3, <2>4, <2>5, <3>1
  <2>7. PICK m \in Nat : m > 0 /\ b = s * m
    <3>1. TwoTo[i] = TwoTo[j] * TwoTo[i - j] /\ TwoTo[i - j] \in Nat /\ TwoTo[i - j] > 0
      BY <2>6, PowerMultiple
    <3>2. PICK m \in Nat : m = TwoTo[i - j] /\ m > 0
      BY <3>1
    <3> QED
      BY <1>3, <2>4, <3>1, <3>2
  <2>8. /\ (h % b) % s = h % s /\ (v % b) % s = v % s
        /\ h % b \in Nat /\ h % b < b /\ v % b \in Nat /\ v % b < b /\ v % s \in Nat
    <3>1. (h % (s * m)) % s = h % s /\ (v % (s * m)) % s = v % s
      BY <1>3, <2>7, ModMod
    <3>2. h % b \in Nat /\ h % b < b /\ v % b \in Nat /\ v % b < b /\ v % s \in Nat
      BY <1>3, <2>4, Divides
    <3> QED
      BY <2>7, <3>1, <3>2
  <2>9. h % b >= v % b
    <3>1. CASE v % b < s
      <4>1. PICK y \in Nat : y = v % b /\ y < s
        BY <2>8, <3>1
      <4>2. Split(y, s, 0, y)
        BY <1>3, <4>1 DEF Split
      <4>3. y % s = y
        BY <1>3, <4>1, <4>2, Division
      <4>4. PICK x \in Nat : x = h % b
        BY <2>8
      <4>5. x % s = y
        BY <1>4, <2>8, <4>1, <4>3, <4>4
      <4>6. x % s <= x
        <5>1. x % s \in Nat /\ x \div s \in Nat /\ x = s * (x \div s) + (x % s) /\ s * (x \div s) >= 0
          BY <1>3, <4>4, Divides, Z3
        <5> QED
          BY <5>1, Z3
      <4> QED
        BY <4>1, <4>4, <4>5, <4>6
    <3>2. CASE v % b >= s
      <4>1. ~(b > 2 * s)
        BY <1>3, <2>1, <2>2, <2>4, <3>2 DEF Skewed
      <4>2. i # j
        <5> SUFFICES ASSUME i = j PROVE FALSE
          OBVIOUS
        <5>1. b = s
          BY <1>3, <2>4
        <5>2. v % b < b /\ v % b \in Nat
          BY <2>8
        <5> QED
          BY <1>3, <2>4, <3>2, <5>1, <5>2
      <4>3. i = j + 1
        <5> SUFFICES ASSUME i # j + 1 PROVE FALSE
          OBVIOUS
        <5>1. j < i
          BY <2>6, <4>2
        <5>2. b >= 4 * s
          BY <1>3, <2>4, <5>1, PowerOrder
        <5> QED
          BY <1>3, <2>4, <4>1, <5>2
      <4> QED
        BY <1>1, <2>4, <4>3, TwiceCovers
    <3> QED
      BY <1>3, <2>8, <3>1, <3>2
  <2>10. h % b \in Expansions(v, s, b)
    BY <1>4, <2>4, <2>8, <2>9 DEF Expansions
  <2> QED
    BY <1>3, <1>7, <2>1, <2>2, <2>4, <2>10 DEF Emitted
<1> QED
  BY <1>8, <1>9

(* What a scan has to return still is there, and its reversed hashes are   *)
(* not before the reversed cursor.                                         *)
ScanInv ==
  /\ scan.todo \subseteq Entries
  /\ scan.skewed \/ IF scan.v = 0 THEN scan.todo = {}
                    ELSE \A k \in scan.todo : Rev(Hash[k]) >= Rev(scan.v)

(* A call of dictScan.                                                     *)
LEMMA ScanInvScan ==
  ASSUME DictInv, ScanType, ScanInv, DictScan
  PROVE  ScanInv'
<1>0. scan \in ScanRec /\ scan.v \in Nat /\ Entries' = Entries /\ scan.skewed \in BOOLEAN /\ Entries \subseteq Key
  BY DEF ScanType, ScanRec, Word, DictScan, Entries
<1>1. CASE d.ht[0].used + d.ht[1].used = 0
  <2>1. scan' = [scan EXCEPT !.v = 0]
    BY <1>1 DEF DictScan
  <2>2. scan'.v = 0 /\ scan'.todo = scan.todo
    BY <1>0, <2>1 DEF ScanRec
  <2>3. Entries = {}
    <3>1. d.ht[0].used = 0 /\ d.ht[1].used = 0
      BY <1>1, CountsNat DEF DictInv
    <3>2. Cardinality(Home(d.ht[0])) = 0 /\ Cardinality(Home(d.ht[1])) = 0
      BY <3>1 DEF DictInv, DictOK, TableOK
    <3>3. Home(d.ht[0]) = {} /\ Home(d.ht[1]) = {}
      BY <3>2, HomeFinite, FS_EmptySet
    <3> QED
      BY <3>3 DEF DictInv, All
  <2> QED
    BY <1>0, <2>2, <2>3 DEF ScanInv
<1>2. CASE d.ht[0].used + d.ht[1].used # 0
  <2>1. d.ht[0].used + d.ht[1].used > 0 /\ DictOK(d) /\ All(d) = Entries
    BY <1>2, CountsNat DEF DictInv
  <2> DEFINE size == d.ht[Small(d)].size
             before == IF scan.v = 0 THEN Entries ELSE scan.todo
             after == before \ Emitted(d, scan.v)
             skewed == (scan.v # 0 /\ scan.skewed) \/ Skewed(d, scan.v)
  <2>2. scan' = [v |-> NextCursor(scan.v, size), todo |-> after, skewed |-> skewed]
    BY <1>2 DEF DictScan, Advance
  <2>3. PICK j \in 0 .. Width : TwoTo[j] = size
    BY <2>1, SmallTable DEF PowersOfTwo
  <2>4. PICK v \in Nat : v = scan.v
    BY <1>0
  <2>5. before \subseteq Entries
    BY DEF ScanInv
  <2> HIDE DEF size
  <2>6. scan'.v = NextCursor(v, TwoTo[j]) /\ scan'.todo = after /\ scan'.skewed = skewed
    BY <2>2, <2>3, <2>4
  <2>7. CASE skewed
    BY <1>0, <2>5, <2>6, <2>7 DEF ScanInv
  <2>8. CASE ~skewed
    <3>1. ~Skewed(d, v) /\ (v # 0 => ~scan.skewed)
      BY <2>4, <2>8
    <3>2. ASSUME NEW k \in before PROVE Rev(Hash[k]) >= Rev(v)
      <4>1. CASE v = 0
        <5>1. Hash[k] \in Nat
          BY <1>0, <2>5, DictAssumption DEF Word
        <5>2. Rev(Hash[k]) \in Nat
          BY <5>1, RevWord DEF Word
        <5> QED
          BY <4>1, <5>2, RevZero
      <4>2. CASE v # 0
        BY <2>4, <3>1, <4>2 DEF ScanInv
      <4> QED
        BY <4>1, <4>2
    <3>3. ASSUME NEW k \in after PROVE Rev(Hash[k]) >= Past(v, j)
      <4>1. k \in All(d) /\ k \notin Emitted(d, v) /\ Rev(Hash[k]) >= Rev(v)
        BY <2>1, <2>4, <2>5, <3>2
      <4> QED
        BY <2>1, <2>3, <3>1, <4>1, ScanCovers DEF size
    <3>4. CASE Past(v, j) = TwoTo[Width] /\ scan'.v = 0
      <4>1. \A k \in Key : Rev(Hash[k]) < TwoTo[Width] /\ Rev(Hash[k]) \in Nat /\ TwoTo[Width] \in Nat
        BY RevWord, DictAssumption, TwoToEquation DEF Word
      <4>2. after = {}
        BY <1>0, <2>5, <3>3, <3>4, <4>1
      <4> QED
        BY <1>0, <2>6, <3>4, <4>2 DEF ScanInv
    <3>5. CASE scan'.v # 0 /\ Rev(scan'.v) = Past(v, j)
      BY <1>0, <2>5, <2>6, <3>3, <3>5 DEF ScanInv
    <3> QED
      BY <2>6, <3>4, <3>5, NextCursorRev
  <2> QED
    BY <2>7, <2>8
<1> QED
  BY <1>1, <1>2

(* The other calls do not touch the cursor, and delete nothing that the    *)
(* scan must return.                                                       *)
LEMMA ScanInvStep ==
  ASSUME DictInv, ScanType, ScanInv, [Next]_vars
  PROVE  ScanInv'
<1>0. scan \in ScanRec /\ val \in [Key -> Val \cup {NULL}]
  BY DEF ScanType, DictInv
<1>1. ASSUME scan' = scan, Entries \subseteq Entries' PROVE ScanInv'
  BY <1>1 DEF ScanInv
<1>2. ASSUME NEW K, Forget(K), Entries \ K \subseteq Entries' PROVE ScanInv'
  <2>1. scan' = [scan EXCEPT !.todo = @ \ K]
    BY <1>2 DEF Forget
  <2>2. scan'.v = scan.v /\ scan'.skewed = scan.skewed /\ scan'.todo = scan.todo \ K
    BY <1>0, <2>1 DEF ScanRec
  <2> QED
    BY <1>2, <2>2 DEF ScanInv
<1>3. ASSUME NEW k \in Key, NEW v \in Val,
             DictAdd(k, v) \/ DictReplace(k, v) \/ DictReplaceRaw(k, v)
      PROVE  ScanInv'
  <2>1. scan' = scan /\ (val' = val \/ val' = [val EXCEPT ![k] = v])
    BY <1>3 DEF DictAdd, DictReplace, DictReplaceRaw
  <2>2. v # NULL
    BY DictAssumption
  <2>3. Entries \subseteq Entries'
    BY <1>0, <2>1, <2>2 DEF Entries
  <2> QED
    BY <1>1, <2>1, <2>3
<1>4. ASSUME NEW k \in Key, DictDelete(k) PROVE ScanInv'
  <2>1. CASE val' = val /\ scan' = scan
    BY <1>1, <2>1 DEF Entries
  <2>2. CASE val' = [val EXCEPT ![k] = NULL] /\ Forget({k})
    <3>1. Entries \ {k} \subseteq Entries'
      BY <1>0, <2>2 DEF Entries
    <3> QED
      BY <1>2, <2>2, <3>1
  <2> QED
    BY <1>4, <2>1, <2>2 DEF DictDelete
<1>5. CASE DictEmpty
  <2>1. Forget(Key) /\ Entries \ Key \subseteq Entries'
    BY <1>5 DEF DictEmpty, Entries
  <2> QED
    BY <1>2, <2>1
<1>6. CASE DictRelease
  BY <1>6 DEF DictRelease, ScanInv
<1>7. CASE Lookup \/ Tune \/ UNCHANGED vars
  <2>1. scan' = scan /\ val' = val
    BY <1>7 DEF Lookup, Tune, DictFind, DictGetRandomKey, DictExpand, DictRehash, DictResize,
                DictSwitchResize, vars
  <2> QED
    BY <1>1, <2>1 DEF Entries
<1>8. ASSUME NEW i \in Iter, Iterate(i) PROVE ScanInv'
  BY <1>1, <1>8, IterateCounts DEF Entries
<1> QED
  BY <1>3, <1>4, <1>5, <1>6, <1>7, <1>8, ScanInvScan DEF Next, Update

(* Theorem for ScanCompleteUnlessSkewed: for every width of a word, every  *)
(* hash function and every sequence of resizings, rehashings and updates   *)
(* between its calls, a scan returns every entry that is there from its    *)
(* start to its end, unless the tables differ by more than a factor of two *)
(* when it is called with a cursor of a larger one.                        *)
THEOREM ScanCompleteAlways == Spec => []ScanCompleteUnlessSkewed
<1>1. Init => ScanInv
  BY DEF Init, ScanInv
<1>2. DictInv /\ ScanType /\ ScanInv /\ [Next]_vars => ScanInv'
  BY ScanInvStep
<1>3. ScanInv => ScanCompleteUnlessSkewed
  BY DEF ScanInv, ScanCompleteUnlessSkewed
<1> QED
  BY <1>1, <1>2, <1>3, TablesHoldEntries, ScanTypes, PTL DEF Spec
============================================================================
