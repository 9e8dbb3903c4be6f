--------------------------- MODULE AdaptersProofs ---------------------------
(***************************************************************************)
(* Proofs about Adapters, for any keys, hash function, initial size and    *)
(* threshold: the table of uthash.c stays consistent and keeps its bound   *)
(* on the chains through every insertion, expansion, removal and clear.    *)
(***************************************************************************)
EXTENDS Adapters, Iteration, FiniteSetTheorems, TLAPS

-----------------------------------------------------------------------------
(* Arithmetic.                                                             *)

(* Division.                                                               *)
LEMMA Euclid ==
  ASSUME NEW a \in Nat, NEW n \in Nat \ {0}
  PROVE  a \div n \in Nat /\ a % n \in 0 .. n - 1 /\ a = n * (a \div n) + (a % n)
<1>1. a \div n \in Int /\ a % n \in Int /\ 0 <= a % n /\ a % n < n
  BY Z3
<1>2. a = n * (a \div n) + (a % n)
  BY Z3
<1>3. a \div n >= 0
  BY Z3
<1> QED
  BY <1>1, <1>2, <1>3

(* The remainder is determined.                                            *)
LEMMA Unique ==
  ASSUME NEW n \in Nat \ {0}, NEW q \in Int, NEW r \in 0 .. n - 1, NEW p \in Int, NEW s \in 0 .. n - 1,
         n * q + r = n * p + s
  PROVE  r = s
OBVIOUS

(* A bucket of a table twice as large is split off one of the old buckets. *)
LEMMA Halved ==
  ASSUME NEW h \in Nat, NEW n \in Nat \ {0}, NEW m, m = 2 * n
  PROVE  (h % m) % n = h % n
<1>0. m \in Nat \ {0}
  OBVIOUS
<1>1. PICK q, r \in Int : r = h % n /\ q = h \div n /\ h = n * q + r /\ r \in 0 .. n - 1
  BY Euclid
<1>10. h \div m \in Nat /\ h % m \in 0 .. m - 1 /\ h = m * (h \div m) + (h % m)
  BY <1>0, Euclid, Zenon
<1>2. PICK p, s \in Int : s = h % m /\ p = h \div m /\ h = m * p + s /\ s \in 0 .. m - 1
  BY <1>0, <1>10
<1>3. s \in Nat
  BY <1>0, <1>2
<1>5. PICK u, v \in Int : v = s % n /\ u = s \div n /\ s = n * u + v /\ v \in 0 .. n - 1
  BY <1>3, Euclid
<1>7. h = n * (2 * p + u) + v
  <2>1. h = (2 * n) * p + (n * u + v)
    BY <1>0, <1>2, <1>5
  <2>2. (2 * n) * p = n * (2 * p) /\ n * (2 * p + u) = n * (2 * p) + n * u
    BY Z3
  <2> QED
    BY <2>1, <2>2
<1>8. PICK w \in Int : w = 2 * p + u
  OBVIOUS
<1>9. r = v
  <2>1. n * q + r = n * w + v
    BY <1>1, <1>5, <1>7, <1>8
  <2> QED
    BY <1>1, <1>5, <2>1, Unique, Zenon
<1> QED
  BY <1>1, <1>2, <1>5, <1>9, Zenon

(* The ideal length of the chains is at least 1.                           *)
LEMMA Ideal ==
  ASSUME NEW a \in Nat \ {0}, NEW n \in Nat \ {0}
  PROVE  a \div n + (IF a % n = 0 THEN 0 ELSE 1) \in Nat \ {0}
<1>1. PICK q \in Nat, r \in 0 .. n - 1 : q = a \div n /\ r = a % n /\ a = n * q + r
  BY Euclid
<1>2. q = 0 => a = r
  BY <1>1
<1>3. q + (IF r = 0 THEN 0 ELSE 1) \in Nat \ {0}
  BY <1>1, <1>2
<1> QED
  BY <1>1, <1>3
(* The bound on a chain: count is at most mult + 1 times limit.            *)
Within(count, mult, limit) == count <= (mult + 1) * limit

(* A bound for fewer elements is one for more.                             *)
LEMMA Widens ==
  ASSUME NEW c \in Nat, NEW m \in Nat, NEW a \in Nat, NEW b \in Nat, a <= b, Within(c, m, a)
  PROVE  Within(c, m, b)
<1>1. (m + 1) * a <= (m + 1) * b
  BY Z3
<1>2. (m + 1) * a \in Int /\ (m + 1) * b \in Int
  OBVIOUS
<1> QED
  BY <1>1, <1>2 DEF Within

(* A shorter chain is within the bound as well.                            *)
LEMMA Narrows ==
  ASSUME NEW c \in Nat, NEW d \in Nat, NEW m \in Nat, NEW a \in Nat, d <= c, Within(c, m, a)
  PROVE  Within(d, m, a)
<1>1. (m + 1) * a \in Int
  OBVIOUS
<1> QED
  BY <1>1 DEF Within

(* The multiple that HASH_EXPAND_BUCKETS allows a chain is enough for it.  *)
LEMMA Multiple ==
  ASSUME NEW c \in Nat, NEW n \in Nat \ {0}
  PROVE  LET m == IF c > n THEN c \div n ELSE 0 IN m \in Nat /\ Within(c, m, n)
<1>1. PICK q \in Nat, r \in 0 .. n - 1 : q = c \div n /\ c = n * q + r
  BY Euclid
<1>2. n * q + r <= (q + 1) * n
  BY Z3
<1>3. Within(c, q, n)
  BY <1>1, <1>2 DEF Within
<1>4. c <= n => Within(c, 0, n)
  BY DEF Within
<1> QED
  BY <1>1, <1>3, <1>4

-----------------------------------------------------------------------------
(* Lists of different keys.                                                *)

List(c) == c \in Seq(Key) /\ \A x, y \in 1 .. Len(c) : c[x] = c[y] => x = y
Elements(c) == {c[x] : x \in 1 .. Len(c)}

(* A new first element.                                                    *)
LEMMA PushList ==
  ASSUME NEW c, List(c), NEW k \in Key, k \notin Elements(c)
  PROVE  /\ List(<<k>> \o c) /\ Elements(<<k>> \o c) = Elements(c) \cup {k}
         /\ Len(<<k>> \o c) = Len(c) + 1 /\ Len(c) \in Nat
<1> DEFINE e == <<k>> \o c
<1>1. /\ e \in Seq(Key) /\ Len(e) = Len(c) + 1 /\ Len(c) \in Nat
      /\ e[1] = k /\ \A x \in 2 .. Len(c) + 1 : e[x] = c[x - 1]
  BY DEF List
<1>2. \A x \in 1 .. Len(c) : c[x] # k /\ x + 1 \in 2 .. Len(c) + 1 /\ e[x + 1] = c[x]
  BY <1>1 DEF Elements
<1> HIDE DEF e
<1>3. \A x \in 1 .. Len(e) : x = 1 \/ (x - 1 \in 1 .. Len(c) /\ e[x] = c[x - 1])
  BY <1>1
<1>4. ASSUME NEW x \in 1 .. Len(e), NEW y \in 1 .. Len(e), e[x] = e[y] PROVE x = y
  <2>1. CASE x = 1
    BY <1>1, <1>2, <1>3, <1>4, <2>1
  <2>2. CASE y = 1
    BY <1>1, <1>2, <1>3, <1>4, <2>2
  <2>3. CASE x # 1 /\ y # 1
    <3>1. x - 1 \in 1 .. Len(c) /\ y - 1 \in 1 .. Len(c) /\ c[x - 1] = c[y - 1]
      BY <1>3, <1>4, <2>3
    <3>2. x - 1 = y - 1
      BY <3>1 DEF List
    <3> QED
      BY <1>1, <3>2
  <2> QED
    BY <2>1, <2>2, <2>3
<1>5. Elements(e) = Elements(c) \cup {k}
  <2>1. 1 \in 1 .. Len(e)
    BY <1>1
  <2>2. \A x \in 1 .. Len(c) : x + 1 \in 1 .. Len(e)
    BY <1>1
  <2>3. Elements(e) \subseteq Elements(c) \cup {k}
    BY <1>1, <1>3 DEF Elements
  <2>4. Elements(c) \cup {k} \subseteq Elements(e)
    BY <1>1, <1>2, <2>1, <2>2 DEF Elements
  <2> QED
    BY <2>3, <2>4
<1>6. List(e)
  BY <1>1, <1>4 DEF List
<1> QED
  BY <1>1, <1>5, <1>6 DEF e

(* A new last element.                                                     *)
LEMMA AppendList ==
  ASSUME NEW c, List(c), NEW k \in Key, k \notin Elements(c)
  PROVE  /\ List(Append(c, k)) /\ Elements(Append(c, k)) = Elements(c) \cup {k}
         /\ Len(Append(c, k)) = Len(c) + 1 /\ Len(c) \in Nat
<1> DEFINE e == Append(c, k)
<1>1. /\ e \in Seq(Key) /\ Len(e) = Len(c) + 1 /\ Len(c) \in Nat
      /\ e[Len(c) + 1] = k /\ \A x \in 1 .. Len(c) : e[x] = c[x]
  BY DEF List
<1>2. \A x \in 1 .. Len(c) : c[x] # k
  BY DEF Elements
<1> HIDE DEF e
<1>3. \A x \in 1 .. Len(e) : x = Len(c) + 1 \/ x \in 1 .. Len(c)
  BY <1>1
<1>4. ASSUME NEW x \in 1 .. Len(e), NEW y \in 1 .. Len(e), e[x] = e[y] PROVE x = y
  <2>1. CASE x = Len(c) + 1
    BY <1>1, <1>2, <1>3, <1>4, <2>1
  <2>2. CASE y = Len(c) + 1
    BY <1>1, <1>2, <1>3, <1>4, <2>2
  <2>3. CASE x \in 1 .. Len(c) /\ y \in 1 .. Len(c)
    BY <1>1, <1>4, <2>3 DEF List
  <2> QED
    BY <1>3, <2>1, <2>2, <2>3
<1>5. Elements(e) = Elements(c) \cup {k}
  <2>1. Len(c) + 1 \in 1 .. Len(e) /\ \A x \in 1 .. Len(c) : x \in 1 .. Len(e)
    BY <1>1
  <2> QED
    BY <1>1, <1>3, <2>1 DEF Elements
<1>6. List(e)
  BY <1>1, <1>4 DEF List
<1> QED
  BY <1>1, <1>5, <1>6 DEF e

(* RemoveAt closes the gap.                                                *)
LEMMA Removed ==
  ASSUME NEW c \in Seq(Key), NEW i \in 1 .. Len(c)
  PROVE  /\ RemoveAt(c, i) \in Seq(Key) /\ Len(RemoveAt(c, i)) = Len(c) - 1
         /\ \A x \in 1 .. Len(c) - 1 : RemoveAt(c, i)[x] = IF x < i THEN c[x] ELSE c[x + 1]
<1> DEFINE f == SubSeq(c, 1, i - 1)
           g == SubSeq(c, i + 1, Len(c))
<1>1. /\ f \in Seq(Key) /\ Len(f) = i - 1 /\ \A x \in 1 .. i - 1 : f[x] = c[x]
  OBVIOUS
<1>2. /\ g \in Seq(Key) /\ Len(g) = Len(c) - i /\ \A x \in 1 .. Len(c) - i : g[x] = c[x + i]
  OBVIOUS
<1> HIDE DEF f, g
<1>3. f \o g \in Seq(Key) /\ Len(f \o g) = Len(c) - 1
  BY <1>1, <1>2
<1>4. ASSUME NEW x \in 1 .. Len(c) - 1 PROVE (f \o g)[x] = IF x < i THEN c[x] ELSE c[x + 1]
  <2>1. CASE x < i
    BY <1>1, <1>2, <2>1
  <2>2. CASE ~(x < i)
    <3>1. x - (i - 1) \in 1 .. Len(c) - i /\ (x - (i - 1)) + i = x + 1
      BY <2>2
    <3>2. (f \o g)[x] = g[x - (i - 1)]
      BY <1>1, <1>2, <2>2
    <3> QED
      BY <1>2, <2>2, <3>1, <3>2
  <2> QED
    BY <2>1, <2>2
<1> QED
  BY <1>3, <1>4 DEF RemoveAt, f, g

(* An element that leaves its list takes no other with it.                 *)
LEMMA DropList ==
  ASSUME NEW c, List(c), NEW k \in Elements(c)
  PROVE  /\ List(RemoveFirst(c, k)) /\ Elements(RemoveFirst(c, k)) = Elements(c) \ {k}
         /\ Len(RemoveFirst(c, k)) = Len(c) - 1 /\ Len(c) \in Nat \ {0}
<1>0. PICK i \in 1 .. Len(c) : c[i] = k
  BY DEF Elements
<1> DEFINE e == RemoveAt(c, i)
<1>1. /\ c \in Seq(Key) /\ e \in Seq(Key) /\ Len(e) = Len(c) - 1 /\ Len(c) \in Nat
      /\ \A x \in 1 .. Len(c) - 1 : e[x] = IF x < i THEN c[x] ELSE c[x + 1]
  BY Removed DEF List
<1>2. RemoveFirst(c, k) = e
  <2> DEFINE I == {x \in 1 .. Len(c) : c[x] = k}
  <2>1. I = {i}
    BY <1>0 DEF List
  <2>2. Min(I) = i
    BY <2>1 DEF Min
  <2>3. SelectInSeq(c, LAMBDA v : v = k) = i
    BY <2>1, <2>2 DEF SelectInSeq
  <2> QED
    BY <1>0, <2>3 DEF RemoveFirst
<1> HIDE DEF e
<1> DEFINE Old(x) == IF x < i THEN x ELSE x + 1
<1>3. \A x \in 1 .. Len(e) : Old(x) \in 1 .. Len(c) /\ Old(x) # i /\ e[x] = c[Old(x)]
  BY <1>1
<1>4. \A x, y \in 1 .. Len(e) : Old(x) = Old(y) => x = y
  BY <1>1
<1>5. \A z \in 1 .. Len(c) : z # i => \E x \in 1 .. Len(e) : Old(x) = z
  <2> SUFFICES ASSUME NEW z \in 1 .. Len(c), z # i PROVE \E x \in 1 .. Len(e) : Old(x) = z
    OBVIOUS
  <2>1. CASE z < i
    <3>1. z \in 1 .. Len(e) /\ Old(z) = z
      BY <1>1, <2>1
    <3> QED
      BY <3>1
  <2>2. CASE ~(z < i)
    <3>1. z - 1 \in 1 .. Len(e) /\ Old(z - 1) = z
      BY <1>1, <2>2
    <3> QED
      BY <3>1
  <2> QED
    BY <2>1, <2>2
<1> HIDE DEF Old
<1>6. List(e)
  <2> SUFFICES ASSUME NEW x \in 1 .. Len(e), NEW y \in 1 .. Len(e), e[x] = e[y] PROVE x = y
    BY <1>1 DEF List
  <2>1. Old(x) = Old(y)
    BY <1>3 DEF List
  <2> QED
    BY <1>4, <2>1
<1>7. Elements(e) \subseteq Elements(c) \ {k}
  <2> SUFFICES ASSUME NEW x \in 1 .. Len(e) PROVE e[x] \in Elements(c) /\ e[x] # k
    BY DEF Elements
  <2>1. Old(x) \in 1 .. Len(c) /\ Old(x) # i /\ e[x] = c[Old(x)]
    BY <1>3
  <2> QED
    BY <1>0, <2>1 DEF Elements, List
<1>8. Elements(c) \ {k} \subseteq Elements(e)
  <2> SUFFICES ASSUME NEW z \in 1 .. Len(c), c[z] # k PROVE c[z] \in Elements(e)
    BY DEF Elements
  <2>1. PICK x \in 1 .. Len(e) : Old(x) = z
    BY <1>0, <1>5
  <2> QED
    BY <1>3, <2>1 DEF Elements
<1>9. Len(c) # 0
  BY <1>0, <1>1
<1> QED
  BY <1>1, <1>2, <1>6, <1>7, <1>8, <1>9

(* A list is as long as it has elements.                                   *)
LEMMA ListCount ==
  ASSUME NEW c, List(c)
  PROVE  IsFiniteSet(Elements(c)) /\ Cardinality(Elements(c)) = Len(c)
<1>1. Len(c) \in Nat
  BY DEF List
<1>2. c \in Bijection(1 .. Len(c), Elements(c))
  <2>1. c \in [1 .. Len(c) -> Elements(c)]
    BY DEF List, Elements
  <2>2. IsInjective(c)
    BY <2>1 DEF List, IsInjective
  <2>3. \A y \in Elements(c) : \E x \in 1 .. Len(c) : c[x] = y
    BY DEF Elements
  <2> QED
    BY <2>1, <2>2, <2>3 DEF Bijection, Injection, Surjection
<1>3. IsFiniteSet(1 .. Len(c)) /\ Cardinality(1 .. Len(c)) = Len(c)
  BY SMTT(40), <1>1, FS_Interval
<1>4. ExistsBijection(1 .. Len(c), Elements(c))
  BY <1>2 DEF ExistsBijection
<1> QED
  BY <1>3, <1>4, FS_Bijection

-----------------------------------------------------------------------------
(* The loops of uthash.h over buckets and chains.                          *)

(* Total is defined by its equation.                                       *)
SumOf(f, n, s) ==
  s \in [0 .. n -> Nat] /\ \A i \in 0 .. n : s[i] = IF i = 0 THEN 0 ELSE s[i - 1] + f[i - 1]

(* The loop that Total stands for.                                         *)
LEMMA TotalEquation ==
  ASSUME NEW n \in Nat, NEW f \in [0 .. n - 1 -> Nat]
  PROVE  \E s : SumOf(f, n, s) /\ Ut!Total(f, n) = s[n]
<1> DEFINE F == [i \in 1 .. n |-> [x \in Nat |-> x + f[i - 1]]]
           E(s) == s = [i \in 0 .. n |-> IF i = 0 THEN 0 ELSE s[i - 1] + f[i - 1]]
<1>1. ASSUME NEW i \in 1 .. n PROVE f[i - 1] \in Nat
  <2>1. i - 1 \in 0 .. n - 1
    OBVIOUS
  <2> QED
    BY <2>1
<1>2. F \in [1 .. n -> [Nat -> Nat]]
  BY <1>1
<1>3. PICK g : Iterated(n, Nat, 0, F, g)
  <2> HIDE DEF F
  <2> QED
    BY <1>2, Iterates
<1>4. ASSUME NEW i \in 0 .. n PROVE g[i] = IF i = 0 THEN 0 ELSE g[i - 1] + f[i - 1]
  <2>1. CASE i = 0
    BY <1>3, <2>1 DEF Iterated
  <2>2. CASE i # 0
    <3>1. i \in 1 .. n /\ i - 1 \in 0 .. n
      BY <2>2
    <3>2. g[i - 1] \in Nat /\ g[i] = F[i][g[i - 1]]
      <4> HIDE DEF F
      <4> QED
        BY <1>3, <2>2, <3>1 DEF Iterated
    <3>3. F[i] = [x \in Nat |-> x + f[i - 1]]
      BY <3>1
    <3> HIDE DEF F
    <3>4. g[i] = g[i - 1] + f[i - 1]
      BY <3>2, <3>3
    <3> QED
      BY <2>2, <3>4
  <2> QED
    BY <2>1, <2>2
<1> HIDE DEF F
<1>5. E(g)
  BY <1>3, <1>4 DEF Iterated
<1>6. PICK s : s = CHOOSE h : E(h)
  OBVIOUS
<1>7. E(s)
  BY <1>5, <1>6
<1>8. Ut!Total(f, n) = s[n]
  BY <1>6 DEF Ut!Total
<1>9. s = g
  <2> DEFINE T == {i \in 0 .. n : s[i] = g[i]}
  <2>1. \A i \in 0 .. n : s[i] = IF i = 0 THEN 0 ELSE s[i - 1] + f[i - 1]
    BY <1>7
  <2>2. T \in SUBSET (0 .. n) /\ 0 \in T
    BY <1>4, <2>1
  <2>3. ASSUME NEW i \in T, i < n PROVE i + 1 \in T
    <3>1. i + 1 \in 0 .. n /\ i + 1 # 0 /\ (i + 1) - 1 = i
      BY <2>2, <2>3
    <3> QED
      BY <1>4, <2>1, <3>1
  <2>4. T = 0 .. n
    <3> HIDE DEF T
    <3> QED
      BY <2>2, <2>3, Induction
  <2>5. \A i \in 0 .. n : s[i] = g[i]
    BY <2>4
  <2> QED
    BY <1>3, <1>7, <2>5 DEF Iterated
<1>10. SumOf(f, n, s)
  BY <1>3, <1>4, <1>9 DEF SumOf, Iterated
<1> QED
  BY <1>8, <1>10

(* The buckets count every element once.                                   *)
LEMMA TotalCounts ==
  ASSUME NEW E, IsFiniteSet(E), NEW n \in Nat, NEW h \in [E -> 0 .. n - 1],
         NEW f \in [0 .. n - 1 -> Nat],
         \A b \in 0 .. n - 1 : f[b] = Cardinality({k \in E : h[k] = b})
  PROVE  Ut!Total(f, n) = Cardinality(E)
<1> DEFINE Low(i) == {k \in E : h[k] < i}
<1>0. \A k \in E : h[k] \in Nat /\ 0 <= h[k] /\ h[k] < n
  <2> SUFFICES ASSUME NEW k \in E PROVE h[k] \in Nat /\ 0 <= h[k] /\ h[k] < n
    OBVIOUS
  <2>1. h[k] \in 0 .. n - 1
    OBVIOUS
  <2> QED
    BY <2>1
<1>1. PICK s : SumOf(f, n, s) /\ Ut!Total(f, n) = s[n]
  BY TotalEquation
<1> DEFINE T == {i \in 0 .. n : s[i] = Cardinality(Low(i))}
<1>2. T \in SUBSET (0 .. n)
  OBVIOUS
<1>3. 0 \in T
  <2>1. Low(0) = {}
    BY <1>0
  <2> QED
    <3>1. 0 \in 0 .. n /\ s[0] = 0
      BY <1>1 DEF SumOf
    <3>2. Cardinality(Low(0)) = 0
      <4> HIDE DEF Low
      <4> QED
        BY <2>1, FS_EmptySet, Zenon
    <3> HIDE DEF Low
    <3> QED
      BY <3>1, <3>2
<1>4. ASSUME NEW i \in T, i < n PROVE i + 1 \in T
  <2>1. i \in 0 .. n - 1 /\ i + 1 \in 0 .. n /\ i + 1 # 0 /\ (i + 1) - 1 = i
    BY <1>4
  <2>2. s[i + 1] = s[i] + f[i]
    BY <1>1, <2>1 DEF SumOf
  <2>3. PICK A, B : A = Low(i) /\ B = {k \in E : h[k] = i}
    OBVIOUS
  <2>4. IsFiniteSet(A) /\ IsFiniteSet(B)
    BY <2>3, FS_Subset
  <2>5. A \cap B = {} /\ A \cup B = Low(i + 1)
    BY <1>0, <2>1, <2>3
  <2>6. Cardinality(Low(i + 1)) = Cardinality(A) + Cardinality(B)
    <3>1. Cardinality(A \cup B) = Cardinality(A) + Cardinality(B) - Cardinality(A \cap B)
      BY <2>4, FS_Union
    <3>2. Cardinality(A \cap B) = 0
      BY <2>5, FS_EmptySet, Zenon
    <3>3. Cardinality(A) \in Nat /\ Cardinality(B) \in Nat
      BY <2>4, FS_CardinalityType
    <3>4. Cardinality(A \cup B) = Cardinality(A) + Cardinality(B)
      BY <3>1, <3>2, <3>3
    <3> HIDE DEF Low
    <3> QED
      BY <2>5, <3>4, Zenon
  <2>7. s[i] = Cardinality(A) /\ f[i] = Cardinality(B)
    BY <2>1, <2>3
  <2> HIDE DEF Low
  <2> QED
    BY <2>1, <2>2, <2>6, <2>7
<1>5. T = 0 .. n
  <2> HIDE DEF T
  <2> QED
    BY <1>2, <1>3, <1>4, Induction
<1>6. n \in T
  <2> HIDE DEF T
  <2> QED
    BY <1>5
<1>7. Low(n) = E
  BY <1>0
<1> QED
  BY <1>1, <1>6, <1>7

(* Pushed is defined by its equation: some of the elements, turned round.  *)
PushesOf(c, num, b, s) ==
  s = [m \in 0 .. Len(c) |-> IF m = 0 THEN <<>>
                             ELSE IF Ut!ToBkt(c[m], num) = b THEN <<c[m]>> \o s[m - 1] ELSE s[m - 1]]

(* The loop that Pushed stands for.                                        *)
LEMMA PushedEquation ==
  ASSUME NEW c \in Seq(Key), NEW num, NEW b
  PROVE  \E s : PushesOf(c, num, b, s) /\ Ut!Pushed(c, num, b) = s[Len(c)]
<1> DEFINE F == [m \in 1 .. Len(c) |-> [x \in Seq(Key) |->
                   IF Ut!ToBkt(c[m], num) = b THEN <<c[m]>> \o x ELSE x]]
<1>1. Len(c) \in Nat /\ <<>> \in Seq(Key)
  OBVIOUS
<1>2. F \in [1 .. Len(c) -> [Seq(Key) -> Seq(Key)]]
  <2>1. ASSUME NEW m \in 1 .. Len(c), NEW x \in Seq(Key) PROVE <<c[m]>> \o x \in Seq(Key)
    OBVIOUS
  <2> QED
    BY <2>1
<1>3. PICK g : Iterated(Len(c), Seq(Key), <<>>, F, g)
  <2> HIDE DEF F
  <2> QED
    BY <1>1, <1>2, Iterates
<1>4. ASSUME NEW m \in 0 .. Len(c)
      PROVE  g[m] = IF m = 0 THEN <<>> ELSE IF Ut!ToBkt(c[m], num) = b THEN <<c[m]>> \o g[m - 1] ELSE g[m - 1]
  <2>1. CASE m = 0
    BY <1>3, <2>1 DEF Iterated
  <2>2. CASE m # 0
    <3>1. m \in 1 .. Len(c) /\ m - 1 \in 0 .. Len(c)
      BY <1>1, <2>2
    <3>2. g[m - 1] \in Seq(Key) /\ g[m] = F[m][g[m - 1]]
      <4> HIDE DEF F
      <4> QED
        BY <1>3, <2>2, <3>1 DEF Iterated
    <3>3. F[m] = [x \in Seq(Key) |-> IF Ut!ToBkt(c[m], num) = b THEN <<c[m]>> \o x ELSE x]
      BY <3>1
    <3> HIDE DEF F
    <3>4. g[m] = IF Ut!ToBkt(c[m], num) = b THEN <<c[m]>> \o g[m - 1] ELSE g[m - 1]
      BY <3>2, <3>3
    <3> QED
      BY <2>2, <3>4
  <2> QED
    BY <2>1, <2>2
<1> HIDE DEF F
<1>5. PushesOf(c, num, b, g)
  BY <1>3, <1>4 DEF Iterated, PushesOf
<1>6. PICK s : s = CHOOSE h : PushesOf(c, num, b, h)
  OBVIOUS
<1>7. PushesOf(c, num, b, s)
  BY <1>5, <1>6
<1>8. Ut!Pushed(c, num, b) = s[Len(c)]
  BY <1>6 DEF Ut!Pushed, PushesOf
<1> QED
  BY <1>7, <1>8

(* A new bucket gets its elements of the old chain, and only those.        *)
LEMMA PushedList ==
  ASSUME NEW c, List(c), NEW num, NEW b
  PROVE  /\ List(Ut!Pushed(c, num, b))
         /\ Elements(Ut!Pushed(c, num, b)) = {k \in Elements(c) : Ut!ToBkt(k, num) = b}
<1>0. c \in Seq(Key) /\ Len(c) \in Nat
  BY DEF List
<1>1. PICK s : PushesOf(c, num, b, s) /\ Ut!Pushed(c, num, b) = s[Len(c)]
  BY <1>0, PushedEquation
<1> DEFINE Mine(m) == {c[x] : x \in {y \in 1 .. m : Ut!ToBkt(c[y], num) = b}}
           T == {m \in 0 .. Len(c) : List(s[m]) /\ Elements(s[m]) = Mine(m)}
<1>2. T \in SUBSET (0 .. Len(c))
  OBVIOUS
<1>3. 0 \in T
  <2>1. s[0] = <<>>
    BY <1>0, <1>1 DEF PushesOf
  <2>2. List(<<>>) /\ Elements(<<>>) = {}
    BY DEF List, Elements
  <2>3. Mine(0) = {}
    OBVIOUS
  <2> QED
    BY <1>0, <2>1, <2>2, <2>3
<1>4. ASSUME NEW m \in T, m < Len(c) PROVE m + 1 \in T
  <2>1. m \in 0 .. Len(c) /\ List(s[m]) /\ Elements(s[m]) = Mine(m)
    OBVIOUS
  <2>2. m + 1 \in 0 .. Len(c) /\ m + 1 \in 1 .. Len(c) /\ m + 1 # 0 /\ (m + 1) - 1 = m
    BY <1>0, <1>4, <2>1
  <2>3. s[m + 1] = IF Ut!ToBkt(c[m + 1], num) = b THEN <<c[m + 1]>> \o s[m] ELSE s[m]
    BY <1>1, <2>2 DEF PushesOf
  <2>4. \A x \in 1 .. m + 1 : x \in 1 .. m \/ x = m + 1
    BY <2>2
  <2>5. CASE Ut!ToBkt(c[m + 1], num) = b
    <3>1. Mine(m + 1) = Mine(m) \cup {c[m + 1]}
      <4>1. m + 1 \in 1 .. m + 1 /\ \A x \in 1 .. m : x \in 1 .. m + 1
        BY <2>2
      <4> QED
        BY <2>4, <2>5, <4>1
    <3>2. c[m + 1] \in Key /\ c[m + 1] \notin Mine(m)
      <4>1. \A x \in 1 .. m : x \in 1 .. Len(c) /\ x # m + 1
        BY <1>0, <2>2
      <4> QED
        BY <1>0, <2>2, <4>1 DEF List
    <3> HIDE DEF Mine
    <3>3. List(<<c[m + 1]>> \o s[m]) /\ Elements(<<c[m + 1]>> \o s[m]) = Mine(m) \cup {c[m + 1]}
      BY <2>1, <3>2, PushList
    <3> QED
      BY <2>2, <2>3, <2>5, <3>1, <3>3
  <2>6. CASE Ut!ToBkt(c[m + 1], num) # b
    <3>1. Mine(m + 1) = Mine(m)
      <4>1. \A x \in 1 .. m : x \in 1 .. m + 1
        BY <2>2
      <4> QED
        BY <2>4, <2>6, <4>1
    <3> QED
      BY <2>1, <2>2, <2>3, <2>6, <3>1
  <2> QED
    BY <2>5, <2>6
<1>5. T = 0 .. Len(c)
  <2> HIDE DEF T
  <2> QED
    BY <1>0, <1>2, <1>3, <1>4, Induction
<1>6. List(s[Len(c)]) /\ Elements(s[Len(c)]) = Mine(Len(c))
  <2>1. Len(c) \in T
    <3> HIDE DEF T
    <3> QED
      BY <1>0, <1>5
  <2> QED
    BY <2>1
<1>7. Mine(Len(c)) = {k \in Elements(c) : Ut!ToBkt(k, num) = b}
  BY DEF Elements
<1> QED
  BY <1>1, <1>6, <1>7

-----------------------------------------------------------------------------
(* The table.                                                              *)

Chain == [chain : Seq(Key), count : Nat, mult : Nat]

(* Bucket x has the elements E.                                            *)
BucketOf(x, E) == List(x.chain) /\ Elements(x.chain) = E /\ x.count = Len(x.chain)

(* The elements that HASH_FIND looks for in bucket b.                      *)
Mine(order, num, b) == {k \in Elements(order) : Ut!ToBkt(k, num) = b}

(* Both lists of a table have the same elements, and the counts are right. *)
Table(t) ==
  /\ t \in [buckets : {t.buckets}, num : Nat \ {0}, order : Seq(Key), items : Nat,
           ideal : Nat, ineff : Nat, noexpand : BOOLEAN]
  /\ t.buckets \in [0 .. t.num - 1 -> Chain]
  /\ List(t.order) /\ t.items = Len(t.order)
  /\ \A b \in 0 .. t.num - 1 : BucketOf(t.buckets[b], Mine(t.order, t.num, b))

Limit(t) == IF t.ideal < Threshold THEN Threshold ELSE t.ideal

(* The chains are not too long, or the table has given up.                 *)
Bounded(t) ==
  t.noexpand \/ \A b \in 0 .. t.num - 1 : Within(t.buckets[b].count, t.buckets[b].mult, Limit(t))

TableOK(t) == Table(t) /\ Bounded(t)

(* The bucket of a key is one of the table.                                *)
LEMMA InRange ==
  ASSUME NEW k \in Key, NEW n \in Nat \ {0}
  PROVE  Ut!ToBkt(k, n) \in 0 .. n - 1
<1>1. Hash[k] \in Nat
  BY AdaptersAssumption
<1>2. PICK h \in Nat : h = Hash[k]
  BY <1>1
<1>3. h % n \in 0 .. n - 1
  BY Euclid
<1> QED
  BY <1>2, <1>3 DEF Ut!ToBkt

(* HASH_FIND finds what is in the table.                                   *)
LEMMA FindOK ==
  ASSUME NEW t, Table(t), NEW k \in Key
  PROVE  Ut!Find(t, k) <=> k \in Elements(t.order)
<1>1. PICK b \in 0 .. t.num - 1 : b = Ut!ToBkt(k, t.num)
  BY InRange DEF Table
<1>2. BucketOf(t.buckets[b], Mine(t.order, t.num, b))
  BY DEF Table
<1>3. Ut!Find(t, k) <=> k \in Elements(t.buckets[b].chain)
  BY <1>1 DEF Ut!Find, Ut!FindInBkt, Ut!Contains, Elements
<1> QED
  BY <1>1, <1>2, <1>3 DEF BucketOf, Mine

(* An empty table.                                                         *)
LEMMA MakeTableOK == TableOK(Ut!MakeTable)
<1>1. PICK t : t = Ut!MakeTable
  OBVIOUS
<1>2. /\ t = [buckets |-> [b \in 0 .. InitialBuckets - 1 |-> [chain |-> <<>>, count |-> 0, mult |-> 0]],
              num |-> InitialBuckets, order |-> <<>>, items |-> 0,
              ideal |-> 0, ineff |-> 0, noexpand |-> FALSE]
  BY <1>1 DEF Ut!MakeTable, Ut!EmptyBucket
<1>3. InitialBuckets \in Nat \ {0} /\ Threshold \in Nat \ {0}
  BY AdaptersAssumption
<1>4. List(<<>>) /\ Elements(<<>>) = {} /\ Len(<<>>) = 0 /\ <<>> \in Seq(Key)
  BY DEF List, Elements
<1>5. /\ t.num = InitialBuckets /\ t.order = <<>> /\ t.items = 0 /\ t.ideal = 0
      /\ t.ineff = 0 /\ t.noexpand = FALSE
      /\ t.buckets = [b \in 0 .. InitialBuckets - 1 |-> [chain |-> <<>>, count |-> 0, mult |-> 0]]
  BY <1>2
<1>6. t.buckets \in [0 .. t.num - 1 -> Chain]
  BY <1>4, <1>5 DEF Chain
<1>7. ASSUME NEW b \in 0 .. t.num - 1
      PROVE  /\ BucketOf(t.buckets[b], Mine(t.order, t.num, b))
             /\ Within(t.buckets[b].count, t.buckets[b].mult, Limit(t))
  <2>1. t.buckets[b] = [chain |-> <<>>, count |-> 0, mult |-> 0]
    BY <1>5
  <2>2. PICK x : x = t.buckets[b]
    OBVIOUS
  <2>3. x.chain = <<>> /\ x.count = 0 /\ x.mult = 0
    BY <2>1, <2>2
  <2>4. Mine(t.order, t.num, b) = {}
    BY <1>4, <1>5 DEF Mine
  <2>5. BucketOf(x, {})
    BY <1>4, <2>3 DEF BucketOf
  <2>6. Limit(t) = Threshold
    BY <1>3, <1>5 DEF Limit
  <2>7. Within(0, 0, Threshold)
    BY <1>3 DEF Within
  <2> QED
    BY <2>2, <2>3, <2>4, <2>5, <2>6, <2>7
<1>8. t \in [buckets : {t.buckets}, num : Nat \ {0}, order : Seq(Key), items : Nat,
            ideal : Nat, ineff : Nat, noexpand : BOOLEAN]
  BY <1>2, <1>3, <1>4
<1>9. Table(t)
  BY <1>4, <1>5, <1>6, <1>7, <1>8 DEF Table
<1>10. Bounded(t)
  BY <1>7 DEF Bounded
<1> QED
  BY <1>1, <1>9, <1>10 DEF TableOK

(* Bucket x with key k at the front of its chain, and the table t with key *)
(* k in its bucket and at the end of the order.                            *)
Pushing(x, k) == [chain |-> <<k>> \o x.chain, count |-> x.count + 1, mult |-> x.mult]
Linked(t, k) ==
  LET b == Ut!ToBkt(k, t.num)
  IN [buckets |-> [t.buckets EXCEPT ![b] = Pushing(t.buckets[b], k)],
      num |-> t.num, order |-> Append(t.order, k), items |-> t.items + 1,
      ideal |-> t.ideal, ineff |-> t.ineff, noexpand |-> t.noexpand]

(* HASH_ADD_TO_BKT expands a table whose bucket has become too full.       *)
LEMMA HashAddIs ==
  ASSUME NEW t, Table(t), NEW k \in Key
  PROVE  LET x == Pushing(t.buckets[Ut!ToBkt(k, t.num)], k)
         IN Ut!HashAdd(t, k) = IF x.count >= (x.mult + 1) * Threshold /\ ~t.noexpand
                               THEN Ut!Expand(Linked(t, k)) ELSE Linked(t, k)
<1>1. PICK b \in 0 .. t.num - 1 : b = Ut!ToBkt(k, t.num)
  BY InRange DEF Table
<1>2. PICK v : v = [t EXCEPT !.order = Append(@, k), !.items = @ + 1]
  OBVIOUS
<1>3. v = [buckets |-> t.buckets, num |-> t.num, order |-> Append(t.order, k), items |-> t.items + 1,
           ideal |-> t.ideal, ineff |-> t.ineff, noexpand |-> t.noexpand]
  BY <1>2 DEF Table
<1>4. v.num = t.num /\ v.buckets = t.buckets /\ v.noexpand = t.noexpand
  BY <1>3
<1>5. PICK x : x = t.buckets[b]
  OBVIOUS
<1>6. [x EXCEPT !.chain = <<k>> \o @, !.count = @ + 1] = Pushing(x, k)
  <2>1. x \in Chain
    BY <1>5 DEF Table
  <2>2. x = [chain |-> x.chain, count |-> x.count, mult |-> x.mult]
    BY <2>1 DEF Chain
  <2>3. PICK y : y = [x EXCEPT !.chain = <<k>> \o @, !.count = @ + 1]
    OBVIOUS
  <2>4. y = [chain |-> <<k>> \o x.chain, count |-> x.count + 1, mult |-> x.mult]
    BY <2>2, <2>3
  <2> QED
    BY <2>3, <2>4 DEF Pushing
<1>7. PICK y : y = Pushing(x, k)
  OBVIOUS
<1>8. [v EXCEPT !.buckets[b] = y] = Linked(t, k)
  <2>1. PICK f : f = [t.buckets EXCEPT ![b] = y]
    OBVIOUS
  <2>2. [v EXCEPT !.buckets[b] = y] = [v EXCEPT !.buckets = f]
    BY <1>4, <2>1
  <2>4. PICK u : u = [v EXCEPT !.buckets = f]
    OBVIOUS
  <2>3. u =
           [buckets |-> f, num |-> t.num, order |-> Append(t.order, k), items |-> t.items + 1,
            ideal |-> t.ideal, ineff |-> t.ineff, noexpand |-> t.noexpand]
    BY <1>3, <2>4
  <2> QED
    BY <1>1, <1>5, <1>7, <2>1, <2>2, <2>3, <2>4 DEF Linked
<1>9. Ut!HashAdd(t, k) = Ut!AddToBkt(v, k)
  BY <1>2 DEF Ut!HashAdd
<1>10. Ut!AddToBkt(v, k) = IF y.count >= (y.mult + 1) * Threshold /\ ~v.noexpand
                           THEN Ut!Expand(Linked(t, k)) ELSE Linked(t, k)
  BY <1>1, <1>4, <1>5, <1>6, <1>7, <1>8 DEF Ut!AddToBkt
<1> QED
  BY <1>1, <1>4, <1>5, <1>7, <1>9, <1>10

(* The table with a new key holds that key and what it held.               *)
LEMMA LinkedOK ==
  ASSUME NEW t, Table(t), NEW k \in Key, k \notin Elements(t.order)
  PROVE  /\ Table(Linked(t, k)) /\ Linked(t, k).items \in Nat \ {0}
         /\ Linked(t, k).order = Append(t.order, k)
<1>1. PICK b \in 0 .. t.num - 1 : b = Ut!ToBkt(k, t.num)
  BY InRange DEF Table
<1>2. PICK u : u = Linked(t, k)
  OBVIOUS
<1>3. PICK x, y : x = t.buckets[b] /\ y = Pushing(x, k)
  OBVIOUS
<1>4. u = [buckets |-> [t.buckets EXCEPT ![b] = y],
           num |-> t.num, order |-> Append(t.order, k), items |-> t.items + 1,
           ideal |-> t.ideal, ineff |-> t.ineff, noexpand |-> t.noexpand]
  BY <1>1, <1>2, <1>3 DEF Linked
<1>5. /\ u.buckets = [t.buckets EXCEPT ![b] = y] /\ u.num = t.num
      /\ u.order = Append(t.order, k) /\ u.items = t.items + 1
  BY <1>4
<1>6. /\ t.buckets \in [0 .. t.num - 1 -> Chain] /\ t.num \in Nat \ {0}
      /\ List(t.order) /\ t.items = Len(t.order) /\ t.items \in Nat
      /\ t.ideal \in Nat /\ t.ineff \in Nat /\ t.noexpand \in BOOLEAN
  BY DEF Table
<1>7. /\ List(u.order) /\ Elements(u.order) = Elements(t.order) \cup {k}
      /\ Len(u.order) = Len(t.order) + 1
  BY <1>5, <1>6, AppendList
<1>8. BucketOf(x, Mine(t.order, t.num, b)) /\ x \in Chain
  BY <1>3 DEF Table
<1>9. y.chain = <<k>> \o x.chain /\ y.count = x.count + 1 /\ y.mult = x.mult
  BY <1>3 DEF Pushing
<1>10. BucketOf(y, Mine(t.order, t.num, b) \cup {k}) /\ y \in Chain
  <2>1. List(x.chain) /\ k \notin Elements(x.chain)
    BY <1>8 DEF BucketOf, Mine
  <2>2. /\ List(<<k>> \o x.chain) /\ Elements(<<k>> \o x.chain) = Elements(x.chain) \cup {k}
        /\ Len(<<k>> \o x.chain) = Len(x.chain) + 1
    BY <2>1, PushList
  <2>3. BucketOf(y, Mine(t.order, t.num, b) \cup {k})
    BY <1>8, <1>9, <2>2 DEF BucketOf
  <2>4. y = [chain |-> <<k>> \o x.chain, count |-> x.count + 1, mult |-> x.mult]
    BY <1>3 DEF Pushing
  <2>5. <<k>> \o x.chain \in Seq(Key) /\ x.count + 1 \in Nat /\ x.mult \in Nat
    BY <1>8, <2>2 DEF List, Chain
  <2>6. y \in Chain
    BY <2>4, <2>5 DEF Chain
  <2> QED
    BY <2>3, <2>6
<1>11. u.buckets \in [0 .. t.num - 1 -> Chain]
  BY <1>5, <1>6, <1>10
<1>12. ASSUME NEW c \in 0 .. u.num - 1 PROVE BucketOf(u.buckets[c], Mine(u.order, u.num, c))
  <2>0. c \in 0 .. t.num - 1
    BY <1>5
  <2>1. CASE c = b
    <3>1. u.buckets[c] = y
      BY <1>5, <1>6, <2>0, <2>1
    <3>2. Mine(u.order, u.num, c) = Mine(t.order, t.num, b) \cup {k}
      BY <1>1, <1>5, <1>7, <2>1 DEF Mine
    <3> QED
      BY <1>10, <3>1, <3>2
  <2>2. CASE c # b
    <3>1. u.buckets[c] = t.buckets[c]
      BY <1>5, <1>6, <2>0, <2>2
    <3>2. Mine(u.order, u.num, c) = Mine(t.order, t.num, c)
      BY <1>1, <1>5, <1>7, <2>2 DEF Mine
    <3>3. BucketOf(t.buckets[c], Mine(t.order, t.num, c))
      BY <2>0 DEF Table
    <3> QED
      BY <3>1, <3>2, <3>3
  <2> QED
    BY <2>1, <2>2
<1>13. u \in [buckets : {u.buckets}, num : Nat \ {0}, order : Seq(Key), items : Nat,
             ideal : Nat, ineff : Nat, noexpand : BOOLEAN]
  <2>1. Append(t.order, k) \in Seq(Key) /\ t.items + 1 \in Nat
    BY <1>5, <1>6, <1>7 DEF List
  <2> QED
    BY <1>4, <1>5, <1>6, <2>1
<1>14. u.items = Len(u.order) /\ u.items \in Nat \ {0}
  BY <1>5, <1>6, <1>7
<1>15. Table(u)
  BY <1>5, <1>7, <1>11, <1>12, <1>13, <1>14 DEF Table
<1> QED
  BY <1>2, <1>5, <1>14, <1>15

(* The buckets after HASH_EXPAND_BUCKETS, for num of them and their ideal  *)
(* length.                                                                 *)
NewChain(t, num, b) == Ut!Pushed(t.buckets[b % t.num].chain, num, b)
NewBucket(c, ideal) ==
  [chain |-> c, count |-> Len(c), mult |-> IF Len(c) > ideal THEN Len(c) \div ideal ELSE 0]
IdealOf(items, num) == items \div num + (IF items % num = 0 THEN 0 ELSE 1)

(* The ideal length is a number.                                           *)
LEMMA IdealNat ==
  ASSUME NEW a \in Nat, NEW n \in Nat \ {0}
  PROVE  IdealOf(a, n) \in Nat
<1>1. PICK q \in Nat : q = a \div n
  BY Euclid
<1>2. q + (IF a % n = 0 THEN 0 ELSE 1) \in Nat
  <2>1. PICK r : r = a % n
    OBVIOUS
  <2>2. q + (IF r = 0 THEN 0 ELSE 1) \in Nat
    OBVIOUS
  <2> QED
    BY <2>1, <2>2
<1> QED
  BY <1>1, <1>2 DEF IdealOf

(* e is what HASH_EXPAND_BUCKETS makes of table t, if it counts ineff      *)
(* expansions that have not helped and w says whether it gives up.         *)
Expanded(t, e, num, ideal, ineff, w) ==
  /\ num = 2 * t.num /\ ideal = IdealOf(t.items, num)
  /\ e = [buckets |-> [b \in 0 .. num - 1 |-> NewBucket(NewChain(t, num, b), ideal)],
          num |-> num, order |-> t.order, items |-> t.items,
          ideal |-> ideal, ineff |-> ineff, noexpand |-> w]

(* Whether or not it gives up, this is what it does.                       *)
LEMMA ExpandIs ==
  ASSUME NEW t, Table(t)
  PROVE  \E num, ideal, ineff \in Nat, w \in BOOLEAN : Expanded(t, Ut!Expand(t), num, ideal, ineff, w)
<1> DEFINE num == 2 * t.num
           ideal == t.items \div num + (IF t.items % num = 0 THEN 0 ELSE 1)
           chains == [b \in 0 .. num - 1 |-> Ut!Pushed(t.buckets[b % t.num].chain, num, b)]
           Bucket(c) == [chain |-> c, count |-> Len(c),
                         mult |-> IF Len(c) > ideal THEN Len(c) \div ideal ELSE 0]
           over == Ut!Total([b \in 0 .. num - 1 |-> Ut!Max({0, Len(chains[b]) - ideal})], num)
           ineff == IF over > t.items \div 2 THEN t.ineff + 1 ELSE 0
           new == [b \in 0 .. num - 1 |-> Bucket(chains[b])]
           e == [t EXCEPT !.num = num, !.buckets = new, !.ideal = ideal, !.ineff = ineff,
                          !.noexpand = @ \/ ineff > 1]
<1>1. Ut!Expand(t) = e
  BY Zenon DEF Ut!Expand
<1> HIDE DEF e, over
<1>2. ineff \in Nat
  BY DEF Table
<1> HIDE DEF ineff
<1>3. num \in Nat \ {0}
  BY DEF Table
<1>4. ideal = IdealOf(t.items, num)
  BY DEF IdealOf
<1> HIDE DEF num
<1> HIDE DEF ideal
<1>5. ideal \in Nat
  BY <1>3, <1>4, IdealNat DEF Table
<1>11. new = [b \in 0 .. num - 1 |-> NewBucket(NewChain(t, num, b), ideal)]
  BY DEF NewBucket, NewChain
<1> HIDE DEF new
<1>12. PICK w \in BOOLEAN : w = (t.noexpand \/ ineff > 1)
  OBVIOUS
<1>13. PICK d : d = [t EXCEPT !.num = num, !.buckets = new, !.ideal = ideal, !.ineff = ineff, !.noexpand = w]
  OBVIOUS
<1>14. d = e
  BY <1>12, <1>13 DEF e
<1>15. d = [buckets |-> new, num |-> num, order |-> t.order, items |-> t.items,
            ideal |-> ideal, ineff |-> ineff, noexpand |-> w]
  BY <1>13 DEF Table
<1> QED
  <2>1. num \in Nat /\ num = 2 * t.num
    BY <1>3 DEF num
  <2>2. Expanded(t, Ut!Expand(t), num, ideal, ineff, w)
    BY <1>1, <1>4, <1>11, <1>14, <1>15, <2>1 DEF Expanded
  <2> QED
    BY <1>2, <1>5, <2>1, <2>2, Zenon

(* The table is expanded without losing an element, and no chain is longer *)
(* than its multiple of the ideal length.                                  *)
LEMMA ExpandOK ==
  ASSUME NEW t, Table(t), t.items # 0
  PROVE  TableOK(Ut!Expand(t)) /\ Ut!Expand(t).order = t.order
<1>1. PICK num, ideal, ineff \in Nat, w \in BOOLEAN :
           Expanded(t, Ut!Expand(t), num, ideal, ineff, w)
  BY ExpandIs
<1>0. num = 2 * t.num /\ ideal = IdealOf(t.items, num)
  BY <1>1 DEF Expanded
<1>2. PICK e : e = Ut!Expand(t)
  OBVIOUS
<1>3. PICK new : new = [b \in 0 .. num - 1 |-> NewBucket(NewChain(t, num, b), ideal)]
  OBVIOUS
<1>4. e = [buckets |-> new, num |-> num, order |-> t.order, items |-> t.items,
           ideal |-> ideal, ineff |-> ineff, noexpand |-> w]
  BY <1>1, <1>2, <1>3 DEF Expanded
<1>5. /\ e.buckets = new /\ e.num = num /\ e.order = t.order /\ e.items = t.items
      /\ e.ideal = ideal /\ e.noexpand = w
  BY <1>4
<1>6. /\ t.buckets \in [0 .. t.num - 1 -> Chain] /\ t.num \in Nat \ {0} /\ t.order \in Seq(Key)
      /\ List(t.order) /\ t.items = Len(t.order) /\ t.items \in Nat \ {0}
  BY DEF Table
<1>7. num \in Nat \ {0}
  BY <1>0, <1>6
<1>8. ideal \in Nat \ {0}
  <2>1. PICK a \in Nat \ {0} : a = t.items
    BY <1>6
  <2>2. a \div num + (IF a % num = 0 THEN 0 ELSE 1) \in Nat \ {0}
    BY <1>7, Ideal
  <2> QED
    BY <1>0, <2>1, <2>2 DEF IdealOf
<1>9. ASSUME NEW b \in 0 .. num - 1
      PROVE  /\ new[b] \in Chain /\ BucketOf(new[b], Mine(t.order, num, b))
             /\ Within(new[b].count, new[b].mult, ideal)
  <2>1. PICK c : c = NewChain(t, num, b)
    OBVIOUS
  <2>2. PICK o \in 0 .. t.num - 1 : o = b % t.num
    <3>1. b \in Nat
      BY <1>7
    <3> QED
      BY <1>6, <3>1, Euclid
  <2>3. BucketOf(t.buckets[o], Mine(t.order, t.num, o))
    BY DEF Table
  <2>4. PICK x : x = t.buckets[o].chain
    OBVIOUS
  <2>5. List(x) /\ Elements(x) = Mine(t.order, t.num, o)
    BY <2>3, <2>4 DEF BucketOf
  <2>6. c = Ut!Pushed(x, num, b)
    BY <2>1, <2>2, <2>4 DEF NewChain
  <2>7. List(c) /\ Elements(c) = {k \in Elements(x) : Ut!ToBkt(k, num) = b}
    BY <2>5, <2>6, PushedList
  <2>8. Elements(c) = Mine(t.order, num, b)
    <3>1. ASSUME NEW k \in Elements(t.order), Ut!ToBkt(k, num) = b PROVE Ut!ToBkt(k, t.num) = o
      <4>1. k \in Key
        BY <1>6 DEF Elements, List
      <4>2. PICK h \in Nat : h = Hash[k]
        BY <4>1, AdaptersAssumption
      <4>3. (h % num) % t.num = h % t.num
        <5>1. t.num \in Nat \ {0} /\ num = 2 * t.num
          BY <1>0, <1>6
        <5> QED
          BY <5>1, Halved, Zenon
      <4> QED
        BY <2>2, <3>1, <4>2, <4>3 DEF Ut!ToBkt
    <3> QED
      BY <2>5, <2>7, <3>1 DEF Mine
  <2>9. PICK y : y = NewBucket(c, ideal)
    OBVIOUS
  <2>10. PICK n \in Nat : n = Len(c)
    BY <2>7 DEF List
  <2>11. PICK m \in Nat : m = (IF n > ideal THEN n \div ideal ELSE 0) /\ Within(n, m, ideal)
    BY <1>8, Multiple
  <2>12. y = [chain |-> c, count |-> n, mult |-> m]
    BY <2>9, <2>10, <2>11 DEF NewBucket
  <2>13. y.chain = c /\ y.count = n /\ y.mult = m
    BY <2>12
  <2>14. y \in Chain
    BY <2>7, <2>12 DEF Chain, List
  <2>15. BucketOf(y, Mine(t.order, num, b))
    BY <2>7, <2>8, <2>10, <2>13 DEF BucketOf
  <2>16. new[b] = y
    BY <1>3, <2>1, <2>9
  <2> QED
    BY <2>11, <2>13, <2>14, <2>15, <2>16
<1>10. e.buckets \in [0 .. e.num - 1 -> Chain]
  <2>1. new \in [0 .. num - 1 -> Chain]
    BY <1>3, <1>9
  <2> QED
    BY <1>5, <2>1
<1>11. e \in [buckets : {e.buckets}, num : Nat \ {0}, order : Seq(Key), items : Nat,
             ideal : Nat, ineff : Nat, noexpand : BOOLEAN]
  BY <1>4, <1>5, <1>6, <1>7
<1>12. Table(e)
  BY <1>5, <1>6, <1>9, <1>10, <1>11 DEF Table
<1>13. Bounded(e)
  <2> SUFFICES ASSUME NEW b \in 0 .. num - 1 PROVE Within(new[b].count, new[b].mult, Limit(e))
    BY <1>5 DEF Bounded
  <2>1. PICK n, m \in Nat : n = new[b].count /\ m = new[b].mult
    BY <1>9 DEF Chain
  <2>2. Within(n, m, ideal)
    BY <1>9, <2>1
  <2>3. Limit(e) \in Nat /\ ideal <= Limit(e)
    BY <1>5, <1>8, AdaptersAssumption DEF Limit
  <2> QED
    BY <2>1, <2>2, <2>3, Widens
<1> QED
  BY <1>2, <1>5, <1>12, <1>13 DEF TableOK

(* HASH_ADD_KEYPTR.                                                        *)
LEMMA HashAddOK ==
  ASSUME NEW t, TableOK(t), NEW k \in Key, k \notin Elements(t.order)
  PROVE  TableOK(Ut!HashAdd(t, k)) /\ Ut!HashAdd(t, k).order = Append(t.order, k)
<1>0. Table(t) /\ Bounded(t)
  BY DEF TableOK
<1>1. PICK u : u = Linked(t, k)
  OBVIOUS
<1>2. Table(u) /\ u.items # 0 /\ u.order = Append(t.order, k)
  BY <1>0, <1>1, LinkedOK
<1>3. TableOK(Ut!Expand(u)) /\ Ut!Expand(u).order = u.order
  BY <1>2, ExpandOK
<1>4. PICK b \in 0 .. t.num - 1 : b = Ut!ToBkt(k, t.num)
  BY <1>0, InRange DEF Table
<1>5. PICK x : x = Pushing(t.buckets[b], k)
  OBVIOUS
<1>6. Ut!HashAdd(t, k) = IF x.count >= (x.mult + 1) * Threshold /\ ~t.noexpand
                         THEN Ut!Expand(u) ELSE u
  BY <1>0, <1>1, <1>4, <1>5, HashAddIs
<1>7. CASE x.count >= (x.mult + 1) * Threshold /\ ~t.noexpand
  BY <1>2, <1>3, <1>6, <1>7
<1>8. CASE ~(x.count >= (x.mult + 1) * Threshold /\ ~t.noexpand)
  <2>1. /\ u.buckets = [t.buckets EXCEPT ![b] = x] /\ u.num = t.num
        /\ u.ideal = t.ideal /\ u.noexpand = t.noexpand
    BY <1>1, <1>4, <1>5 DEF Linked
  <2>2. Bounded(u)
    <3>0. Limit(u) = Limit(t) /\ Limit(t) \in Nat /\ Threshold <= Limit(t) /\ Threshold \in Nat
      BY <1>0, <2>1, AdaptersAssumption DEF Limit, Table
    <3> SUFFICES ASSUME t.noexpand = FALSE, NEW c \in 0 .. t.num - 1
                 PROVE  Within(u.buckets[c].count, u.buckets[c].mult, Limit(t))
      BY <1>0, <2>1, <3>0 DEF Bounded, Table
    <3>1. CASE c = b
      <4>1. u.buckets[c] = x
        BY <1>0, <2>1, <3>1 DEF Table
      <4>2. PICK n, m \in Nat : n = x.count /\ m = x.mult
        BY <1>2, <2>1, <4>1 DEF Table, Chain
      <4>3. ~(n >= (m + 1) * Threshold)
        BY <1>8, <4>2
      <4>4. Within(n, m, Threshold)
        <5>1. (m + 1) * Threshold \in Int
          BY <3>0
        <5> QED
          BY <4>3, <5>1 DEF Within
      <4>5. Within(n, m, Limit(t))
        BY <3>0, <4>4, Widens
      <4> QED
        BY <4>1, <4>2, <4>5
    <3>2. CASE c # b
      <4>1. u.buckets[c] = t.buckets[c]
        BY <1>0, <2>1, <3>2 DEF Table
      <4> QED
        BY <1>0, <4>1 DEF Bounded
    <3> QED
      BY <3>1, <3>2
  <2> QED
    BY <1>2, <1>6, <1>8, <2>2 DEF TableOK
<1> QED
  BY <1>7, <1>8

(* HASH_DELETE of an element that is there.                                *)
LEMMA HashDeleteOK ==
  ASSUME NEW t, TableOK(t), NEW k \in Elements(t.order)
  PROVE  /\ TableOK(Ut!HashDelete(t, k))
         /\ Elements(Ut!HashDelete(t, k).order) = Elements(t.order) \ {k}
<1>0. Table(t) /\ Bounded(t)
  BY DEF TableOK
<1>1. /\ t.buckets \in [0 .. t.num - 1 -> Chain] /\ t.num \in Nat \ {0}
      /\ List(t.order) /\ t.items = Len(t.order) /\ t.items \in Nat
      /\ t.ideal \in Nat /\ t.ineff \in Nat /\ t.noexpand \in BOOLEAN
  BY <1>0 DEF Table
<1>2. k \in Key
  BY <1>1 DEF List, Elements
<1>3. CASE t.order = <<k>>
  <2>1. Elements(t.order) = {k}
    BY <1>3 DEF Elements
  <2>2. Ut!HashDelete(t, k) = Ut!MakeTable
    BY <1>3 DEF Ut!HashDelete
  <2>3. Elements(Ut!MakeTable.order) = {}
    BY DEF Elements, Ut!MakeTable
  <2> QED
    BY <2>1, <2>2, <2>3, MakeTableOK
<1>4. CASE t.order # <<k>>
  <2>1. PICK b \in 0 .. t.num - 1 : b = Ut!ToBkt(k, t.num)
    BY <1>1, <1>2, InRange
  <2>2. PICK x : x = t.buckets[b]
    OBVIOUS
  <2>3. BucketOf(x, Mine(t.order, t.num, b)) /\ x \in Chain
    BY <1>0, <1>1, <2>2 DEF Table
  <2>4. PICK y : y = [x EXCEPT !.chain = RemoveFirst(@, k), !.count = @ - 1]
    OBVIOUS
  <2>5. y = [chain |-> RemoveFirst(x.chain, k), count |-> x.count - 1, mult |-> x.mult]
    BY <2>3, <2>4 DEF Chain
  <2>6. y.chain = RemoveFirst(x.chain, k) /\ y.count = x.count - 1 /\ y.mult = x.mult
    BY <2>5
  <2>7. List(x.chain) /\ k \in Elements(x.chain)
    BY <2>1, <2>3 DEF BucketOf, Mine
  <2>8. PICK c : c = RemoveFirst(x.chain, k)
    OBVIOUS
  <2>9. List(c) /\ Elements(c) = Elements(x.chain) \ {k} /\ Len(c) = Len(x.chain) - 1 /\ Len(x.chain) \in Nat \ {0}
    BY <2>7, <2>8, DropList
  <2>10. BucketOf(y, Mine(t.order, t.num, b) \ {k})
    BY <2>3, <2>6, <2>8, <2>9 DEF BucketOf
  <2>11. x.count - 1 \in Nat /\ x.count \in Nat /\ x.mult \in Nat
    BY <2>3, <2>9 DEF BucketOf, Chain
  <2>12. y \in Chain
    BY <2>5, <2>8, <2>9, <2>11 DEF Chain, List
  <2>13. PICK o : o = RemoveFirst(t.order, k)
    OBVIOUS
  <2>14. List(o) /\ Elements(o) = Elements(t.order) \ {k} /\ Len(o) = Len(t.order) - 1 /\ Len(t.order) \in Nat \ {0}
    BY <1>1, <2>13, DropList
  <2>15. PICK u : u = Ut!HashDelete(t, k)
    OBVIOUS
  <2>16. PICK new : new = [t.buckets EXCEPT ![b] = y]
    OBVIOUS
  <2>17. u = [buckets |-> new, num |-> t.num, order |-> o, items |-> t.items - 1,
              ideal |-> t.ideal, ineff |-> t.ineff, noexpand |-> t.noexpand]
    <3>1. Ut!RemoveFirst(t.order, k) = o /\ Ut!DelInBkt(t.buckets[b], k) = y
      <4>1. \A s : Ut!RemoveFirst(s, k) = RemoveFirst(s, k)
        BY Zenon DEF RemoveFirst, Ut!RemoveFirst, SelectInSeq, Ut!SelectInSeq, RemoveAt, Ut!RemoveAt, Min, Ut!Min
      <4>2. Ut!DelInBkt(x, k) = y
        BY <2>4, <4>1, Zenon DEF Ut!DelInBkt
      <4> QED
        BY <2>2, <2>13, <4>1, <4>2, Zenon
    <3>2. u = [t EXCEPT !.order = Ut!RemoveFirst(t.order, k),
                        !.buckets = [t.buckets EXCEPT ![b] = Ut!DelInBkt(t.buckets[b], k)],
                        !.items = t.items - 1]
      BY <1>4, <2>1, <2>15 DEF Ut!HashDelete
    <3>3. u = [t EXCEPT !.order = o, !.buckets = new, !.items = t.items - 1]
      BY <2>16, <3>1, <3>2
    <3> QED
      BY <1>0, <3>3 DEF Table
  <2>18. /\ u.buckets = new /\ u.num = t.num /\ u.order = o /\ u.items = t.items - 1
         /\ u.ideal = t.ideal /\ u.noexpand = t.noexpand
    BY <2>17
  <2>19. new \in [0 .. t.num - 1 -> Chain]
    BY <1>1, <2>12, <2>16
  <2>20. t.items - 1 \in Nat /\ t.items - 1 = Len(o)
    BY <1>1, <2>14
  <2>21. u \in [buckets : {u.buckets}, num : Nat \ {0}, order : Seq(Key), items : Nat,
               ideal : Nat, ineff : Nat, noexpand : BOOLEAN]
    BY <1>1, <2>14, <2>17, <2>18, <2>20 DEF List
  <2>22. ASSUME NEW d \in 0 .. t.num - 1
         PROVE  /\ BucketOf(new[d], Mine(o, t.num, d))
                /\ new[d].count <= t.buckets[d].count /\ new[d].mult = t.buckets[d].mult
    <3>1. CASE d = b
      <4>1. new[d] = y
        BY <1>1, <2>16, <3>1
      <4>2. Mine(o, t.num, d) = Mine(t.order, t.num, b) \ {k}
        BY <2>14, <3>1 DEF Mine
      <4> QED
        BY <2>2, <2>6, <2>10, <2>11, <3>1, <4>1, <4>2
    <3>2. CASE d # b
      <4>1. new[d] = t.buckets[d]
        BY <1>1, <2>16, <3>2
      <4>2. Mine(o, t.num, d) = Mine(t.order, t.num, d)
        BY <2>1, <2>14, <3>2 DEF Mine
      <4>3. BucketOf(t.buckets[d], Mine(t.order, t.num, d)) /\ t.buckets[d].count \in Nat
        BY <1>0, <1>1 DEF Table, Chain
      <4> QED
        BY <4>1, <4>2, <4>3
    <3> QED
      BY <3>1, <3>2
  <2>23. Table(u)
    BY <2>14, <2>18, <2>19, <2>20, <2>21, <2>22 DEF Table
  <2>24. Bounded(u)
    <3>1. Limit(u) = Limit(t) /\ Limit(t) \in Nat
      BY <1>1, <2>18, AdaptersAssumption DEF Limit
    <3> SUFFICES ASSUME t.noexpand = FALSE, NEW d \in 0 .. t.num - 1
                 PROVE  Within(new[d].count, new[d].mult, Limit(t))
      BY <1>1, <2>18, <3>1 DEF Bounded
    <3>2. Within(t.buckets[d].count, t.buckets[d].mult, Limit(t))
      BY <1>0 DEF Bounded
    <3>3. t.buckets[d].count \in Nat /\ t.buckets[d].mult \in Nat /\ new[d].count \in Nat
      BY <1>1, <2>19 DEF Chain
    <3> QED
      BY <2>22, <3>1, <3>2, <3>3, Narrows
  <2> QED
    BY <2>14, <2>15, <2>18, <2>23, <2>24 DEF TableOK
<1> QED
  BY <1>3, <1>4

(* HASH_ITER finds each element once, so that HASH_DELETE of each leaves   *)
(* an empty table.                                                         *)
LEMMA HashDeleteAllOK ==
  ASSUME NEW t, TableOK(t)
  PROVE  TableOK(Ut!HashDeleteAll(t)) /\ Elements(Ut!HashDeleteAll(t).order) = {}
<1>1. PICK c, n : c = t.order /\ n = Len(c)
  OBVIOUS
<1>2. List(c) /\ c \in Seq(Key) /\ n \in Nat
  BY <1>1 DEF TableOK, Table, List
<1> DEFINE Deleted(m, f) == f = [i \in 0 .. m |-> IF i = 0 THEN t ELSE Ut!HashDelete(f[i - 1], c[i])]
           D == {m \in 0 .. n : \E f : Deleted(m, f)}
<1>3. 0 \in D
  <2>1. PICK f : f = [i \in 0 .. 0 |-> t]
    OBVIOUS
  <2>2. \A i \in 0 .. 0 : i = 0
    OBVIOUS
  <2>3. Deleted(0, f)
    BY <2>1, <2>2
  <2> QED
    BY <1>2, <2>3
<1>4. ASSUME NEW m \in D, m < n PROVE m + 1 \in D
  <2>1. PICK f : Deleted(m, f)
    OBVIOUS
  <2>2. m + 1 \in 0 .. n /\ m \in Nat
    BY <1>2, <1>4
  <2>3. PICK x : x = Ut!HashDelete(f[m], c[m + 1])
    OBVIOUS
  <2>4. PICK g : g = [i \in 0 .. m + 1 |-> IF i = m + 1 THEN x ELSE f[i]]
    OBVIOUS
  <2>5. ASSUME NEW i \in 0 .. m + 1
        PROVE  g[i] = IF i = 0 THEN t ELSE Ut!HashDelete(g[i - 1], c[i])
    <3>1. CASE i = m + 1
      <4>1. g[i] = x /\ i # 0 /\ i - 1 = m /\ i - 1 \in 0 .. m + 1 /\ i - 1 # m + 1
        BY <2>2, <2>4, <3>1
      <4>2. g[i - 1] = f[m]
        BY <2>4, <4>1
      <4> QED
        BY <2>3, <3>1, <4>1, <4>2
    <3>2. CASE i = 0
      <4>1. i \in 0 .. m /\ i # m + 1
        BY <2>2, <3>2
      <4> QED
        BY <2>1, <2>4, <3>2, <4>1
    <3>3. CASE i # m + 1 /\ i # 0
      <4>1. i \in 0 .. m /\ i - 1 \in 0 .. m + 1 /\ i - 1 # m + 1
        BY <2>2, <3>3
      <4>2. f[i] = Ut!HashDelete(f[i - 1], c[i])
        BY <2>1, <3>3, <4>1
      <4>3. g[i] = f[i] /\ g[i - 1] = f[i - 1]
        BY <2>4, <3>3, <4>1
      <4> QED
        BY <3>3, <4>2, <4>3
    <3> QED
      BY <3>1, <3>2, <3>3
  <2>6. Deleted(m + 1, g)
    BY <2>4, <2>5
  <2> HIDE DEF Deleted
  <2> QED
    BY <2>2, <2>6
<1>5. D = 0 .. n
  <2>1. D \in SUBSET (0 .. n)
    OBVIOUS
  <2> HIDE DEF D
  <2> QED
    BY <1>2, <1>3, <1>4, <2>1, Induction
<1>6. \E f : Deleted(n, f)
  <2>1. n \in D
    <3> HIDE DEF D
    <3> QED
      BY <1>2, <1>5
  <2> HIDE DEF Deleted
  <2> QED
    BY <2>1
<1>7. PICK s : s = CHOOSE f : Deleted(n, f)
  OBVIOUS
<1>8. Deleted(n, s)
  <2> HIDE DEF Deleted
  <2> QED
    BY <1>6, <1>7, Zenon
<1>9. Ut!HashDeleteAll(t) = s[n]
  BY <1>1, <1>7 DEF Ut!HashDeleteAll
<1> DEFINE Left(m) == {c[x] : x \in m + 1 .. n}
           T == {m \in 0 .. n : TableOK(s[m]) /\ Elements(s[m].order) = Left(m)}
<1>10. 0 \in T
  <2>1. s[0] = t
    BY <1>2, <1>8
  <2>2. Left(0) = Elements(t.order)
    BY <1>1 DEF Elements
  <2> QED
    BY <1>2, <2>1, <2>2
<1>11. ASSUME NEW m \in T, m < n PROVE m + 1 \in T
  <2>1. m \in Nat /\ m + 1 \in 0 .. n /\ m + 1 # 0 /\ (m + 1) - 1 = m /\ m + 1 \in 1 .. n
    BY <1>2, <1>11
  <2>2. TableOK(s[m]) /\ Elements(s[m].order) = Left(m)
    OBVIOUS
  <2>3. s[m + 1] = Ut!HashDelete(s[m], c[m + 1])
    BY <1>8, <2>1
  <2>4. c[m + 1] \in Left(m)
    <3>1. m + 1 \in m + 1 .. n
      BY <1>2, <2>1
    <3> QED
      BY <3>1
  <2>5. Left(m) \ {c[m + 1]} = Left(m + 1)
    <3>1. \A x \in m + 1 .. n : x = m + 1 \/ x \in (m + 1) + 1 .. n
      BY <1>2, <2>1
    <3>2. \A x \in (m + 1) + 1 .. n : x \in m + 1 .. n /\ x # m + 1 /\ x \in 1 .. n
      BY <1>2, <2>1
    <3>3. \A x \in (m + 1) + 1 .. n : c[x] # c[m + 1]
      BY <1>1, <1>2, <2>1, <3>2 DEF List
    <3> QED
      BY <3>1, <3>2, <3>3
  <2> HIDE DEF Left
  <2>6. TableOK(s[m + 1]) /\ Elements(s[m + 1].order) = Left(m) \ {c[m + 1]}
    BY <2>2, <2>3, <2>4, HashDeleteOK
  <2> QED
    BY <2>1, <2>5, <2>6
<1>12. T = 0 .. n
  <2>1. T \in SUBSET (0 .. n)
    OBVIOUS
  <2> HIDE DEF T
  <2> QED
    BY <1>2, <1>10, <1>11, <2>1, Induction
<1>13. n \in T
  <2> HIDE DEF T
  <2> QED
    BY <1>2, <1>12
<1>14. Left(n) = {}
  BY <1>2
<1> QED
  BY <1>9, <1>13, <1>14

(* The table passes HASH_FSCK.                                             *)
LEMMA FsckOK ==
  ASSUME NEW t, Table(t)
  PROVE  Ut!Fsck(t)
<1>1. /\ t.buckets \in [0 .. t.num - 1 -> Chain] /\ t.num \in Nat \ {0} /\ t.order \in Seq(Key)
      /\ List(t.order) /\ t.items = Len(t.order) /\ t.items \in Nat
      /\ \A b \in 0 .. t.num - 1 : BucketOf(t.buckets[b], Mine(t.order, t.num, b))
      /\ DOMAIN t.buckets = 0 .. t.num - 1
  BY DEF Table
<1>2. PICK E, n : E = Elements(t.order) /\ n = t.num
  OBVIOUS
<1>3. IsFiniteSet(E) /\ Cardinality(E) = Len(t.order)
  BY <1>1, <1>2, ListCount
<1>4. PICK h : h = [k \in E |-> Ut!ToBkt(k, n)]
  OBVIOUS
<1>5. h \in [E -> 0 .. n - 1]
  <2>1. ASSUME NEW k \in E PROVE Ut!ToBkt(k, n) \in 0 .. n - 1
    <3>1. k \in Key
      BY <1>1, <1>2 DEF Elements
    <3> QED
      BY <1>1, <1>2, <3>1, InRange
  <2> QED
    BY <1>4, <2>1
<1>6. PICK f : f = [b \in DOMAIN t.buckets |-> Len(t.buckets[b].chain)]
  OBVIOUS
<1>7. ASSUME NEW b \in 0 .. n - 1
      PROVE  f[b] \in Nat /\ f[b] = Cardinality({k \in E : h[k] = b}) /\ t.buckets[b].count = Len(t.buckets[b].chain)
  <2>1. PICK c : c = t.buckets[b].chain
    OBVIOUS
  <2>2. List(c) /\ Elements(c) = Mine(t.order, t.num, b) /\ t.buckets[b].count = Len(c)
    BY <1>1, <1>2, <2>1 DEF BucketOf
  <2>3. Len(c) = Cardinality(Elements(c)) /\ Len(c) \in Nat
    BY <2>2, ListCount DEF List
  <2>4. Mine(t.order, t.num, b) = {k \in E : h[k] = b}
    BY <1>2, <1>4 DEF Mine
  <2>5. f[b] = Len(c)
    BY <1>1, <1>2, <1>6, <2>1
  <2> QED
    BY <2>1, <2>2, <2>3, <2>4, <2>5
<1>8. f \in [0 .. n - 1 -> Nat]
  BY <1>1, <1>2, <1>6, <1>7
<1>9. n \in Nat
  BY <1>1, <1>2
<1>10. \A b \in 0 .. n - 1 : f[b] = Cardinality({k \in E : h[k] = b})
  BY <1>7
<1>11. Ut!Total(f, n) = Cardinality(E)
  BY <1>3, <1>5, <1>8, <1>9, <1>10, TotalCounts
<1>12. t.items = Ut!Total(f, t.num)
  BY <1>1, <1>2, <1>3, <1>11
<1>13. \A b \in DOMAIN t.buckets : t.buckets[b].count = Len(t.buckets[b].chain)
  BY <1>1, <1>2, <1>7
<1> QED
  BY <1>1, <1>6, <1>12, <1>13 DEF Ut!Fsck

(* The larger of two numbers.                                              *)
LEMMA MaxOfTwo ==
  ASSUME NEW a \in Nat, NEW b \in Nat
  PROVE  Max({a, b}) = IF b < a THEN a ELSE b
<1>1. PICK m \in {a, b} : m = IF b < a THEN a ELSE b
  OBVIOUS
<1>2. \A y \in {a, b} : m >= y
  BY <1>1
<1>3. \A x \in {a, b} : (\A y \in {a, b} : x >= y) => x = m
  BY <1>1
<1> QED
  BY <1>1, <1>2, <1>3 DEF Max

(* A table in order is what HashTableSound asks for.                       *)
LEMMA TableSound ==
  ASSUME impl = "uthash" => TableOK(obj.table)
  PROVE  HashTableSound
<1> SUFFICES ASSUME impl = "uthash" PROVE HashTableSound
  BY DEF HashTableSound, HashSound, HashChains
<1>1. PICK t : t = obj.table
  OBVIOUS
<1>2. Table(t) /\ Bounded(t)
  BY <1>1 DEF TableOK
<1>3. t.buckets \in [0 .. t.num - 1 -> Chain] /\ DOMAIN t.buckets = 0 .. t.num - 1 /\ t.ideal \in Nat /\ List(t.order)
  BY <1>2 DEF Table
<1>4. \A c : List(c) => IsInjective(c) /\ ToSet(c) = Elements(c)
  <2> SUFFICES ASSUME NEW c, List(c) PROVE IsInjective(c) /\ ToSet(c) = Elements(c)
    OBVIOUS
  <2>1. DOMAIN c = 1 .. Len(c)
    BY DEF List
  <2> QED
    BY <2>1 DEF List, Elements, IsInjective, ToSet
<1>5. ASSUME NEW b \in DOMAIN t.buckets
      PROVE  LET c == t.buckets[b].chain
             IN IsInjective(c) /\ ToSet(c) = {k \in ToSet(t.order) : Ut!ToBkt(k, t.num) = b}
  <2>1. BucketOf(t.buckets[b], Mine(t.order, t.num, b))
    BY <1>2, <1>3 DEF Table
  <2> QED
    BY <1>3, <1>4, <2>1 DEF BucketOf, Mine
<1>6. HashSound
  <2>1. Ut!Fsck(t)
    BY <1>2, FsckOK
  <2> QED
    BY <1>1, <1>3, <1>4, <1>5, <2>1 DEF HashSound
<1>7. HashChains
  <2>1. Max({Threshold, t.ideal}) = Limit(t)
    <3>1. Threshold \in Nat
      BY AdaptersAssumption
    <3> QED
      BY <1>3, <3>1, MaxOfTwo DEF Limit
  <2> QED
    BY <1>1, <1>2, <1>3, <2>1 DEF HashChains, Bounded, Within
<1> QED
  BY <1>6, <1>7 DEF HashTableSound

-----------------------------------------------------------------------------
(* The specification.                                                      *)

(* The inductive invariant: who is in a function has a key to look for,    *)
(* only art.c adds in two steps, and the table is in order.                *)
HashInv ==
  /\ pc \in [Thread -> {"idle", "start", "in", "insert", "done"}]
  /\ arg \in [Thread -> Key \cup {NULL}]
  /\ \A t \in Thread : pc[t] # "idle" => arg[t] \in Key
  /\ \A t \in Thread : pc[t] = "insert" => impl = "art"
  /\ impl = "uthash" => TableOK(obj.table)

(* The calls of the adapters keep it if they leave the table in order.     *)
LEMMA FinishKeeps ==
  ASSUME HashInv, NEW t \in Thread, NEW x, NEW r, pc[t] # "idle",
         impl = "uthash" => TableOK(x.table), Finish(t, x, r)
  PROVE  HashInv'
<1>1. /\ pc' = [pc EXCEPT ![t] = "done"] /\ arg' = arg /\ impl' = impl /\ obj' = x
  BY DEF Finish, call
<1>2. pc' \in [Thread -> {"idle", "start", "in", "insert", "done"}]
  BY <1>1 DEF HashInv
<1>3. \A u \in Thread : pc'[u] # "idle" => arg'[u] \in Key
  BY <1>1 DEF HashInv
<1>4. \A u \in Thread : pc'[u] = "insert" => impl' = "art"
  BY <1>1 DEF HashInv
<1>5. impl' = "uthash" => TableOK(obj'.table)
  BY <1>1
<1> QED
  BY <1>1, <1>2, <1>3, <1>4, <1>5 DEF HashInv

(* Every step keeps it.                                                    *)
LEMMA HashStep ==
  ASSUME HashInv, [Next]_vars
  PROVE  HashInv'
<1> DEFINE Same == UNCHANGED <<impl, obj, pc, arg>>
<1>1. ASSUME Same PROVE HashInv'
  BY <1>1 DEF HashInv
<1>2. ASSUME NEW t \in Thread, NEW a \in Adds, NEW o, NEW v, Call(t, o, a[2], v) PROVE HashInv'
  <2>1. a[2] \in Key
    BY AdaptersAssumption
  <2>2. /\ pc' = [pc EXCEPT ![t] = IF impl = "art" THEN "start" ELSE "in"]
        /\ arg' = [arg EXCEPT ![t] = a[2]] /\ impl' = impl /\ obj' = obj
    BY <1>2 DEF Call
  <2>3. pc' \in [Thread -> {"idle", "start", "in", "insert", "done"}] /\ arg' \in [Thread -> Key \cup {NULL}]
    BY <2>1, <2>2 DEF HashInv
  <2>4. \A u \in Thread : pc'[u] # "idle" => arg'[u] \in Key
    BY <2>1, <2>2 DEF HashInv
  <2>5. \A u \in Thread : pc'[u] = "insert" => impl' = "art"
    BY <2>2 DEF HashInv
  <2> QED
    BY <2>2, <2>3, <2>4, <2>5 DEF HashInv
<1>3. ASSUME NEW t \in Thread, Enter(t) PROVE HashInv'
  <2>1. pc[t] = "start" /\ pc' = [pc EXCEPT ![t] = "in"] /\ UNCHANGED <<impl, obj, arg>>
    BY <1>3 DEF Enter, call
  <2> QED
    BY <2>1 DEF HashInv
<1>4. ASSUME NEW t \in Thread, Return(t) PROVE HashInv'
  <2>1. /\ pc' = [pc EXCEPT ![t] = "idle"] /\ arg' = [arg EXCEPT ![t] = NULL] /\ UNCHANGED <<impl, obj>>
    BY <1>4 DEF Return
  <2> QED
    BY <2>1 DEF HashInv
<1>5. ASSUME NEW t \in Thread, NEW x, NEW r, pc[t] # "idle", impl # "uthash", Finish(t, x, r) PROVE HashInv'
  BY <1>5, FinishKeeps
<1>6. ASSUME NEW t \in Thread, NEW r, pc[t] # "idle", Finish(t, obj, r) PROVE HashInv'
  <2>1. impl = "uthash" => TableOK(obj.table)
    BY DEF HashInv
  <2> QED
    BY <1>6, <2>1, FinishKeeps
<1>7. ASSUME Crash PROVE HashInv'
  BY <1>1, <1>7 DEF Crash, call
<1>8. ASSUME NEW t \in Thread, ArtAddSearch(t) \/ ArtAddInsert(t) \/ ArtFind(t) \/ ArtDel(t) PROVE HashInv'
  <2>0. pc[t] # "idle" /\ impl = "art"
    BY <1>8 DEF ArtAddSearch, ArtAddInsert, ArtFind, ArtDel, In, HashInv
  <2>1. CASE \E x, r : Finish(t, x, r)
    BY <1>5, <2>0, <2>1
  <2>2. CASE pc' = [pc EXCEPT ![t] = "insert"] /\ UNCHANGED <<impl, obj, arg>>
    BY <2>0, <2>2 DEF HashInv
  <2> QED
    BY <1>8, <2>1, <2>2 DEF ArtAddSearch, ArtAddInsert, ArtFind, ArtDel, call
<1>9. ASSUME NEW t \in Thread, BsdAdd(t) \/ BsdFind(t) \/ BsdDel(t) \/ BsdRemove(t) PROVE HashInv'
  <2>0. pc[t] # "idle" /\ impl # "uthash"
    BY <1>9 DEF BsdAdd, BsdFind, BsdDel, BsdRemove, In
  <2>1. \E x, r : Finish(t, x, r)
    BY <1>9 DEF BsdAdd, BsdFind, BsdDel, BsdRemove
  <2> QED
    BY <1>5, <2>0, <2>1
<1>10. ASSUME NEW t \in Thread, StlAdd(t) \/ StlFind(t) \/ StlDel(t) \/ SparseDel(t) PROVE HashInv'
  <2>0. pc[t] # "idle" /\ impl # "uthash"
    BY <1>10 DEF StlAdd, StlFind, StlDel, SparseDel, In, Container
  <2>1. Crash \/ \E x, r : Finish(t, x, r)
    BY <1>10 DEF StlAdd, StlFind, StlDel, SparseDel
  <2> QED
    BY <1>5, <1>7, <2>0, <2>1
<1>11. ASSUME NEW t \in Thread, UtFind(t) \/ UtDel(t) PROVE HashInv'
  <2>0. pc[t] # "idle"
    BY <1>11 DEF UtFind, UtDel, In
  <2>1. Crash \/ \E r : Finish(t, obj, r)
    BY <1>11 DEF UtFind, UtDel
  <2> QED
    BY <1>6, <1>7, <2>0, <2>1
<1>12. ASSUME NEW t \in Thread, UtAdd(t) \/ UtRemove(t) PROVE HashInv'
  <2>0. pc[t] # "idle" /\ impl = "uthash" /\ TableOK(obj.table) /\ arg[t] \in Key
    BY <1>12 DEF UtAdd, UtRemove, In, HashInv
  <2>1. PICK k, u : k = arg[t] /\ u = obj.table
    OBVIOUS
  <2>2. Ut!Find(u, k) <=> k \in Elements(u.order)
    BY <2>0, <2>1, FindOK DEF TableOK
  <2>3. ~Ut!Find(u, k) => TableOK(Ut!HashAdd(u, k))
    BY <2>0, <2>1, <2>2, HashAddOK
  <2>4. Ut!Find(u, k) => TableOK(Ut!HashDelete(u, k))
    BY <2>0, <2>1, <2>2, HashDeleteOK
  <2>5. \/ \E r : Finish(t, obj, r)
        \/ ~Ut!Find(u, k) /\ \E v, r : Finish(t, [table |-> Ut!HashAdd(u, k), val |-> v], r)
        \/ Ut!Find(u, k) /\ \E v, r : Finish(t, [table |-> Ut!HashDelete(u, k), val |-> v], r)
    BY <1>12, <2>1 DEF UtAdd, UtRemove
  <2>6. ASSUME NEW w, TableOK(w), NEW v, NEW r, Finish(t, [table |-> w, val |-> v], r) PROVE HashInv'
    <3>1. PICK x : x = [table |-> w, val |-> v]
      OBVIOUS
    <3>2. x.table = w /\ Finish(t, x, r)
      BY <2>6, <3>1
    <3> QED
      BY <2>0, <2>6, <3>2, FinishKeeps
  <2> QED
    BY <1>6, <2>0, <2>3, <2>4, <2>5, <2>6
<1>13. ASSUME NEW i, i # "uthash", NEW x, NEW w, Clears(i), Cleared(x, w) PROVE HashInv'
  BY <1>13 DEF Clears, Cleared, HashInv, call
<1>14. ASSUME UtClear PROVE HashInv'
  <2>1. impl = "uthash" /\ TableOK(obj.table)
    BY <1>14 DEF UtClear, Clears, HashInv
  <2>2. PICK w : w = Ut!HashDeleteAll(obj.table)
    OBVIOUS
  <2>3. TableOK(w)
    BY <2>1, <2>2, HashDeleteAllOK
  <2>4. obj' = [table |-> w, val |-> NoVals] /\ UNCHANGED <<impl, pc, arg>>
    BY <1>14, <2>2 DEF UtClear, Cleared, call
  <2>5. obj'.table = w
    BY <2>4
  <2> QED
    BY <2>1, <2>3, <2>4, <2>5 DEF HashInv
<1>15. ASSUME ArtClear \/ BsdClear \/ StlClear PROVE HashInv'
  <2>1. Crash \/ \E i, x, w : i # "uthash" /\ Clears(i) /\ Cleared(x, w)
    BY <1>15 DEF ArtClear, BsdClear, StlClear, Container
  <2> QED
    BY <1>7, <1>13, <2>1
<1>16. ASSUME NEW t \in Thread, WildCrash(t) PROVE HashInv'
  BY <1>7, <1>16 DEF WildCrash
<1>17. CASE Halted \/ UNCHANGED vars
  BY <1>1, <1>17 DEF Halted, vars
<1> HIDE DEF Same
<1> QED
  BY <1>2, <1>3, <1>4, <1>8, <1>9, <1>10, <1>11, <1>12, <1>14, <1>15, <1>16, <1>17 DEF Next

(* init returns an empty table.                                            *)
LEMMA HashInit == Init => HashInv
<1> SUFFICES ASSUME Init PROVE HashInv
  OBVIOUS
<1>1. impl = "uthash" => obj = UtNew
  BY DEF Init, Container
<1>2. UtNew.table = Ut!MakeTable
  BY DEF UtNew
<1>3. impl = "uthash" => TableOK(obj.table)
  BY <1>1, <1>2, MakeTableOK
<1>4. pc = [t \in Thread |-> "idle"] /\ arg = [t \in Thread |-> NULL]
  BY DEF Init
<1> QED
  BY <1>3, <1>4 DEF HashInv

(* Whatever is added, removed and cleared, and however the hash function   *)
(* spreads the keys, the table of uthash.c passes HASH_FSCK, HASH_FIND     *)
(* finds exactly what is in it, and its chains are bounded until it gives  *)
(* up expanding.                                                           *)
THEOREM HashTableStaysSound == Spec => []HashTableSound
<1>1. HashInv /\ [Next]_vars => HashInv'
  BY HashStep
<1>2. HashInv => HashTableSound
  BY TableSound DEF HashInv
<1> QED
  BY <1>1, <1>2, HashInit, PTL DEF Spec
=============================================================================
