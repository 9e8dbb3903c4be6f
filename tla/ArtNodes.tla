------------------------------ MODULE ArtNodes ------------------------------
(***************************************************************************)
(* The nodes of the adaptive radix tree: what find_child, the four         *)
(* add_child and the four remove_child of art.c do to the children of a    *)
(* node, for any node sizes and thresholds.                                *)
(***************************************************************************)
EXTENDS ArtSpec, Iteration, FiniteSetTheorems, TLAPS

-----------------------------------------------------------------------------
(* Numbers and sequences.                                                  *)

(* The sizes of the nodes are numbers in this order.                       *)
LEMMA Sizes ==
  /\ NByte \in Nat /\ MaxPrefix \in Nat /\ MaxLen \in Nat
  /\ Size4 \in Nat /\ Size16 \in Nat /\ Size48 \in Nat
  /\ Shrink16 \in Nat /\ Shrink48 \in Nat /\ Shrink256 \in Nat
  /\ 1 < Shrink16 /\ Shrink16 < Size4
  /\ Size4 < Size16 /\ Size16 < Size48 /\ Size48 < NByte
  /\ Shrink16 < Shrink48 /\ Shrink48 < Size16
  /\ Shrink48 < Shrink256 /\ Shrink256 < Size48
  /\ Byte = 0 .. NByte - 1 /\ 0 \in Byte
<1>1. {NByte, MaxPrefix, Size4, Size16, Size48, Shrink16, Shrink48, Shrink256, MaxLen} \subseteq Nat
  BY ArtAssumption
<1>2. /\ NByte \in Nat /\ MaxPrefix \in Nat /\ MaxLen \in Nat
      /\ Size4 \in Nat /\ Size16 \in Nat /\ Size48 \in Nat
      /\ Shrink16 \in Nat /\ Shrink48 \in Nat /\ Shrink256 \in Nat
  BY <1>1, Zenon
<1>3. /\ 1 < Shrink16 /\ Shrink16 < Size4
      /\ Size4 < Size16 /\ Size16 < Size48 /\ Size48 < NByte
      /\ Shrink16 < Shrink48 /\ Shrink48 < Size16
      /\ Shrink48 < Shrink256 /\ Shrink256 < Size48
  BY ArtAssumption
<1>4. 0 \in Byte
  BY <1>2, <1>3 DEF Byte
<1> QED
  BY <1>2, <1>3, <1>4 DEF Byte

(* The least element, if it is known ...                                   *)
LEMMA MinIs ==
  ASSUME NEW S \in SUBSET Int, NEW m \in S, \A y \in S : m <= y
  PROVE  Min(S) = m
<1>1. \A x \in S : (\A y \in S : x <= y) => x = m
  OBVIOUS
<1> QED
  BY <1>1 DEF Min

(* ... and if it is not.                                                   *)
LEMMA MinOf ==
  ASSUME NEW S \in SUBSET Nat, S # {}
  PROVE  Min(S) \in S /\ \A y \in S : Min(S) <= y
<1>1. PICK m \in S : \A y \in S : m <= y
  BY Least
<1>2. Min(S) = m
  BY <1>1, MinIs
<1> QED
  BY <1>1, <1>2

(* The least of one.                                                       *)
LEMMA MinOne ==
  ASSUME NEW x \in Nat
  PROVE  Min({x}) = x
<1>1. \A y \in {x} : x <= y
  OBVIOUS
<1> QED
  BY <1>1, MinIs

(* The lesser of two numbers.                                              *)
LEMMA MinTwo ==
  ASSUME NEW a \in Int, NEW b \in Int
  PROVE  Min({a, b}) = IF a <= b THEN a ELSE b
<1>1. PICK m \in {a, b} : m = IF a <= b THEN a ELSE b
  OBVIOUS
<1>2. \A y \in {a, b} : m <= y
  BY <1>1
<1>3. {a, b} \in SUBSET Int
  OBVIOUS
<1> QED
  BY <1>1, <1>2, <1>3, MinIs

(* The greater of two numbers.                                             *)
LEMMA MaxTwo ==
  ASSUME NEW a \in Int, NEW b \in Int
  PROVE  Max({a, b}) = IF b <= a THEN a ELSE b
<1>1. PICK m \in {a, b} : m = IF b <= a THEN a ELSE b
  OBVIOUS
<1>2. \A y \in {a, b} : m >= y
  BY <1>1
<1>3. \A x \in {a, b} : (\A y \in {a, b} : x >= y) => x = m
  BY <1>1
<1> QED
  BY <1>1, <1>2, <1>3 DEF Max

(* m is where the loop of Mismatch ends.                                   *)
Differs(s, t, depth, from, to, m) ==
  /\ m \in Int /\ from <= m /\ (m <= to \/ m = from)
  /\ \A i \in from .. m - 1 : s[i + 1] = t[depth + i + 1]
  /\ m < to => s[m + 1] # t[depth + m + 1]

(* Mismatch ends at the first difference.                                  *)
LEMMA MismatchIs ==
  ASSUME NEW s, NEW t, NEW depth \in Int, NEW from \in Int, NEW to \in Int
  PROVE  Differs(s, t, depth, from, to, Mismatch(s, t, depth, from, to))
<1> DEFINE D == {i \in from .. to - 1 : s[i + 1] # t[depth + i + 1]}
           end == IF to <= from THEN from ELSE to
           S == D \cup {end}
<1>1. Max({from, to}) = end
  BY MaxTwo
<1>2. Mismatch(s, t, depth, from, to) = Min(S)
  BY <1>1 DEF Mismatch
<1> DEFINE N == {x - from : x \in S}
<1>3. \A x \in S : x \in Int /\ from <= x /\ x <= end
  OBVIOUS
<1> HIDE DEF S
<1>4. N \in SUBSET Nat /\ end - from \in N
  BY <1>3 DEF S
<1>5. PICK j \in N : \A y \in N : j <= y
  <2> HIDE DEF N
  <2> QED
    BY <1>4, Least
<1>6. PICK m \in S : j = m - from
  BY <1>5
<1>7. \A y \in S : m <= y
  BY <1>3, <1>5, <1>6
<1>8. Min(S) = m
  BY <1>3, <1>7, MinIs
<1>9. from <= m /\ m \in Int /\ m <= end
  BY <1>3
<1>10. \A i \in from .. m - 1 : s[i + 1] = t[depth + i + 1]
  <2> SUFFICES ASSUME NEW i \in from .. m - 1, s[i + 1] # t[depth + i + 1] PROVE FALSE
    OBVIOUS
  <2>1. i \in D
    BY <1>9
  <2>2. m <= i
    BY <1>7, <2>1 DEF S
  <2> QED
    BY <1>9, <2>2
<1>11. m < to => s[m + 1] # t[depth + m + 1]
  BY <1>6, <1>9 DEF S
<1> QED
  BY <1>2, <1>8, <1>9, <1>10, <1>11 DEF Differs

(* a lists the elements of S, each once.                                   *)
Lists(a, S) ==
  /\ Cardinality(S) \in Nat /\ IsFiniteSet(S)
  /\ a \in [1 .. Cardinality(S) -> S]
  /\ \A x \in S : \E i \in 1 .. Cardinality(S) : a[i] = x
  /\ \A i, j \in 1 .. Cardinality(S) : a[i] = a[j] => i = j

(* a goes up.                                                              *)
Rising(a) == \A i, j \in DOMAIN a : i < j => a[i] < a[j]

(* Ascending lists a finite set of bytes in their order.                   *)
LEMMA AscendingIs ==
  ASSUME NEW S \in SUBSET Nat, IsFiniteSet(S)
  PROVE  Lists(Ascending(S), S) /\ Rising(Ascending(S))
<1>1. PICK n : n = Cardinality(S)
  OBVIOUS
<1>2. n \in Nat
  BY <1>1, FS_CardinalityType
<1> DEFINE Lesser(x) == {y \in S : y < x}
           rank == [x \in S |-> Cardinality(Lesser(x)) + 1]
<1>3. ASSUME NEW x \in S PROVE IsFiniteSet(Lesser(x)) /\ Cardinality(Lesser(x)) \in 0 .. n - 1
  <2>1. Lesser(x) \in SUBSET (S \ {x}) /\ Lesser(x) \in SUBSET S
    OBVIOUS
  <2>2. IsFiniteSet(S \ {x}) /\ Cardinality(S \ {x}) = n - 1
    BY <1>1, FS_RemoveElement
  <2> HIDE DEF Lesser
  <2>3. IsFiniteSet(Lesser(x)) /\ Cardinality(Lesser(x)) <= n - 1
    <3>1. PICK A, B : A = S \ {x} /\ B = Lesser(x)
      OBVIOUS
    <3>2. B \in SUBSET A /\ IsFiniteSet(A)
      BY <2>1, <2>2, <3>1
    <3>3. IsFiniteSet(B) /\ Cardinality(B) <= Cardinality(A)
      BY <3>2, FS_Subset
    <3> QED
      BY <2>2, <3>1, <3>3
  <2>4. Cardinality(Lesser(x)) \in Nat
    BY <2>3, FS_CardinalityType
  <2> QED
    BY <1>2, <2>3, <2>4
<1>4. ASSUME NEW x \in S, NEW z \in S, x < z PROVE Cardinality(Lesser(x)) < Cardinality(Lesser(z))
  <2>1. PICK A, B : A = Lesser(x) /\ B = Lesser(z)
    OBVIOUS
  <2>2. IsFiniteSet(A) /\ IsFiniteSet(B) /\ Cardinality(A) \in Int /\ Cardinality(B) \in Int
    BY <1>3, <2>1
  <2>3. x \notin A /\ A \cup {x} \in SUBSET B
    <3>1. x \in Nat /\ z \in Nat /\ ~(x < x)
      OBVIOUS
    <3>2. \A y \in S : y < x => y < z
      BY <1>4, <3>1
    <3> QED
      BY <1>4, <2>1, <3>1, <3>2, Zenon
  <2>4. Cardinality(A \cup {x}) = Cardinality(A) + 1
    BY <2>2, <2>3, FS_AddElement
  <2>5. Cardinality(A \cup {x}) <= Cardinality(B)
    <3>1. PICK C : C = A \cup {x}
      OBVIOUS
    <3>2. Cardinality(C) <= Cardinality(B)
      BY <2>2, <2>3, <3>1, FS_Subset
    <3> QED
      BY <3>1, <3>2
  <2>6. Cardinality(A) < Cardinality(B)
    BY <2>2, <2>4, <2>5
  <2> QED
    BY <2>1, <2>6
<1> HIDE DEF Lesser
<1>5. \A x, z \in S : Cardinality(Lesser(x)) = Cardinality(Lesser(z)) => x = z
  <2> SUFFICES ASSUME NEW x \in S, NEW z \in S, x # z PROVE Cardinality(Lesser(x)) # Cardinality(Lesser(z))
    OBVIOUS
  <2>1. x < z \/ z < x
    OBVIOUS
  <2>2. Cardinality(Lesser(x)) \in Int /\ Cardinality(Lesser(z)) \in Int
    BY <1>3
  <2> QED
    BY <1>4, <2>1, <2>2
<1>6. rank \in [S -> 1 .. n] /\ \A x \in S : rank[x] = Cardinality(Lesser(x)) + 1
  BY <1>2, <1>3
<1> HIDE DEF rank
<1>7. rank \in Injection(S, 1 .. n)
  <2>1. \A x, z \in S : rank[x] = rank[z] => x = z
    BY <1>3, <1>5, <1>6
  <2> QED
    BY <1>6, <2>1 DEF Injection, IsInjective
<1>8. IsFiniteSet(1 .. n) /\ Cardinality(1 .. n) = n
  BY SMTT(40), <1>2, FS_Interval
<1>9. rank \in Surjection(S, 1 .. n)
  BY <1>1, <1>7, <1>8, FS_Injection
<1>10. \A i \in 1 .. n : \E x \in S : Cardinality(Lesser(x)) = i - 1
  <2> SUFFICES ASSUME NEW i \in 1 .. n PROVE \E x \in S : Cardinality(Lesser(x)) = i - 1
    OBVIOUS
  <2>1. PICK x \in S : rank[x] = i
    BY <1>9 DEF Surjection
  <2> QED
    BY <1>3, <1>6, <2>1
<1>11. PICK a : a = Ascending(S)
  OBVIOUS
<1>12. a = [i \in 1 .. n |-> CHOOSE x \in S : Cardinality(Lesser(x)) = i - 1]
  BY <1>1, <1>11 DEF Ascending, Lesser
<1>13. ASSUME NEW i \in 1 .. n PROVE a[i] \in S /\ Cardinality(Lesser(a[i])) = i - 1
  BY <1>10, <1>12
<1>14. a \in [1 .. n -> S]
  BY <1>12, <1>13
<1>15. \A x \in S : \E i \in 1 .. n : a[i] = x
  <2> SUFFICES ASSUME NEW x \in S PROVE \E i \in 1 .. n : a[i] = x
    OBVIOUS
  <2>1. PICK i \in 1 .. n : i = rank[x]
    BY <1>6
  <2>2. Cardinality(Lesser(x)) = i - 1
    BY <1>3, <1>6, <2>1
  <2>3. a[i] = x
    BY <1>5, <1>13, <2>2
  <2> QED
    BY <2>3
<1>16. \A i, j \in 1 .. n : a[i] = a[j] => i = j
  <2> SUFFICES ASSUME NEW i \in 1 .. n, NEW j \in 1 .. n, a[i] = a[j] PROVE i = j
    OBVIOUS
  <2>1. i - 1 = j - 1
    BY <1>13
  <2> QED
    BY <2>1
<1>17. Rising(a)
  <2> SUFFICES ASSUME NEW i \in 1 .. n, NEW j \in 1 .. n, i < j PROVE a[i] < a[j]
    BY <1>14 DEF Rising
  <2>1. a[i] \in S /\ a[j] \in S /\ a[i] # a[j]
    BY <1>13, <1>16
  <2>2. a[i] \in Nat /\ a[j] \in Nat
    BY <2>1
  <2>3. ~(a[j] < a[i])
    <3> SUFFICES ASSUME a[j] < a[i] PROVE FALSE
      OBVIOUS
    <3>1. Cardinality(Lesser(a[j])) < Cardinality(Lesser(a[i]))
      BY <1>4, <2>1
    <3>2. Cardinality(Lesser(a[i])) = i - 1 /\ Cardinality(Lesser(a[j])) = j - 1
      BY <1>13
    <3> QED
      BY <3>1, <3>2
  <2> QED
    BY <2>1, <2>2, <2>3
<1> QED
  BY <1>1, <1>2, <1>11, <1>14, <1>15, <1>16, <1>17 DEF Lists

(* In particular it lists the set.                                         *)
LEMMA AscendingLists ==
  ASSUME NEW S \in SUBSET Nat, IsFiniteSet(S)
  PROVE  Lists(Ascending(S), S)
BY AscendingIs

(* Two sequences in a row.                                                 *)
LEMMA Joined ==
  ASSUME NEW T, NEW f \in Seq(T), NEW g \in Seq(T)
  PROVE  /\ f \o g \in Seq(T) /\ Len(f \o g) = Len(f) + Len(g)
         /\ \A i \in 1 .. Len(f) : (f \o g)[i] = f[i]
         /\ \A i \in 1 .. Len(g) : (f \o g)[Len(f) + i] = g[i]
OBVIOUS

(* InsertAt moves up what comes after.                                     *)
Inserted(s, i, e, t) ==
  /\ Len(t) = Len(s) + 1 /\ t[i] = e
  /\ \A x \in 1 .. Len(s) + 1 : t[x] = IF x < i THEN s[x] ELSE IF x = i THEN e ELSE s[x - 1]

(* The memmove and the store of add_child4 and add_child16.                *)
LEMMA InsertAtIs ==
  ASSUME NEW T, NEW s \in Seq(T), NEW i \in 1 .. Len(s) + 1, NEW e \in T
  PROVE  InsertAt(s, i, e) \in Seq(T) /\ Inserted(s, i, e, InsertAt(s, i, e))
<1> DEFINE f == SubSeq(s, 1, i - 1)
           g == SubSeq(s, i, Len(s))
<1>1. f \in Seq(T) /\ Len(f) = i - 1 /\ \A x \in 1 .. i - 1 : f[x] = s[x]
  OBVIOUS
<1>2. g \in Seq(T) /\ Len(g) = Len(s) - i + 1 /\ \A x \in 1 .. Len(s) - i + 1 : g[x] = s[x + i - 1]
  OBVIOUS
<1> HIDE DEF f, g
<1> DEFINE h == f \o <<e>>
           t == h \o g
<1>3. /\ h \in Seq(T) /\ Len(h) = i /\ h[i] = e
      /\ \A x \in 1 .. i - 1 : h[x] = s[x]
  BY <1>1
<1> HIDE DEF h
<1>4. t \in Seq(T) /\ Len(t) = Len(s) + 1
  <2>1. Len(s) \in Nat /\ i \in Nat /\ Len(g) \in Nat /\ Len(h) + Len(g) = Len(s) + 1
    BY <1>2, <1>3
  <2>2. t \in Seq(T) /\ Len(t) = Len(h) + Len(g)
    BY <1>2, <1>3, Joined
  <2> QED
    BY <2>1, <2>2
<1>5. ASSUME NEW x \in 1 .. Len(s) + 1
      PROVE  t[x] = IF x < i THEN s[x] ELSE IF x = i THEN e ELSE s[x - 1]
  <2>1. CASE x <= i
    BY <1>2, <1>3, <2>1
  <2>2. CASE x > i
    <3>1. x - i \in 1 .. Len(s) - i + 1 /\ (x - i) + i - 1 = x - 1
      BY <2>2
    <3>2. t[x] = g[x - i]
      BY <1>2, <1>3, <2>2
    <3> QED
      BY <1>2, <2>2, <3>1, <3>2
  <2> HIDE DEF t
  <2> QED
    BY <2>1, <2>2
<1>6. InsertAt(s, i, e) = t
  BY DEF InsertAt, f, g, h
<1> HIDE DEF t
<1>7. t[i] = e
  BY <1>5
<1> QED
  BY <1>4, <1>5, <1>6, <1>7 DEF Inserted

(* RemoveAt moves down what comes after.                                   *)
Deleted(s, i, t) ==
  /\ Len(t) = Len(s) - 1
  /\ \A x \in 1 .. Len(s) - 1 : t[x] = IF x < i THEN s[x] ELSE s[x + 1]

(* The memmove of remove_child4 and remove_child16.                        *)
LEMMA RemoveAtIs ==
  ASSUME NEW T, NEW s \in Seq(T), NEW i \in 1 .. Len(s)
  PROVE  RemoveAt(s, i) \in Seq(T) /\ Deleted(s, i, RemoveAt(s, i))
<1> DEFINE f == SubSeq(s, 1, i - 1)
           g == SubSeq(s, i + 1, Len(s))
<1>1. f \in Seq(T) /\ Len(f) = i - 1 /\ \A x \in 1 .. i - 1 : f[x] = s[x]
  OBVIOUS
<1>2. g \in Seq(T) /\ Len(g) = Len(s) - i /\ \A x \in 1 .. Len(s) - i : g[x] = s[x + i]
  OBVIOUS
<1> HIDE DEF f, g
<1>3. f \o g \in Seq(T) /\ Len(f \o g) = Len(s) - 1
  <2>1. Len(s) \in Nat /\ i \in Nat /\ Len(f) + Len(g) = Len(s) - 1
    BY <1>1, <1>2
  <2>2. f \o g \in Seq(T) /\ Len(f \o g) = Len(f) + Len(g)
    BY <1>1, <1>2, Joined
  <2> QED
    BY <2>1, <2>2
<1>4. ASSUME NEW x \in 1 .. Len(s) - 1 PROVE (f \o g)[x] = IF x < i THEN s[x] ELSE s[x + 1]
  <2>1. CASE x < i
    BY <1>1, <1>2, <2>1
  <2>2. CASE ~(x < i)
    <3>1. x - (i - 1) \in 1 .. Len(s) - i /\ (x - (i - 1)) + i = x + 1
      BY <2>2
    <3>2. (f \o g)[x] = g[x - (i - 1)]
      BY <1>1, <1>2, <2>2
    <3> QED
      BY <1>2, <2>2, <3>1, <3>2
  <2> QED
    BY <2>1, <2>2
<1> QED
  BY <1>3, <1>4 DEF RemoveAt, f, g, Deleted

-----------------------------------------------------------------------------
(* The shapes of nodes.                                                    *)

Kind == {"node4", "node16", "node48", "node256"}
Kids(n) == {n.children[i] : i \in DOMAIN n.children}
Count(n) == Cardinality(Used(n))

Record(n) ==
  n \in [kind : Kind, num : Nat, plen : {n.plen}, partial : {n.partial},
         keys : {n.keys}, children : {n.children}]

(* A node4 or node16: keys and children in step.                           *)
Small(n, max) ==
  /\ n.keys \in Seq(Byte) /\ Len(n.keys) = n.num /\ n.num <= max
  /\ n.children \in Seq(Kids(n)) /\ Len(n.children) = n.num
  /\ \A i, j \in 1 .. n.num : n.keys[i] = n.keys[j] => i = j
  /\ \A i \in 1 .. n.num : n.children[i] # Nil

(* A node48: the bytes that have a child share no slot.                    *)
Mapped(n) ==
  /\ n.keys \in [Byte -> 0 .. Size48]
  /\ n.children \in [1 .. Size48 -> Kids(n)]
  /\ \A b, c \in Byte : n.keys[b] = n.keys[c] /\ n.keys[b] # 0 => b = c
  /\ \A i \in 1 .. Size48 : n.children[i] # Nil <=> \E c \in Byte : n.keys[c] = i
  /\ n.num = Count(n)

(* A node256.                                                              *)
Direct(n) ==
  /\ n.children \in [Byte -> Kids(n)]
  /\ n.num = Count(n) % NByte

Shape(n) ==
  /\ Record(n)
  /\ n.kind = "node4" => Small(n, Size4)
  /\ n.kind = "node16" => Small(n, Size16)
  /\ n.kind = "node48" => Mapped(n)
  /\ n.kind = "node256" => Direct(n)

(* A node is not larger than its children need.                            *)
Fit(n) ==
  /\ n.kind = "node4" => 2 <= Count(n)
  /\ n.kind = "node16" => Shrink16 + 1 <= Count(n)
  /\ n.kind = "node48" => Shrink48 + 1 <= Count(n)
  /\ n.kind = "node256" => Shrink256 < Count(n)

(* find_child of a small node finds the only place of a byte.              *)
LEMMA SmallFind ==
  ASSUME NEW n, NEW max, Small(n, max), n.kind \in {"node4", "node16"}, NEW c
  PROVE  \A s : s \in FindChild(n, c) <=> s \in 1 .. n.num /\ n.keys[s] = c
<1>1. PICK m : m = {i \in 1 .. n.num : n.keys[i] = c}
  OBVIOUS
<1>2. FindChild(n, c) = IF m = {} THEN {} ELSE {Min(m)}
  BY <1>1 DEF FindChild
<1>3. n.num \in Nat
  BY DEF Small
<1>4. CASE m = {}
  BY <1>1, <1>2, <1>4
<1>5. CASE m # {}
  <2>1. PICK i \in m : TRUE
    BY <1>5
  <2>2. m = {i}
    BY <1>1, <2>1 DEF Small
  <2>3. Min(m) = i
    BY <1>1, <1>3, <2>1, <2>2, MinOne
  <2>4. FindChild(n, c) = {i}
    BY <1>2, <1>5, <2>3
  <2> QED
    BY <1>1, <2>1, <2>2, <2>4
<1> QED
  BY <1>4, <1>5

(* The interface of the four kinds of nodes: find_child gives the slot of  *)
(* a byte or none, and there is one byte for each slot in use.             *)
Indexed(n) ==
  /\ \A c \in Byte : \A s \in FindChild(n, c) :
       /\ FindChild(n, c) = {s} /\ s \in Used(n)
       /\ Child(n, c) = n.children[s] /\ n.children[s] # Nil
  /\ \A s \in Used(n) : s \in Nat /\ s \in DOMAIN n.children /\ \E c \in Byte : s \in FindChild(n, c)
  /\ \A b, c \in Byte : \A s \in FindChild(n, b) : s \in FindChild(n, c) => b = c
  /\ IsFiniteSet(Used(n)) /\ Count(n) \in Nat
  /\ n.num = Count(n) % NByte

(* A small remainder.                                                      *)
LEMMA Remainder ==
  ASSUME NEW a \in Nat, NEW n \in Nat, a < n
  PROVE  a % n = a
OBVIOUS

(* A small node is such a node.                                            *)
LEMMA SmallIndexed ==
  ASSUME NEW n, NEW max \in Nat, Small(n, max), max < NByte, n.kind \in {"node4", "node16"}
  PROVE  Indexed(n) /\ Used(n) = 1 .. n.num /\ Count(n) = n.num /\ Count(n) <= max
<1>1. Used(n) = 1 .. n.num
  BY DEF Used
<1>2. n.num \in Nat /\ n.num < NByte /\ NByte \in Nat
  BY Sizes DEF Small
<1>3. IsFiniteSet(1 .. n.num) /\ Cardinality(1 .. n.num) = n.num
  <2>1. PICK a \in Nat : a = n.num
    BY <1>2
  <2>2. IsFiniteSet(1 .. a) /\ Cardinality(1 .. a) = a
    BY SMTT(40), FS_Interval
  <2> QED
    BY <2>1, <2>2
<1>4. IsFiniteSet(Used(n)) /\ Count(n) = n.num
  BY <1>1, <1>3 DEF Count
<1>5. n.num = Count(n) % NByte
  BY <1>2, <1>4, Remainder
<1>6. ASSUME NEW c \in Byte, NEW s \in FindChild(n, c)
      PROVE  /\ FindChild(n, c) = {s} /\ s \in Used(n)
             /\ Child(n, c) = n.children[s] /\ n.children[s] # Nil
  <2>1. s \in 1 .. n.num /\ n.keys[s] = c
    BY SmallFind
  <2>2. \A u \in FindChild(n, c) : u = s
    <3>1. \A u \in FindChild(n, c) : u \in 1 .. n.num /\ n.keys[u] = c
      BY SmallFind
    <3> QED
      BY <2>1, <3>1 DEF Small
  <2>3. FindChild(n, c) = {s}
    BY <2>2
  <2>4. Min({s}) = s
    BY <1>2, <2>1, MinOne
  <2>5. Child(n, c) = n.children[s]
    BY <2>3, <2>4 DEF Child
  <2> QED
    BY <1>1, <2>1, <2>3, <2>5 DEF Small
<1>7. ASSUME NEW s \in Used(n) PROVE s \in Nat /\ s \in DOMAIN n.children /\ \E c \in Byte : s \in FindChild(n, c)
  <2>1. s \in Nat /\ s \in DOMAIN n.children /\ n.keys[s] \in Byte
    BY <1>1, <1>2 DEF Small
  <2>2. s \in FindChild(n, n.keys[s])
    BY <1>1, SmallFind
  <2> QED
    BY <2>1, <2>2
<1>8. ASSUME NEW b \in Byte, NEW c \in Byte, NEW s \in FindChild(n, b), s \in FindChild(n, c) PROVE b = c
  <2>1. n.keys[s] = b
    BY SmallFind
  <2>2. n.keys[s] = c
    BY <1>8, SmallFind
  <2> QED
    BY <2>1, <2>2
<1>9. Indexed(n)
  BY <1>2, <1>4, <1>5, <1>6, <1>7, <1>8 DEF Indexed
<1> QED
  BY <1>1, <1>4, <1>9 DEF Small

(* A node48 is such a node.                                                *)
LEMMA MappedIndexed ==
  ASSUME NEW n, Mapped(n), n.kind = "node48"
  PROVE  /\ Indexed(n) /\ Used(n) \in SUBSET (1 .. Size48) /\ Count(n) <= Size48
         /\ Used(n) = {i \in 1 .. Size48 : n.children[i] # Nil}
         /\ \A c \in Byte : FindChild(n, c) = {n.keys[c]} \ {0}
<1>1. Used(n) = {n.keys[c] : c \in Byte} \ {0}
  BY DEF Used
<1>2. ASSUME NEW c \in Byte PROVE n.keys[c] \in 0 .. Size48 /\ FindChild(n, c) = {n.keys[c]} \ {0}
  BY DEF Mapped, FindChild
<1>3. Used(n) \in SUBSET (1 .. Size48)
  BY <1>1, <1>2, Sizes
<1>4. Used(n) = {i \in 1 .. Size48 : n.children[i] # Nil}
  <2>1. \A i \in 1 .. Size48 : i \in Used(n) <=> \E c \in Byte : n.keys[c] = i
    BY <1>1
  <2> QED
    BY <1>3, <2>1 DEF Mapped
<1>5. IsFiniteSet(Used(n)) /\ Count(n) \in Nat /\ Count(n) <= Size48
  <2>1. IsFiniteSet(1 .. Size48) /\ Cardinality(1 .. Size48) = Size48
    <3>1. PICK a \in Nat : a = Size48
      BY Sizes
    <3>2. IsFiniteSet(1 .. a) /\ Cardinality(1 .. a) = a
      BY SMTT(40), FS_Interval
    <3> QED
      BY <3>1, <3>2
  <2>2. PICK U, I : U = Used(n) /\ I = 1 .. Size48
    OBVIOUS
  <2>3. IsFiniteSet(U) /\ Cardinality(U) <= Cardinality(I)
    BY <1>3, <2>1, <2>2, FS_Subset
  <2>4. Cardinality(U) \in Nat
    BY <2>3, FS_CardinalityType
  <2> QED
    BY <2>1, <2>2, <2>3, <2>4 DEF Count
<1>6. n.num = Count(n) % NByte
  BY <1>5, Sizes, Remainder DEF Mapped
<1>7. ASSUME NEW c \in Byte, NEW s \in FindChild(n, c)
      PROVE  /\ FindChild(n, c) = {s} /\ s \in Used(n)
             /\ Child(n, c) = n.children[s] /\ n.children[s] # Nil
  <2>1. s = n.keys[c] /\ s # 0 /\ FindChild(n, c) = {s}
    BY <1>2
  <2>2. s \in Used(n)
    BY <1>1, <2>1
  <2>3. s \in 1 .. Size48 /\ s \in Nat
    BY <1>3, <2>2
  <2>4. Min({s}) = s
    BY <2>3, MinOne
  <2>5. Child(n, c) = n.children[s]
    BY <2>1, <2>4 DEF Child
  <2> QED
    BY <1>4, <2>1, <2>2, <2>5
<1>8. ASSUME NEW s \in Used(n) PROVE s \in Nat /\ s \in DOMAIN n.children /\ \E c \in Byte : s \in FindChild(n, c)
  <2>1. s \in 1 .. Size48
    BY <1>3
  <2>2. s \in Nat /\ s # 0 /\ s \in DOMAIN n.children
    BY <2>1, Sizes DEF Mapped
  <2>3. PICK c \in Byte : n.keys[c] = s
    BY <1>1
  <2>4. s \in FindChild(n, c)
    BY <1>2, <2>2, <2>3
  <2> QED
    BY <2>2, <2>4
<1>9. ASSUME NEW b \in Byte, NEW c \in Byte, NEW s \in FindChild(n, b), s \in FindChild(n, c) PROVE b = c
  <2>1. s = n.keys[b] /\ s = n.keys[c] /\ s # 0
    BY <1>2, <1>9
  <2> QED
    BY <2>1, ZenonT(30) DEF Mapped
<1>10. Indexed(n)
  BY <1>5, <1>6, <1>7, <1>8, <1>9 DEF Indexed
<1> QED
  BY <1>2, <1>3, <1>4, <1>5, <1>10

(* Bytes are finitely many.                                                *)
LEMMA BytesFinite == IsFiniteSet(Byte) /\ Cardinality(Byte) = NByte /\ Byte \in SUBSET Nat
<1>1. PICK a \in Nat : a = NByte /\ 0 < a
  BY Sizes
<1>2. IsFiniteSet(0 .. a - 1) /\ Cardinality(0 .. a - 1) = a
  BY SMTT(40), <1>1, FS_Interval
<1> QED
  BY <1>1, <1>2 DEF Byte

(* A node256 is such a node.                                               *)
LEMMA DirectIndexed ==
  ASSUME NEW n, Direct(n), n.kind = "node256"
  PROVE  /\ Indexed(n) /\ Used(n) = {c \in Byte : n.children[c] # Nil} /\ Count(n) <= NByte
         /\ \A c \in Byte : FindChild(n, c) = {b \in {c} : n.children[b] # Nil}
<1>1. Used(n) = {c \in Byte : n.children[c] # Nil} /\ Used(n) \in SUBSET Byte
  BY DEF Used
<1>2. ASSUME NEW c \in Byte PROVE FindChild(n, c) = {b \in {c} : n.children[b] # Nil} /\ c \in Nat
  BY BytesFinite DEF FindChild
<1>3. IsFiniteSet(Used(n)) /\ Count(n) \in Nat /\ Count(n) <= NByte
  <2>1. PICK U, I : U = Used(n) /\ I = Byte
    OBVIOUS
  <2>2. IsFiniteSet(U) /\ Cardinality(U) <= Cardinality(I)
    BY <1>1, <2>1, BytesFinite, FS_Subset
  <2>3. Cardinality(U) \in Nat
    BY <2>2, FS_CardinalityType
  <2> QED
    BY <2>1, <2>2, <2>3, BytesFinite DEF Count
<1>4. ASSUME NEW c \in Byte, NEW s \in FindChild(n, c)
      PROVE  /\ FindChild(n, c) = {s} /\ s \in Used(n) /\ s = c
             /\ Child(n, c) = n.children[s] /\ n.children[s] # Nil
  <2>1. s = c /\ FindChild(n, c) = {s} /\ n.children[s] # Nil /\ s \in Nat
    BY <1>2
  <2>2. Min({s}) = s
    BY <2>1, MinOne
  <2>3. Child(n, c) = n.children[s]
    BY <2>1, <2>2 DEF Child
  <2> QED
    BY <1>1, <2>1, <2>3
<1>5. ASSUME NEW s \in Used(n) PROVE s \in Nat /\ s \in DOMAIN n.children /\ \E c \in Byte : s \in FindChild(n, c)
  <2>1. s \in Byte /\ n.children[s] # Nil
    BY <1>1
  <2>2. s \in FindChild(n, s)
    BY <1>2, <2>1
  <2>3. s \in DOMAIN n.children
    BY <2>1 DEF Direct
  <2> QED
    BY <1>2, <2>1, <2>2, <2>3
<1>6. n.num = Count(n) % NByte
  BY DEF Direct
<1>7. Indexed(n)
  BY <1>3, <1>4, <1>5, <1>6 DEF Indexed
<1> QED
  BY <1>1, <1>2, <1>3, <1>7

(* All kinds are such nodes.                                               *)
LEMMA ShapeIndexed ==
  ASSUME NEW n, Shape(n)
  PROVE  Indexed(n)
<1>1. n.kind \in Kind
  BY DEF Shape, Record
<1>2. CASE n.kind = "node4"
  BY <1>2, Sizes, SmallIndexed DEF Shape
<1>3. CASE n.kind = "node16"
  BY <1>3, Sizes, SmallIndexed DEF Shape
<1>4. CASE n.kind = "node48"
  BY <1>4, MappedIndexed DEF Shape
<1>5. CASE n.kind = "node256"
  BY <1>5, DirectIndexed DEF Shape
<1> QED
  BY <1>1, <1>2, <1>3, <1>4, <1>5 DEF Kind

-----------------------------------------------------------------------------
(* Adding a child.                                                         *)

(* y is node n with child x under byte c.                                  *)
Added(n, c, x, y) ==
  /\ Shape(y) /\ y.plen = n.plen /\ y.partial = n.partial
  /\ Count(y) = Count(n) + 1
  /\ \A b \in Byte : Child(y, b) = IF b = c THEN x ELSE Child(n, b)
  /\ y.kind = n.kind \/ Fit(y)

(* What a child is, from the children of a node256.                        *)
LEMMA DirectChild ==
  ASSUME NEW n, Direct(n), n.kind = "node256", NEW c \in Byte
  PROVE  Child(n, c) = n.children[c]
<1>1. FindChild(n, c) = {b \in {c} : n.children[b] # Nil} /\ c \in Nat
  BY DirectIndexed, BytesFinite
<1>2. CASE n.children[c] = Nil
  BY <1>1, <1>2 DEF Child
<1>3. CASE n.children[c] # Nil
  <2>1. FindChild(n, c) = {c}
    BY <1>1, <1>3
  <2>2. Min({c}) = c
    BY <1>1, MinOne
  <2> QED
    BY <2>1, <2>2 DEF Child
<1> QED
  BY <1>2, <1>3

(* A function has the values it has.                                       *)
LEMMA OwnRange ==
  ASSUME NEW D, NEW T, NEW f \in [D -> T]
  PROVE  f \in [D -> {f[i] : i \in DOMAIN f}]
OBVIOUS

(* add_child256.                                                           *)
LEMMA AddChild256OK ==
  ASSUME NEW n, Record(n), n.kind = "node256", Direct(n), NEW c \in Byte, Child(n, c) = Nil, NEW x, x # Nil
  PROVE  Added(n, c, x, AddChild256(n, c, x))
<1>1. PICK y : y = AddChild256(n, c, x)
  OBVIOUS
<1>2. PICK ch : ch = [n.children EXCEPT ![c] = x]
  OBVIOUS
<1>3. y = [kind |-> "node256", num |-> (n.num + 1) % NByte, plen |-> n.plen, partial |-> n.partial,
           keys |-> n.keys, children |-> ch]
  <2>1. y = [n EXCEPT !.num = (n.num + 1) % NByte, !.children = ch]
    BY <1>1, <1>2 DEF AddChild256
  <2> QED
    BY <2>1 DEF Record
<1>4. /\ y.kind = "node256" /\ y.num = (n.num + 1) % NByte /\ y.plen = n.plen /\ y.partial = n.partial
      /\ y.keys = n.keys /\ y.children = ch
  BY <1>3
<1>5. n.children \in [Byte -> Kids(n)] /\ DOMAIN n.children = Byte
  BY DEF Direct
<1>6. ch \in [Byte -> Kids(n) \cup {x}] /\ \A b \in Byte : ch[b] = IF b = c THEN x ELSE n.children[b]
  BY <1>2, <1>5
<1>7. y.children \in [Byte -> Kids(y)]
  <2>1. ch \in [Byte -> {ch[i] : i \in DOMAIN ch}]
    BY <1>6, OwnRange
  <2> QED
    BY <1>4, <2>1 DEF Kids
<1>8. c \notin Used(n) /\ Used(n) = {b \in Byte : n.children[b] # Nil}
  BY DirectChild, DirectIndexed
<1>9. Used(y) = Used(n) \cup {c}
  <2>1. Used(y) = {b \in Byte : y.children[b] # Nil}
    BY <1>4 DEF Used
  <2> QED
    BY <1>4, <1>6, <1>8, <2>1
<1>10. IsFiniteSet(Used(n)) /\ Count(n) \in Nat /\ n.num = Count(n) % NByte
  BY DirectIndexed DEF Indexed
<1>11. Count(y) = Count(n) + 1
  <2>1. PICK U : U = Used(n)
    OBVIOUS
  <2>2. Cardinality(U \cup {c}) = Cardinality(U) + 1
    BY <1>8, <1>10, <2>1, FS_AddElement
  <2> QED
    BY <1>9, <2>1, <2>2 DEF Count
<1>12. Count(n) < NByte
  <2>1. PICK U, B : U = Used(n) /\ B = Byte \ {c}
    OBVIOUS
  <2>2. IsFiniteSet(B) /\ Cardinality(B) = NByte - 1
    BY <2>1, BytesFinite, FS_RemoveElement
  <2>3. U \in SUBSET B
    BY <1>8, <2>1
  <2>4. Cardinality(U) <= Cardinality(B)
    BY <2>2, <2>3, FS_Subset
  <2> QED
    BY <1>10, <2>1, <2>2, <2>4, Sizes DEF Count
<1>13. y.num = Count(y) % NByte
  <2>1. n.num = Count(n)
    BY <1>10, <1>12, Sizes, Remainder
  <2> QED
    BY <1>4, <1>11, <2>1
<1>14. Direct(y)
  BY <1>7, <1>13 DEF Direct
<1>15. y.num \in Nat
  <2>1. PICK a \in Nat, b \in Nat \ {0} : a = n.num + 1 /\ b = NByte
    BY Sizes DEF Record
  <2>2. a % b \in Nat
    BY Z3
  <2> QED
    BY <1>4, <2>1, <2>2
<1>16. Record(y)
  BY <1>3, <1>4, <1>15 DEF Record, Kind
<1>17. Shape(y)
  BY <1>4, <1>14, <1>16 DEF Shape
<1>18. \A b \in Byte : Child(y, b) = IF b = c THEN x ELSE Child(n, b)
  <2> SUFFICES ASSUME NEW b \in Byte PROVE Child(y, b) = IF b = c THEN x ELSE Child(n, b)
    OBVIOUS
  <2>1. Child(y, b) = y.children[b]
    BY <1>4, <1>14, DirectChild
  <2>2. Child(n, b) = n.children[b]
    BY DirectChild
  <2> QED
    BY <1>4, <1>6, <2>1, <2>2
<1> QED
  BY <1>1, <1>4, <1>11, <1>17, <1>18 DEF Added

(* What a child is, from the key map of a node48.                          *)
LEMMA MappedChild ==
  ASSUME NEW n, Mapped(n), n.kind = "node48", NEW c \in Byte
  PROVE  /\ n.keys[c] = 0 => Child(n, c) = Nil
         /\ n.keys[c] # 0 => /\ n.keys[c] \in 1 .. Size48 /\ n.keys[c] \in Nat
                             /\ Child(n, c) = n.children[n.keys[c]] /\ Child(n, c) # Nil
<1>1. FindChild(n, c) = {n.keys[c]} \ {0} /\ n.keys[c] \in 0 .. Size48
  BY MappedIndexed DEF Mapped
<1>2. ASSUME n.keys[c] = 0 PROVE Child(n, c) = Nil
  BY <1>1, <1>2 DEF Child
<1>3. ASSUME n.keys[c] # 0
      PROVE  /\ n.keys[c] \in 1 .. Size48 /\ n.keys[c] \in Nat
             /\ Child(n, c) = n.children[n.keys[c]] /\ Child(n, c) # Nil
  <2>1. n.keys[c] \in 1 .. Size48 /\ n.keys[c] \in Nat
    BY <1>1, <1>3, Sizes
  <2>2. n.keys[c] \in FindChild(n, c)
    BY <1>1, <1>3
  <2>3. Child(n, c) = n.children[n.keys[c]] /\ Child(n, c) # Nil
    BY <2>2, MappedIndexed DEF Indexed
  <2> QED
    BY <2>1, <2>3
<1> QED
  BY <1>2, <1>3

(* A node48 becomes a node256 with the same children.                      *)
LEMMA To256OK ==
  ASSUME NEW n, Record(n), n.kind = "node48", Mapped(n), NEW u, u = To256(n)
  PROVE  /\ Record(u) /\ u.kind = "node256" /\ Direct(u) /\ u.plen = n.plen /\ u.partial = n.partial
         /\ Count(u) = Count(n) /\ \A b \in Byte : Child(u, b) = Child(n, b)
<1>1. PICK ch : ch = [b \in Byte |-> IF n.keys[b] = 0 THEN Nil ELSE n.children[n.keys[b]]]
  OBVIOUS
<1>2. u = [kind |-> "node256", num |-> n.num, plen |-> n.plen, partial |-> n.partial,
           keys |-> <<>>, children |-> ch]
  <2>1. u = [n EXCEPT !.kind = "node256", !.keys = <<>>, !.children = ch]
    BY <1>1 DEF To256
  <2> QED
    BY <2>1 DEF Record
<1>3. /\ u.kind = "node256" /\ u.num = n.num /\ u.plen = n.plen /\ u.partial = n.partial
      /\ u.children = ch
  BY <1>2
<1>4. u.children \in [Byte -> Kids(u)]
  <2>1. ch \in [Byte -> {ch[b] : b \in Byte}]
    BY <1>1
  <2>2. ch \in [Byte -> {ch[i] : i \in DOMAIN ch}]
    BY <2>1, OwnRange
  <2> QED
    BY <1>3, <2>2 DEF Kids
<1>5. \A b \in Byte : ch[b] = Child(n, b) /\ (ch[b] # Nil <=> n.keys[b] # 0)
  BY <1>1, MappedChild
<1>6. Used(u) = {b \in Byte : n.keys[b] # 0}
  BY <1>3, <1>5 DEF Used
<1>7. PICK U, V : U = Used(u) /\ V = Used(n)
  OBVIOUS
<1>8. PICK f : f = [b \in U |-> n.keys[b]]
  OBVIOUS
<1>9. f \in Bijection(U, V)
  <2>1. V = {n.keys[c] : c \in Byte} \ {0}
    BY <1>7 DEF Used
  <2>2. f \in [U -> V]
    BY <1>6, <1>7, <1>8, <2>1
  <2>3. IsInjective(f)
    BY <1>6, <1>7, <1>8 DEF Mapped, IsInjective
  <2>4. \A s \in V : \E b \in U : f[b] = s
    BY <1>6, <1>7, <1>8, <2>1
  <2> QED
    BY <2>2, <2>3, <2>4 DEF Bijection, Injection, Surjection
<1>10. IsFiniteSet(U)
  BY <1>6, <1>7, BytesFinite, FS_Subset
<1>11. Cardinality(V) = Cardinality(U)
  BY <1>9, <1>10, FS_Bijection DEF ExistsBijection
<1>12. Count(u) = Count(n)
  BY <1>7, <1>11 DEF Count
<1>13. u.num = Count(u) % NByte /\ u.num \in Nat
  BY <1>3, <1>12, MappedIndexed DEF Indexed, Record
<1>14. Direct(u)
  BY <1>4, <1>13 DEF Direct
<1>15. Record(u)
  BY <1>2, <1>3, <1>13 DEF Record, Kind
<1>16. \A b \in Byte : Child(u, b) = Child(n, b)
  BY <1>3, <1>5, <1>14, DirectChild
<1> QED
  BY <1>3, <1>12, <1>14, <1>15, <1>16

(* add_child48.                                                            *)
LEMMA AddChild48OK ==
  ASSUME NEW n, Record(n), n.kind = "node48", Mapped(n), NEW c \in Byte, Child(n, c) = Nil, NEW x, x # Nil
  PROVE  Added(n, c, x, AddChild48(n, c, x))
<1>1. PICK y : y = AddChild48(n, c, x)
  OBVIOUS
<1>2. n.num = Count(n) /\ Count(n) \in Nat /\ Count(n) <= Size48
  BY MappedIndexed DEF Mapped, Indexed
<1>3. CASE n.num < Size48
  <2>1. PICK F : F = {i \in DOMAIN n.children : n.children[i] = Nil}
    OBVIOUS
  <2>2. DOMAIN n.children = 1 .. Size48 /\ n.children \in [1 .. Size48 -> Kids(n)] /\ n.keys \in [Byte -> 0 .. Size48]
    BY DEF Mapped
  <2>3. Used(n) = {i \in 1 .. Size48 : n.children[i] # Nil}
    BY MappedIndexed
  <2>4. F # {} /\ F \in SUBSET Nat /\ F \in SUBSET (1 .. Size48)
    <3>1. F \in SUBSET (1 .. Size48)
      BY <2>1, <2>2
    <3>2. ASSUME F = {} PROVE FALSE
      <4>1. Used(n) = 1 .. Size48
        BY <2>1, <2>2, <2>3, <3>2
      <4>2. Cardinality(1 .. Size48) = Size48
        <5>1. PICK a \in Nat : a = Size48
          BY Sizes
        <5>2. Cardinality(1 .. a) = a
          BY SMTT(40), FS_Interval
        <5> QED
          BY <5>1, <5>2
      <4> QED
        BY <1>2, <1>3, <4>1, <4>2, Sizes DEF Count
    <3> QED
      BY <3>1, <3>2, Sizes
  <2>5. PICK pos : pos = Min(F)
    OBVIOUS
  <2>6. pos \in F
    BY <2>4, <2>5, MinOf
  <2>7. pos \in 1 .. Size48 /\ n.children[pos] = Nil /\ pos \notin Used(n) /\ pos # 0
    BY <2>1, <2>3, <2>4, <2>6, Sizes
  <2>8. PICK ch, ks : ch = [n.children EXCEPT ![pos] = x] /\ ks = [n.keys EXCEPT ![c] = pos]
    OBVIOUS
  <2>9. y = [kind |-> "node48", num |-> n.num + 1, plen |-> n.plen, partial |-> n.partial,
             keys |-> ks, children |-> ch]
    <3>1. y = [n EXCEPT !.num = n.num + 1, !.keys = ks, !.children = ch]
      BY <1>1, <1>3, <2>1, <2>5, <2>8 DEF AddChild48
    <3> QED
      BY <3>1 DEF Record
  <2>10. /\ y.kind = "node48" /\ y.num = n.num + 1 /\ y.plen = n.plen /\ y.partial = n.partial
         /\ y.keys = ks /\ y.children = ch
    BY <2>9
  <2>11. ch \in [1 .. Size48 -> Kids(n) \cup {x}] /\ \A i \in 1 .. Size48 : ch[i] = IF i = pos THEN x ELSE n.children[i]
    BY <2>2, <2>8
  <2>12. ks \in [Byte -> 0 .. Size48] /\ \A b \in Byte : ks[b] = IF b = c THEN pos ELSE n.keys[b]
    BY <2>2, <2>7, <2>8, Sizes
  <2>13. y.children \in [1 .. Size48 -> Kids(y)]
    <3>1. ch \in [1 .. Size48 -> {ch[i] : i \in DOMAIN ch}]
      BY <2>11, OwnRange
    <3> QED
      BY <2>10, <3>1 DEF Kids
  <2>14. n.keys[c] = 0
    BY MappedChild
  <2>15. \A b \in Byte : n.keys[b] # pos
    <3>1. \A b \in Byte : n.keys[b] # 0 => n.keys[b] \in Used(n)
      BY DEF Used
    <3> QED
      BY <2>7, <3>1
  <2>16. \A b, d \in Byte : ks[b] = ks[d] /\ ks[b] # 0 => b = d
    BY <2>12, <2>15 DEF Mapped
  <2>17. ASSUME NEW i \in 1 .. Size48 PROVE ch[i] # Nil <=> \E b \in Byte : ks[b] = i
    <3>1. CASE i = pos
      BY <2>11, <2>12, <3>1
    <3>2. CASE i # pos
      <4>1. ch[i] # Nil <=> \E b \in Byte : n.keys[b] = i
        BY <2>11, <3>2 DEF Mapped
      <4>2. i # 0
        BY Sizes
      <4>3. (\E b \in Byte : n.keys[b] = i) <=> \E b \in Byte : ks[b] = i
        BY <2>12, <2>14, <3>2, <4>2
      <4> QED
        BY <4>1, <4>3
    <3> QED
      BY <3>1, <3>2
  <2>18. Used(y) = Used(n) \cup {pos}
    <3>1. Used(y) = {ks[b] : b \in Byte} \ {0} /\ Used(n) = {n.keys[b] : b \in Byte} \ {0}
      BY <2>10 DEF Used
    <3>2. Used(y) \subseteq Used(n) \cup {pos}
      BY <2>12, <3>1
    <3>3. Used(n) \subseteq Used(y)
      BY <2>12, <2>14, <3>1
    <3>4. pos \in Used(y)
      BY <2>7, <2>12, <3>1
    <3> QED
      BY <3>2, <3>3, <3>4
  <2>19. Count(y) = Count(n) + 1
    <3>1. PICK U : U = Used(n)
      OBVIOUS
    <3>2. IsFiniteSet(U)
      BY <3>1, MappedIndexed DEF Indexed
    <3>3. Cardinality(U \cup {pos}) = Cardinality(U) + 1
      BY <2>7, <3>1, <3>2, FS_AddElement
    <3> QED
      BY <2>18, <3>1, <3>3 DEF Count
  <2>20. Mapped(y)
    BY <1>2, <2>10, <2>12, <2>13, <2>16, <2>17, <2>19 DEF Mapped
  <2>21. Record(y)
    <3>1. n.num + 1 \in Nat
      BY <1>2
    <3> QED
      BY <2>9, <2>10, <3>1 DEF Record, Kind
  <2>22. Shape(y)
    BY <2>10, <2>20, <2>21 DEF Shape
  <2>23. ASSUME NEW b \in Byte PROVE Child(y, b) = IF b = c THEN x ELSE Child(n, b)
    <3>1. CASE b = c
      <4>1. y.keys[b] = pos
        BY <2>10, <2>12, <3>1
      <4>2. Child(y, b) = y.children[pos]
        BY <2>7, <2>10, <2>20, <4>1, MappedChild
      <4> QED
        BY <2>7, <2>10, <2>11, <3>1, <4>2
    <3>2. CASE b # c /\ n.keys[b] = 0
      <4>1. Child(n, b) = Nil
        BY <3>2, MappedChild
      <4>2. y.keys[b] = 0
        BY <2>10, <2>12, <3>2
      <4>3. Child(y, b) = Nil
        BY <2>10, <2>20, <4>2, MappedChild
      <4> QED
        BY <3>2, <4>1, <4>3
    <3>3. CASE b # c /\ n.keys[b] # 0
      <4>1. y.keys[b] = n.keys[b] /\ n.keys[b] # pos
        BY <2>10, <2>12, <2>15, <3>3
      <4>2. Child(n, b) = n.children[n.keys[b]] /\ n.keys[b] \in 1 .. Size48
        BY <3>3, MappedChild
      <4>3. Child(y, b) = y.children[n.keys[b]]
        BY <2>10, <2>20, <3>3, <4>1, MappedChild
      <4> QED
        BY <2>10, <2>11, <3>3, <4>1, <4>2, <4>3
    <3> QED
      BY <3>1, <3>2, <3>3
  <2> QED
    BY <1>1, <2>10, <2>19, <2>22, <2>23 DEF Added
<1>4. CASE ~(n.num < Size48)
  <2>1. PICK u : u = To256(n)
    OBVIOUS
  <2>2. /\ Record(u) /\ u.kind = "node256" /\ Direct(u) /\ u.plen = n.plen /\ u.partial = n.partial
        /\ Count(u) = Count(n) /\ \A b \in Byte : Child(u, b) = Child(n, b)
    BY <2>1, To256OK
  <2>3. y = AddChild256(u, c, x)
    BY <1>1, <1>4, <2>1 DEF AddChild48
  <2>4. Added(u, c, x, y)
    BY <2>2, <2>3, AddChild256OK
  <2>5. Count(y) = Size48 + 1
    BY <1>2, <1>4, <2>2, <2>4, Sizes DEF Added
  <2>6. y.kind = "node256" /\ Shrink256 < Count(y)
    <3>1. y.kind = "node256"
      BY <2>2, <2>3 DEF AddChild256, Record
    <3> QED
      BY <2>5, <3>1, Sizes
  <2>7. Fit(y)
    BY <2>6 DEF Fit
  <2> QED
    BY <1>1, <2>2, <2>4, <2>7 DEF Added
<1> QED
  BY <1>3, <1>4

(* What a child is, from the keys of a small node.                         *)
LEMMA SmallChild ==
  ASSUME NEW n, NEW max, Small(n, max), n.kind \in {"node4", "node16"}, NEW c
  PROVE  /\ \A i \in 1 .. n.num : n.keys[i] = c => Child(n, c) = n.children[i] /\ Child(n, c) # Nil
         /\ (\A i \in 1 .. n.num : n.keys[i] # c) => Child(n, c) = Nil
         /\ Child(n, c) = Nil => \A i \in 1 .. n.num : n.keys[i] # c
<1>1. \A s : s \in FindChild(n, c) <=> s \in 1 .. n.num /\ n.keys[s] = c
  BY SmallFind
<1>2. ASSUME NEW i \in 1 .. n.num, n.keys[i] = c PROVE Child(n, c) = n.children[i] /\ Child(n, c) # Nil
  <2>1. FindChild(n, c) = {i}
    BY <1>1, <1>2 DEF Small
  <2>2. i \in Nat
    BY DEF Small
  <2>3. Min({i}) = i
    BY <2>2, MinOne
  <2>4. Child(n, c) = n.children[i]
    BY <2>1, <2>3 DEF Child
  <2> QED
    BY <2>4 DEF Small
<1>3. ASSUME \A i \in 1 .. n.num : n.keys[i] # c PROVE Child(n, c) = Nil
  <2>1. FindChild(n, c) = {}
    BY <1>1, <1>3
  <2> QED
    BY <2>1 DEF Child
<1> QED
  BY <1>2, <1>3

(* A child is put into a small node with a free place.                     *)
LEMMA InsertChildOK ==
  ASSUME NEW n, Record(n), NEW max \in Nat, Small(n, max), max < NByte, n.kind \in {"node4", "node16"},
         n.num < max, NEW i \in 1 .. n.num + 1, NEW c \in Byte, Child(n, c) = Nil, NEW x, x # Nil,
         NEW y, y = InsertChild(n, i, c, x)
  PROVE  /\ Record(y) /\ y.kind = n.kind /\ Small(y, max) /\ y.num = n.num + 1
         /\ y.plen = n.plen /\ y.partial = n.partial
         /\ \A b \in Byte : Child(y, b) = IF b = c THEN x ELSE Child(n, b)
<1>0. PICK m \in Nat : m = n.num
  BY DEF Small
<1>1. PICK ks, ch : ks = InsertAt(n.keys, i, c) /\ ch = InsertAt(n.children, i, x)
  OBVIOUS
<1>2. y = [kind |-> n.kind, num |-> n.num + 1, plen |-> n.plen, partial |-> n.partial,
           keys |-> ks, children |-> ch]
  <2>1. y = [n EXCEPT !.num = n.num + 1, !.keys = ks, !.children = ch]
    BY <1>1 DEF InsertChild
  <2> QED
    BY <2>1 DEF Record
<1>3. /\ y.kind = n.kind /\ y.num = m + 1 /\ y.plen = n.plen /\ y.partial = n.partial
      /\ y.keys = ks /\ y.children = ch
  BY <1>0, <1>2
<1>4. /\ n.keys \in Seq(Byte) /\ Len(n.keys) = m /\ i \in 1 .. m + 1
      /\ n.children \in Seq(Kids(n) \cup {x}) /\ Len(n.children) = m
  BY <1>0 DEF Small
<1>5. ks \in Seq(Byte) /\ Inserted(n.keys, i, c, ks)
  BY <1>1, <1>4, InsertAtIs
<1>6. ch \in Seq(Kids(n) \cup {x}) /\ Inserted(n.children, i, x, ch)
  <2>1. PICK T : T = Kids(n) \cup {x}
    OBVIOUS
  <2>2. n.children \in Seq(T) /\ x \in T
    BY <1>4, <2>1
  <2>3. InsertAt(n.children, i, x) \in Seq(T) /\ Inserted(n.children, i, x, InsertAt(n.children, i, x))
    BY <1>4, <2>2, InsertAtIs
  <2> QED
    BY <1>1, <2>1, <2>3
<1>7. /\ Len(ks) = m + 1 /\ Len(ch) = m + 1
      /\ \A j \in 1 .. m + 1 : ks[j] = IF j < i THEN n.keys[j] ELSE IF j = i THEN c ELSE n.keys[j - 1]
      /\ \A j \in 1 .. m + 1 : ch[j] = IF j < i THEN n.children[j] ELSE IF j = i THEN x ELSE n.children[j - 1]
  BY <1>4, <1>5, <1>6 DEF Inserted
<1>8. \A j \in 1 .. m : n.keys[j] # c
  BY <1>0, SmallChild
<1>9. ch \in Seq(Kids(y))
  <2>1. DOMAIN ch = 1 .. m + 1 /\ ch \in [1 .. m + 1 -> Kids(n) \cup {x}]
    BY <1>6, <1>7
  <2>2. ch \in [1 .. m + 1 -> {ch[j] : j \in DOMAIN ch}]
    BY <2>1, OwnRange
  <2>3. ch \in [1 .. m + 1 -> Kids(y)]
    BY <1>3, <2>2 DEF Kids
  <2> QED
    BY <1>0, <2>3
<1>10. \A j, k \in 1 .. m : n.keys[j] = n.keys[k] => j = k
  BY <1>0 DEF Small
<1>11. ASSUME NEW j \in 1 .. m + 1, NEW k \in 1 .. m + 1, ks[j] = ks[k] PROVE j = k
  <2> DEFINE F(z) == IF z < i THEN z ELSE z - 1
  <2>1. \A z \in 1 .. m + 1 : z # i => F(z) \in 1 .. m /\ ks[z] = n.keys[F(z)]
    BY <1>4, <1>7
  <2>2. ks[i] = c
    BY <1>4, <1>7
  <2>3. \A z \in 1 .. m + 1 : z # i => ks[z] # c
    <3> HIDE DEF F
    <3> QED
      BY <1>8, <2>1
  <2>4. CASE j = i \/ k = i
    BY <1>11, <2>2, <2>3, <2>4
  <2>5. CASE j # i /\ k # i
    <3>1. F(j) = F(k)
      <4> HIDE DEF F
      <4> QED
        BY <1>10, <1>11, <2>1, <2>5
    <3> QED
      BY <1>4, <2>5, <3>1
  <2> QED
    BY <2>4, <2>5
<1>12. ASSUME NEW j \in 1 .. m + 1 PROVE ch[j] # Nil
  <2>1. \A k \in 1 .. m : n.children[k] # Nil
    BY <1>0 DEF Small
  <2>2. j # i => (j < i => j \in 1 .. m) /\ (~(j < i) => j - 1 \in 1 .. m)
    BY <1>4
  <2> QED
    BY <1>7, <2>1, <2>2
<1>13. Small(y, max)
  <2>1. m + 1 <= max
    BY <1>0
  <2> QED
    BY <1>3, <1>5, <1>7, <1>9, <1>11, <1>12, <2>1 DEF Small
<1>14. Record(y)
  <2>1. m + 1 \in Nat
    OBVIOUS
  <2> QED
    BY <1>0, <1>2, <1>3, <2>1 DEF Record
<1>15. ASSUME NEW b \in Byte PROVE Child(y, b) = IF b = c THEN x ELSE Child(n, b)
  <2>0. y.kind \in {"node4", "node16"} /\ y.num = m + 1
    BY <1>3
  <2>1. CASE b = c
    <3>1. i \in 1 .. y.num /\ y.keys[i] = b /\ y.children[i] = x
      BY <1>3, <1>4, <1>7, <2>1
    <3>2. Child(y, b) = y.children[i]
      BY <1>13, <2>0, <3>1, SmallChild
    <3> QED
      BY <2>1, <3>1, <3>2
  <2>2. CASE b # c /\ \E j \in 1 .. m : n.keys[j] = b
    <3>1. PICK j \in 1 .. m : n.keys[j] = b
      BY <2>2
    <3>2. PICK k \in 1 .. m + 1 : k = IF j < i THEN j ELSE j + 1
      BY <1>4
    <3>3. ks[k] = n.keys[j] /\ ch[k] = n.children[j]
      <4>1. CASE j < i
        BY <1>7, <3>2, <4>1
      <4>2. CASE ~(j < i)
        <5>1. ~(k < i) /\ k # i /\ k - 1 = j
          BY <1>4, <3>2, <4>2
        <5> QED
          BY <1>7, <5>1
      <4> QED
        BY <4>1, <4>2
    <3>4. Child(n, b) = n.children[j]
      BY <1>0, <3>1, SmallChild
    <3>5. Child(y, b) = y.children[k]
      BY <1>3, <1>13, <2>0, <3>1, <3>3, SmallChild
    <3> QED
      BY <1>3, <2>2, <3>3, <3>4, <3>5
  <2>3. CASE b # c /\ ~\E j \in 1 .. m : n.keys[j] = b
    <3>1. Child(n, b) = Nil
      BY <1>0, <2>3, SmallChild
    <3>2. \A j \in 1 .. m + 1 : ks[j] # b
      <4>1. \A j \in 1 .. m + 1 : j # i => (j < i => j \in 1 .. m) /\ (~(j < i) => j - 1 \in 1 .. m)
        BY <1>4
      <4>2. \A j \in 1 .. m : n.keys[j] # b
        BY <2>3
      <4>3. ASSUME NEW j \in 1 .. m + 1, ks[j] = b PROVE FALSE
        <5>1. ks[j] = IF j < i THEN n.keys[j] ELSE IF j = i THEN c ELSE n.keys[j - 1]
          BY <1>7
        <5>2. CASE j = i
          BY <1>4, <2>3, <4>3, <5>1, <5>2
        <5>3. CASE j # i
          BY <4>1, <4>2, <4>3, <5>1, <5>3
        <5> QED
          BY <5>2, <5>3
      <4> QED
        BY <4>3
    <3>3. Child(y, b) = Nil
      BY <1>3, <1>13, <2>0, <3>2, SmallChild
    <3> QED
      BY <2>3, <3>1, <3>3
  <2> QED
    BY <2>1, <2>2, <2>3
<1> QED
  BY <1>0, <1>3, <1>13, <1>14, <1>15

(* A node16 becomes a node48 with the same children.                       *)
LEMMA To48OK ==
  ASSUME NEW n, Record(n), n.kind = "node16", Small(n, Size16), NEW u, u = To48(n)
  PROVE  /\ Record(u) /\ u.kind = "node48" /\ Mapped(u) /\ u.plen = n.plen /\ u.partial = n.partial
         /\ Count(u) = n.num /\ u.num = n.num /\ \A b \in Byte : Child(u, b) = Child(n, b)
<1>0. PICK m \in Nat : m = n.num /\ m <= Size16
  BY DEF Small
<1>1. PICK ks, ch : /\ ks = [b \in Byte |-> IF Contains(n.keys, b) THEN Min(FindChild(n, b)) ELSE 0]
                    /\ ch = [i \in 1 .. Size48 |-> IF i <= n.num THEN n.children[i] ELSE Nil]
  OBVIOUS
<1>2. u = [kind |-> "node48", num |-> n.num, plen |-> n.plen, partial |-> n.partial,
           keys |-> ks, children |-> ch]
  <2>1. u = [n EXCEPT !.kind = "node48", !.keys = ks, !.children = ch]
    BY <1>1 DEF To48
  <2> QED
    BY <2>1 DEF Record
<1>3. /\ u.kind = "node48" /\ u.num = m /\ u.plen = n.plen /\ u.partial = n.partial
      /\ u.keys = ks /\ u.children = ch
  BY <1>0, <1>2
<1>4. n.keys \in Seq(Byte) /\ Len(n.keys) = m /\ Len(n.children) = m /\ n.children \in Seq(Kids(n))
  BY <1>0 DEF Small
<1>5. \A b : Contains(n.keys, b) <=> \E j \in 1 .. m : n.keys[j] = b
  BY <1>4 DEF Contains
<1>6. ASSUME NEW j \in 1 .. m PROVE n.keys[j] \in Byte /\ ks[n.keys[j]] = j
  <2>1. n.keys[j] \in Byte
    BY <1>4
  <2>2. FindChild(n, n.keys[j]) = {j}
    <3>1. \A s : s \in FindChild(n, n.keys[j]) <=> s \in 1 .. n.num /\ n.keys[s] = n.keys[j]
      BY SmallFind
    <3> QED
      BY <1>0, <3>1 DEF Small
  <2>3. Min({j}) = j
    BY MinOne
  <2> QED
    BY <1>1, <1>5, <2>1, <2>2, <2>3
<1>7. \A b \in Byte : (\A j \in 1 .. m : n.keys[j] # b) => ks[b] = 0
  BY <1>1, <1>5
<1>8. \A b \in Byte : ks[b] \in 0 .. m /\ (ks[b] # 0 => ks[b] \in 1 .. m /\ n.keys[ks[b]] = b)
  <2> SUFFICES ASSUME NEW b \in Byte PROVE ks[b] \in 0 .. m /\ (ks[b] # 0 => ks[b] \in 1 .. m /\ n.keys[ks[b]] = b)
    OBVIOUS
  <2>1. CASE \A j \in 1 .. m : n.keys[j] # b
    BY <1>7, <2>1
  <2>2. CASE \E j \in 1 .. m : n.keys[j] = b
    <3>1. PICK j \in 1 .. m : n.keys[j] = b
      BY <2>2
    <3>2. ks[b] = j
      BY <1>6, <3>1
    <3> QED
      BY <3>1, <3>2
  <2> QED
    BY <2>1, <2>2
<1>9. ks \in [Byte -> 0 .. Size48]
  <2>1. \A b \in Byte : ks[b] \in 0 .. Size48
    BY <1>0, <1>8, Sizes
  <2>2. ks = [b \in Byte |-> ks[b]]
    BY <1>1
  <2> QED
    BY <2>1, <2>2
<1>10. \A i \in 1 .. Size48 : (i <= m => ch[i] = n.children[i] /\ ch[i] # Nil) /\ (~(i <= m) => ch[i] = Nil)
  <2>1. \A i \in 1 .. m : n.children[i] # Nil
    BY <1>0 DEF Small
  <2>2. \A i \in 1 .. Size48 : i <= m => i \in 1 .. m
    BY Sizes
  <2> QED
    BY <1>0, <1>1, <2>1, <2>2
<1>11. ch \in [1 .. Size48 -> Kids(u)]
  <2>1. ch \in [1 .. Size48 -> {ch[i] : i \in 1 .. Size48}]
    BY <1>1
  <2>2. ch \in [1 .. Size48 -> {ch[i] : i \in DOMAIN ch}]
    BY <2>1, OwnRange
  <2> QED
    BY <1>3, <2>2 DEF Kids
<1>12. \A b, c \in Byte : ks[b] = ks[c] /\ ks[b] # 0 => b = c
  BY <1>8
<1>13. ASSUME NEW i \in 1 .. Size48 PROVE ch[i] # Nil <=> \E c \in Byte : ks[c] = i
  <2>1. CASE i <= m
    <3>1. i \in 1 .. m
      BY <2>1, Sizes
    <3> QED
      BY <1>6, <1>10, <2>1, <3>1
  <2>2. CASE ~(i <= m)
    <3>1. \A c \in Byte : ks[c] # i
      BY <1>8, <2>2
    <3> QED
      BY <1>10, <2>2, <3>1
  <2> QED
    BY <2>1, <2>2
<1>14. Used(u) = 1 .. m
  <2>1. Used(u) = {ks[c] : c \in Byte} \ {0}
    BY <1>3 DEF Used
  <2>2. \A s : s \in Used(u) => s \in 1 .. m
    BY <1>8, <2>1
  <2>3. \A s \in 1 .. m : s \in Used(u)
    <3> SUFFICES ASSUME NEW s \in 1 .. m PROVE s \in Used(u)
      OBVIOUS
    <3>1. s = ks[n.keys[s]] /\ n.keys[s] \in Byte /\ s # 0
      BY <1>6
    <3> QED
      BY <2>1, <3>1
  <2> QED
    BY <2>2, <2>3
<1>15. Count(u) = m
  <2>1. Cardinality(1 .. m) = m
    BY SMTT(40), FS_Interval
  <2> QED
    BY <1>14, <2>1 DEF Count
<1>16. Mapped(u)
  BY <1>3, <1>9, <1>11, <1>12, <1>13, <1>15 DEF Mapped
<1>17. Record(u)
  BY <1>0, <1>2, <1>3 DEF Record, Kind
<1>18. ASSUME NEW b \in Byte PROVE Child(u, b) = Child(n, b)
  <2>1. CASE ks[b] = 0
    <3>1. \A j \in 1 .. m : n.keys[j] # b
      BY <1>6, <2>1
    <3>2. Child(n, b) = Nil
      BY <1>0, <3>1, SmallChild
    <3>3. Child(u, b) = Nil
      BY <1>3, <1>16, <2>1, MappedChild
    <3> QED
      BY <3>2, <3>3
  <2>2. CASE ks[b] # 0
    <3>1. PICK j \in 1 .. m : j = ks[b] /\ n.keys[j] = b
      BY <1>8, <2>2
    <3>2. Child(n, b) = n.children[j]
      BY <1>0, <3>1, SmallChild
    <3>3. Child(u, b) = ch[j]
      BY <1>3, <1>16, <2>2, <3>1, MappedChild
    <3>4. j \in 1 .. Size48 /\ j <= m
      BY <1>0, Sizes
    <3> QED
      BY <1>10, <3>2, <3>3, <3>4
  <2> QED
    BY <2>1, <2>2
<1> QED
  BY <1>0, <1>3, <1>15, <1>16, <1>17, <1>18

(* add_child16.                                                            *)
LEMMA AddChild16OK ==
  ASSUME NEW n, Record(n), n.kind = "node16", Small(n, Size16), NEW c \in Byte, Child(n, c) = Nil, NEW x, x # Nil
  PROVE  Added(n, c, x, AddChild16(n, c, x))
<1>0. /\ n.num \in Nat /\ n.num <= Size16 /\ Count(n) = n.num /\ n.kind \in {"node4", "node16"}
      /\ Size16 \in Nat /\ Size16 < NByte
  <2>1. Size16 \in Nat /\ Size16 < NByte
    BY Sizes
  <2>2. n.kind \in {"node4", "node16"}
    OBVIOUS
  <2> QED
    BY <2>1, <2>2, SmallIndexed DEF Small
<1>1. CASE n.num < Size16
  <2>1. PICK S, i : /\ S = {j \in 1 .. n.num : Signed(c) < Signed(n.keys[j])} \cup {n.num + 1}
                    /\ i = Min(S)
    OBVIOUS
  <2>2. S \in SUBSET Nat /\ S # {} /\ S \in SUBSET (1 .. n.num + 1)
    BY <1>0, <2>1
  <2>3. i \in 1 .. n.num + 1
    BY <2>1, <2>2, MinOf
  <2>4. PICK y : y = InsertChild(n, i, c, x)
    OBVIOUS
  <2>5. AddChild16(n, c, x) = y
    BY <1>1, <2>1, <2>4 DEF AddChild16
  <2>6. /\ Record(y) /\ y.kind = n.kind /\ Small(y, Size16) /\ y.num = n.num + 1
        /\ y.plen = n.plen /\ y.partial = n.partial
        /\ \A b \in Byte : Child(y, b) = IF b = c THEN x ELSE Child(n, b)
    BY <1>0, <1>1, <2>3, <2>4, InsertChildOK
  <2>7. Shape(y)
    BY <2>6 DEF Shape
  <2>8. Count(y) = Count(n) + 1
    BY <1>0, <2>6, SmallIndexed
  <2> QED
    BY <2>5, <2>6, <2>7, <2>8 DEF Added
<1>2. CASE ~(n.num < Size16)
  <2>1. PICK u : u = To48(n)
    OBVIOUS
  <2>2. /\ Record(u) /\ u.kind = "node48" /\ Mapped(u) /\ u.plen = n.plen /\ u.partial = n.partial
        /\ Count(u) = n.num /\ u.num = n.num /\ \A b \in Byte : Child(u, b) = Child(n, b)
    BY <2>1, To48OK
  <2>3. PICK y : y = AddChild48(u, c, x)
    OBVIOUS
  <2>4. AddChild16(n, c, x) = y
    BY <1>2, <2>1, <2>3 DEF AddChild16
  <2>5. Added(u, c, x, y)
    BY <2>2, <2>3, AddChild48OK
  <2>6. Count(y) = Size16 + 1
    BY <1>0, <1>2, <2>2, <2>5 DEF Added
  <2>7. y.kind = "node48" => Fit(y)
    BY <2>6, Sizes DEF Fit
  <2>8. Fit(y)
    BY <2>2, <2>5, <2>7 DEF Added
  <2> QED
    BY <1>0, <2>2, <2>4, <2>5, <2>8 DEF Added
<1> QED
  BY <1>1, <1>2

(* add_child4.                                                             *)
LEMMA AddChild4OK ==
  ASSUME NEW n, Record(n), n.kind = "node4", Small(n, Size4), NEW c \in Byte, Child(n, c) = Nil, NEW x, x # Nil
  PROVE  Added(n, c, x, AddChild4(n, c, x)) /\ (n.num < Size4 => AddChild4(n, c, x).kind = "node4")
<1>0. /\ n.num \in Nat /\ n.num <= Size4 /\ Count(n) = n.num /\ n.kind \in {"node4", "node16"}
      /\ Size4 \in Nat /\ Size4 < NByte
  <2>1. Size4 \in Nat /\ Size4 < NByte
    BY Sizes
  <2>2. n.kind \in {"node4", "node16"}
    OBVIOUS
  <2> QED
    BY <2>1, <2>2, SmallIndexed DEF Small
<1>1. CASE n.num < Size4
  <2>1. PICK S, i : /\ S = {j \in 1 .. n.num : c < n.keys[j]} \cup {n.num + 1}
                    /\ i = Min(S)
    OBVIOUS
  <2>2. S \in SUBSET Nat /\ S # {} /\ S \in SUBSET (1 .. n.num + 1)
    BY <1>0, <2>1
  <2>3. i \in 1 .. n.num + 1
    BY <2>1, <2>2, MinOf
  <2>4. PICK y : y = InsertChild(n, i, c, x)
    OBVIOUS
  <2>5. AddChild4(n, c, x) = y
    BY <1>1, <2>1, <2>4 DEF AddChild4
  <2>6. /\ Record(y) /\ y.kind = n.kind /\ Small(y, Size4) /\ y.num = n.num + 1
        /\ y.plen = n.plen /\ y.partial = n.partial
        /\ \A b \in Byte : Child(y, b) = IF b = c THEN x ELSE Child(n, b)
    BY <1>0, <1>1, <2>3, <2>4, InsertChildOK
  <2>7. Shape(y)
    BY <2>6 DEF Shape
  <2>8. Count(y) = Count(n) + 1
    BY <1>0, <2>6, SmallIndexed
  <2> QED
    BY <2>5, <2>6, <2>7, <2>8 DEF Added
<1>2. CASE ~(n.num < Size4)
  <2>1. PICK u : u = [n EXCEPT !.kind = "node16"]
    OBVIOUS
  <2>2. u = [kind |-> "node16", num |-> n.num, plen |-> n.plen, partial |-> n.partial,
             keys |-> n.keys, children |-> n.children]
    BY <2>1 DEF Record
  <2>3. /\ u.kind = "node16" /\ u.num = n.num /\ u.plen = n.plen /\ u.partial = n.partial
        /\ u.keys = n.keys /\ u.children = n.children
    BY <2>2
  <2>4. Record(u)
    BY <1>0, <2>2, <2>3 DEF Record, Kind
  <2>5. Small(u, Size16)
    <3>1. Kids(u) = Kids(n)
      BY <2>3 DEF Kids
    <3> QED
      BY <1>0, <2>3, <3>1, Sizes DEF Small
  <2>6. \A b : FindChild(u, b) = FindChild(n, b)
    BY <2>3 DEF FindChild
  <2>7. \A b \in Byte : Child(u, b) = Child(n, b)
    BY <2>3, <2>6 DEF Child
  <2>8. Count(u) = Count(n)
    BY <1>0, <2>3, <2>5, Sizes, SmallIndexed
  <2>9. PICK y : y = AddChild16(u, c, x)
    OBVIOUS
  <2>10. AddChild4(n, c, x) = y
    BY <1>2, <2>1, <2>9 DEF AddChild4
  <2>11. Added(u, c, x, y)
    BY <2>3, <2>4, <2>5, <2>7, <2>9, AddChild16OK
  <2>12. Count(y) = Size4 + 1
    BY <1>0, <1>2, <2>8, <2>11 DEF Added
  <2>13. y.kind = "node16" => Fit(y)
    BY <2>12, Sizes DEF Fit
  <2>14. Fit(y)
    BY <2>3, <2>11, <2>13 DEF Added
  <2> QED
    BY <1>2, <2>3, <2>7, <2>8, <2>10, <2>11, <2>14 DEF Added
<1> QED
  BY <1>1, <1>2

(* add_child.                                                               *)
LEMMA AddChildOK ==
  ASSUME NEW n, Shape(n), Fit(n), NEW c \in Byte, Child(n, c) = Nil, NEW x, x # Nil
  PROVE  Added(n, c, x, AddChild(n, c, x)) /\ Fit(AddChild(n, c, x))
<1>1. n.kind \in Kind /\ Record(n)
  BY DEF Shape, Record
<1>2. Added(n, c, x, AddChild(n, c, x))
  <2>1. CASE n.kind = "node4"
    BY <1>1, <2>1, AddChild4OK DEF AddChild, Shape
  <2>2. CASE n.kind = "node16"
    BY <1>1, <2>2, AddChild16OK DEF AddChild, Shape
  <2>3. CASE n.kind = "node48"
    BY <1>1, <2>3, AddChild48OK DEF AddChild, Shape
  <2>4. CASE n.kind = "node256"
    BY <1>1, <2>4, AddChild256OK DEF AddChild, Shape
  <2> QED
    BY <1>1, <2>1, <2>2, <2>3, <2>4 DEF Kind
<1>3. PICK y : y = AddChild(n, c, x)
  OBVIOUS
<1>4. Fit(y)
  <2>1. CASE y.kind = n.kind
    <3>1. Count(n) \in Nat /\ Count(y) = Count(n) + 1
      BY <1>2, <1>3, ShapeIndexed DEF Added, Indexed
    <3> QED
      BY <2>1, <3>1, Sizes DEF Fit
  <2> QED
    BY <1>2, <1>3, <2>1 DEF Added
<1> QED
  BY <1>2, <1>3, <1>4

-----------------------------------------------------------------------------
(* Removing a child.                                                       *)

(* y is node n without the child under byte c.                             *)
Removed(n, c, y) ==
  /\ Shape(y) /\ Fit(y) /\ y.plen = n.plen /\ y.partial = n.partial
  /\ Count(y) = Count(n) - 1
  /\ \A b \in Byte : Child(y, b) = IF b = c THEN Nil ELSE Child(n, b)

(* A child is taken out of a small node.                                   *)
LEMMA DropChildOK ==
  ASSUME NEW n, Record(n), NEW max \in Nat, Small(n, max), max < NByte, n.kind \in {"node4", "node16"},
         NEW i \in 1 .. n.num, NEW y, y = DropChild(n, i)
  PROVE  /\ Record(y) /\ y.kind = n.kind /\ Small(y, max) /\ y.num = n.num - 1
         /\ y.plen = n.plen /\ y.partial = n.partial
         /\ \A b \in Byte : Child(y, b) = IF b = n.keys[i] THEN Nil ELSE Child(n, b)
<1>0. PICK m \in Nat : m = n.num
  BY DEF Small
<1>1. PICK ks, ch : ks = RemoveAt(n.keys, i) /\ ch = RemoveAt(n.children, i)
  OBVIOUS
<1>2. y = [kind |-> n.kind, num |-> n.num - 1, plen |-> n.plen, partial |-> n.partial,
           keys |-> ks, children |-> ch]
  <2>1. y = [n EXCEPT !.num = n.num - 1, !.keys = ks, !.children = ch]
    BY <1>1 DEF DropChild
  <2> QED
    BY <2>1 DEF Record
<1>3. /\ y.kind = n.kind /\ y.num = m - 1 /\ y.plen = n.plen /\ y.partial = n.partial
      /\ y.keys = ks /\ y.children = ch
  BY <1>0, <1>2
<1>4. /\ n.keys \in Seq(Byte) /\ Len(n.keys) = m /\ i \in 1 .. m
      /\ n.children \in Seq(Kids(n)) /\ Len(n.children) = m
  BY <1>0 DEF Small
<1>5. ks \in Seq(Byte) /\ Deleted(n.keys, i, ks)
  BY <1>1, <1>4, RemoveAtIs
<1>6. ch \in Seq(Kids(n)) /\ Deleted(n.children, i, ch)
  BY <1>1, <1>4, RemoveAtIs
<1>7. /\ Len(ks) = m - 1 /\ Len(ch) = m - 1 /\ m - 1 \in Nat
      /\ \A j \in 1 .. m - 1 : ks[j] = IF j < i THEN n.keys[j] ELSE n.keys[j + 1]
      /\ \A j \in 1 .. m - 1 : ch[j] = IF j < i THEN n.children[j] ELSE n.children[j + 1]
  BY <1>4, <1>5, <1>6 DEF Deleted
<1>8. \A j, k \in 1 .. m : n.keys[j] = n.keys[k] => j = k
  BY <1>0 DEF Small
<1>9. ch \in Seq(Kids(y))
  <2>1. DOMAIN ch = 1 .. m - 1 /\ ch \in [1 .. m - 1 -> Kids(n)]
    BY <1>6, <1>7
  <2>2. ch \in [1 .. m - 1 -> {ch[j] : j \in DOMAIN ch}]
    BY <2>1, OwnRange
  <2>3. ch \in [1 .. m - 1 -> Kids(y)]
    BY <1>3, <2>2 DEF Kids
  <2> QED
    BY <1>7, <2>3
<1> DEFINE F(z) == IF z < i THEN z ELSE z + 1
<1>10. \A z \in 1 .. m - 1 : F(z) \in 1 .. m /\ F(z) # i /\ ks[z] = n.keys[F(z)] /\ ch[z] = n.children[F(z)]
  BY <1>4, <1>7
<1>11. \A z \in 1 .. m : z # i => \E j \in 1 .. m - 1 : F(j) = z
  <2> SUFFICES ASSUME NEW z \in 1 .. m, z # i PROVE \E j \in 1 .. m - 1 : F(j) = z
    OBVIOUS
  <2>1. PICK j \in 1 .. m - 1 : j = IF z < i THEN z ELSE z - 1
    BY <1>4
  <2>2. F(j) = z
    BY <1>4, <2>1
  <2> HIDE DEF F
  <2> QED
    BY <2>2
<1>12. \A z, w \in 1 .. m - 1 : F(z) = F(w) => z = w
  BY <1>4
<1> HIDE DEF F
<1>13. \A j, k \in 1 .. m - 1 : ks[j] = ks[k] => j = k
  BY <1>8, <1>10, <1>12
<1>14. \A j \in 1 .. m - 1 : ch[j] # Nil
  <2>1. \A k \in 1 .. m : n.children[k] # Nil
    BY <1>0 DEF Small
  <2> QED
    BY <1>10, <2>1
<1>15. Small(y, max)
  <2>1. m - 1 <= max
    BY <1>0 DEF Small
  <2> QED
    BY <1>3, <1>5, <1>7, <1>9, <1>13, <1>14, <2>1 DEF Small
<1>16. Record(y)
  BY <1>0, <1>2, <1>3, <1>7 DEF Record
<1>17. ASSUME NEW b \in Byte PROVE Child(y, b) = IF b = n.keys[i] THEN Nil ELSE Child(n, b)
  <2>0. y.kind \in {"node4", "node16"} /\ y.num = m - 1
    BY <1>3
  <2>1. CASE b # n.keys[i] /\ \E j \in 1 .. m : n.keys[j] = b
    <3>1. PICK j \in 1 .. m : n.keys[j] = b /\ j # i
      BY <2>1
    <3>2. PICK k \in 1 .. m - 1 : F(k) = j
      BY <1>11, <3>1
    <3>3. ks[k] = b /\ ch[k] = n.children[j]
      BY <1>10, <3>1, <3>2
    <3>4. Child(n, b) = n.children[j]
      BY <1>0, <3>1, SmallChild
    <3>5. Child(y, b) = y.children[k]
      BY <1>3, <1>15, <2>0, <3>3, SmallChild
    <3> QED
      BY <1>3, <2>1, <3>3, <3>4, <3>5
  <2>2. CASE b # n.keys[i] /\ \A j \in 1 .. m : n.keys[j] # b
    <3>1. Child(n, b) = Nil
      BY <1>0, <2>2, SmallChild
    <3>2. \A j \in 1 .. m - 1 : ks[j] # b
      BY <1>10, <2>2
    <3>3. Child(y, b) = Nil
      BY <1>3, <1>15, <2>0, <3>2, SmallChild
    <3> QED
      BY <2>2, <3>1, <3>3
  <2>3. CASE b = n.keys[i]
    <3>2. \A j \in 1 .. m - 1 : ks[j] # b
      BY <1>4, <1>8, <1>10, <2>3
    <3>3. Child(y, b) = Nil
      BY <1>3, <1>15, <2>0, <3>2, SmallChild
    <3> QED
      BY <2>3, <3>3
  <2> QED
    BY <2>1, <2>2, <2>3
<1> QED
  BY <1>0, <1>3, <1>15, <1>16, <1>17

(* The place of a child in a small node.                                   *)
LEMMA SmallPlace ==
  ASSUME NEW n, NEW max \in Nat, Small(n, max), max < NByte, n.kind \in {"node4", "node16"},
         NEW c \in Byte, Child(n, c) # Nil
  PROVE  Min(FindChild(n, c)) \in 1 .. n.num /\ n.keys[Min(FindChild(n, c))] = c
<1>1. PICK i \in FindChild(n, c) : TRUE
  BY DEF Child
<1>2. i \in 1 .. n.num /\ n.keys[i] = c
  BY SmallFind
<1>3. FindChild(n, c) = {i}
  BY SmallIndexed DEF Indexed
<1>4. Min({i}) = i
  <2>1. i \in Nat
    BY <1>2 DEF Small
  <2> QED
    BY <2>1, MinOne
<1> QED
  BY <1>2, <1>3, <1>4

(* remove_child4 of a node with more than two children.                    *)
LEMMA RemoveChild4OK ==
  ASSUME NEW n, Record(n), n.kind = "node4", Small(n, Size4), 2 < n.num, NEW c \in Byte, Child(n, c) # Nil
  PROVE  Removed(n, c, RemoveChild(n, c))
<1>0. Size4 \in Nat /\ Size4 < NByte /\ n.kind \in {"node4", "node16"} /\ n.num \in Nat
  BY Sizes DEF Small
<1>1. PICK i : i = Min(FindChild(n, c))
  OBVIOUS
<1>2. i \in 1 .. n.num /\ n.keys[i] = c
  BY <1>0, <1>1, SmallPlace
<1>3. PICK y : y = DropChild(n, i)
  OBVIOUS
<1>4. /\ Record(y) /\ y.kind = n.kind /\ Small(y, Size4) /\ y.num = n.num - 1
      /\ y.plen = n.plen /\ y.partial = n.partial
      /\ \A b \in Byte : Child(y, b) = IF b = n.keys[i] THEN Nil ELSE Child(n, b)
  BY <1>0, <1>2, <1>3, DropChildOK
<1>5. y.num # 1
  BY <1>0, <1>4
<1>6. RemoveChild(n, c) = y
  BY <1>1, <1>3, <1>5 DEF RemoveChild, RemoveChild4
<1>7. Count(y) = n.num - 1 /\ Count(n) = n.num
  BY <1>0, <1>4, SmallIndexed
<1>8. Shape(y)
  BY <1>4 DEF Shape
<1>9. Fit(y)
  BY <1>0, <1>4, <1>7 DEF Fit
<1> QED
  BY <1>2, <1>4, <1>6, <1>7, <1>8, <1>9 DEF Removed

(* remove_child16.                                                         *)
LEMMA RemoveChild16OK ==
  ASSUME NEW n, Record(n), n.kind = "node16", Small(n, Size16), Fit(n), NEW c \in Byte, Child(n, c) # Nil
  PROVE  Removed(n, c, RemoveChild(n, c))
<1>0. Size16 \in Nat /\ Size16 < NByte /\ n.kind \in {"node4", "node16"} /\ n.num \in Nat
  BY Sizes DEF Small
<1>1. PICK i : i = Min(FindChild(n, c))
  OBVIOUS
<1>2. i \in 1 .. n.num /\ n.keys[i] = c
  BY <1>0, <1>1, SmallPlace
<1>3. PICK m : m = DropChild(n, i)
  OBVIOUS
<1>4. /\ Record(m) /\ m.kind = n.kind /\ Small(m, Size16) /\ m.num = n.num - 1
      /\ m.plen = n.plen /\ m.partial = n.partial
      /\ \A b \in Byte : Child(m, b) = IF b = n.keys[i] THEN Nil ELSE Child(n, b)
  BY <1>0, <1>2, <1>3, DropChildOK
<1>5. Count(m) = n.num - 1 /\ Count(n) = n.num
  BY <1>0, <1>4, SmallIndexed
<1>6. Shrink16 <= m.num
  <2>1. Shrink16 + 1 <= n.num
    BY <1>5 DEF Fit
  <2> QED
    BY <1>0, <1>4, <2>1, Sizes
<1>7. CASE m.num # Shrink16
  <2>1. RemoveChild(n, c) = m
    BY <1>1, <1>3, <1>7 DEF RemoveChild, RemoveChild16
  <2>2. Shape(m)
    BY <1>4 DEF Shape
  <2>3. Fit(m)
    BY <1>0, <1>4, <1>5, <1>6, <1>7, Sizes DEF Fit
  <2> QED
    BY <1>2, <1>4, <1>5, <2>1, <2>2, <2>3 DEF Removed
<1>8. CASE m.num = Shrink16
  <2>1. PICK u : u = [m EXCEPT !.kind = "node4"]
    OBVIOUS
  <2>2. u = [kind |-> "node4", num |-> m.num, plen |-> m.plen, partial |-> m.partial,
             keys |-> m.keys, children |-> m.children]
    BY <1>4, <2>1 DEF Record
  <2>3. /\ u.kind = "node4" /\ u.num = m.num /\ u.plen = m.plen /\ u.partial = m.partial
        /\ u.keys = m.keys /\ u.children = m.children
    BY <2>2
  <2>4. Record(u)
    BY <1>8, <2>2, <2>3, Sizes DEF Record, Kind
  <2>5. Small(u, Size4)
    <3>1. Kids(u) = Kids(m)
      BY <2>3 DEF Kids
    <3>2. m.num <= Size4
      BY <1>8, Sizes
    <3> QED
      BY <1>4, <2>3, <3>1, <3>2 DEF Small
  <2>6. \A b : FindChild(u, b) = FindChild(m, b)
    BY <1>4, <2>3 DEF FindChild
  <2>7. \A b \in Byte : Child(u, b) = Child(m, b)
    BY <2>3, <2>6 DEF Child
  <2>8. Count(u) = Shrink16
    BY <1>8, <2>3, <2>5, Sizes, SmallIndexed
  <2>9. RemoveChild(n, c) = u
    BY <1>1, <1>3, <1>8, <2>1 DEF RemoveChild, RemoveChild16
  <2>10. Shape(u)
    BY <2>3, <2>4, <2>5 DEF Shape
  <2>11. Fit(u)
    BY <2>3, <2>8, Sizes DEF Fit
  <2>12. Count(u) = Count(n) - 1
    BY <1>4, <1>5, <1>8, <2>8
  <2> QED
    BY <1>2, <1>4, <2>3, <2>7, <2>9, <2>10, <2>11, <2>12 DEF Removed
<1> QED
  BY <1>7, <1>8

(* A node48 has as many bytes with a child as it has slots in use.         *)
LEMMA MappedCount ==
  ASSUME NEW n, n.kind = "node48", Mapped(n), NEW U, U = {b \in Byte : n.keys[b] # 0}
  PROVE  IsFiniteSet(U) /\ Cardinality(U) = Count(n)
<1>1. PICK V : V = Used(n)
  OBVIOUS
<1>2. PICK f : f = [b \in U |-> n.keys[b]]
  OBVIOUS
<1>3. f \in Bijection(U, V)
  <2>1. V = {n.keys[c] : c \in Byte} \ {0}
    BY <1>1 DEF Used
  <2>2. f \in [U -> V]
    BY <1>2, <2>1
  <2>3. IsInjective(f)
    BY <1>2 DEF Mapped, IsInjective
  <2>4. \A s \in V : \E b \in U : f[b] = s
    BY <1>2, <2>1
  <2> QED
    BY <2>2, <2>3, <2>4 DEF Bijection, Injection, Surjection
<1>4. IsFiniteSet(U)
  BY BytesFinite, FS_Subset
<1>5. Cardinality(V) = Cardinality(U)
  BY <1>3, <1>4, FS_Bijection DEF ExistsBijection
<1> QED
  BY <1>1, <1>4, <1>5 DEF Count

(* remove_child48 before the node shrinks.                                 *)
Unmapped(n, c) == [n EXCEPT !.num = @ - 1, !.keys[c] = 0, !.children[n.keys[c]] = Nil]

(* It loses the child of byte c and no other.                              *)
LEMMA DropMapped ==
  ASSUME NEW n, Record(n), n.kind = "node48", Mapped(n), NEW c \in Byte, Child(n, c) # Nil,
         NEW m, m = Unmapped(n, c)
  PROVE  /\ Record(m) /\ m.kind = "node48" /\ Mapped(m) /\ m.num = n.num - 1
         /\ m.plen = n.plen /\ m.partial = n.partial
         /\ \A b \in Byte : Child(m, b) = IF b = c THEN Nil ELSE Child(n, b)
<1>1. PICK p : p = n.keys[c]
  OBVIOUS
<1>2. p # 0 /\ p \in 1 .. Size48 /\ p \in Nat /\ n.children[p] # Nil
  BY <1>1, MappedChild
<1>3. PICK ks, ch : ks = [n.keys EXCEPT ![c] = 0] /\ ch = [n.children EXCEPT ![p] = Nil]
  OBVIOUS
<1>4. m = [kind |-> "node48", num |-> n.num - 1, plen |-> n.plen, partial |-> n.partial,
           keys |-> ks, children |-> ch]
  <2>1. m = [n EXCEPT !.num = n.num - 1, !.keys = ks, !.children = ch]
    BY <1>1, <1>3 DEF Unmapped
  <2> QED
    BY <2>1 DEF Record
<1>5. /\ m.kind = "node48" /\ m.num = n.num - 1 /\ m.plen = n.plen /\ m.partial = n.partial
      /\ m.keys = ks /\ m.children = ch
  BY <1>4
<1>6. n.keys \in [Byte -> 0 .. Size48] /\ n.children \in [1 .. Size48 -> Kids(n)]
  BY DEF Mapped
<1>7. ks \in [Byte -> 0 .. Size48] /\ \A b \in Byte : ks[b] = IF b = c THEN 0 ELSE n.keys[b]
  BY <1>3, <1>6, Sizes
<1>8. ch \in [1 .. Size48 -> Kids(n) \cup {Nil}] /\ \A i \in 1 .. Size48 : ch[i] = IF i = p THEN Nil ELSE n.children[i]
  BY <1>2, <1>3, <1>6
<1>9. ch \in [1 .. Size48 -> Kids(m)]
  <2>1. ch \in [1 .. Size48 -> {ch[i] : i \in DOMAIN ch}]
    BY <1>8, OwnRange
  <2> QED
    BY <1>5, <2>1 DEF Kids
<1>10. \A b, d \in Byte : ks[b] = ks[d] /\ ks[b] # 0 => b = d
  BY <1>7 DEF Mapped
<1>11. \A b \in Byte : n.keys[b] = p => b = c
  BY <1>1, <1>2 DEF Mapped
<1>12. ASSUME NEW i \in 1 .. Size48 PROVE ch[i] # Nil <=> \E b \in Byte : ks[b] = i
  <2>0. i # 0
    BY Sizes
  <2>1. CASE i = p
    BY <1>2, <1>7, <1>8, <1>11, <2>1
  <2>2. CASE i # p
    <3>1. ch[i] # Nil <=> \E b \in Byte : n.keys[b] = i
      BY <1>8, <2>2 DEF Mapped
    <3>2. (\E b \in Byte : n.keys[b] = i) <=> \E b \in Byte : ks[b] = i
      BY <1>1, <1>7, <2>0, <2>2
    <3> QED
      BY <3>1, <3>2
  <2> QED
    BY <2>1, <2>2
<1>13. Used(m) = Used(n) \ {p} /\ p \in Used(n)
  <2>1. Used(m) = {ks[b] : b \in Byte} \ {0} /\ Used(n) = {n.keys[b] : b \in Byte} \ {0}
    BY <1>5 DEF Used
  <2>2. \A b \in Byte : ks[b] # 0 => ks[b] = n.keys[b] /\ ks[b] # p
    BY <1>7, <1>11
  <2>3. \A b \in Byte : n.keys[b] # p => ks[b] = n.keys[b]
    BY <1>1, <1>7
  <2>4. p \in Used(n)
    BY <1>1, <1>2, <2>1
  <2>5. Used(m) \subseteq Used(n) \ {p}
    BY <2>1, <2>2
  <2>6. Used(n) \ {p} \subseteq Used(m)
    BY <2>1, <2>3
  <2> QED
    BY <2>4, <2>5, <2>6
<1>14. Count(m) = Count(n) - 1 /\ Count(n) \in Nat /\ Count(m) \in Nat
  <2>1. PICK U : U = Used(n)
    OBVIOUS
  <2>2. IsFiniteSet(U) /\ Count(n) \in Nat
    BY <2>1, MappedIndexed DEF Indexed
  <2>3. IsFiniteSet(U \ {p}) /\ Cardinality(U \ {p}) = Cardinality(U) - 1
    BY <1>13, <2>1, <2>2, FS_RemoveElement
  <2>4. Cardinality(U \ {p}) \in Nat
    BY <2>3, FS_CardinalityType
  <2> QED
    BY <1>13, <2>1, <2>2, <2>3, <2>4 DEF Count
<1>15. n.num = Count(n)
  BY DEF Mapped
<1>16. Mapped(m)
  BY <1>5, <1>7, <1>9, <1>10, <1>12, <1>14, <1>15 DEF Mapped
<1>17. Record(m)
  <2>1. n.num - 1 \in Nat
    BY <1>14, <1>15
  <2> QED
    BY <1>4, <1>5, <2>1 DEF Record, Kind
<1>18. ASSUME NEW b \in Byte PROVE Child(m, b) = IF b = c THEN Nil ELSE Child(n, b)
  <2>1. CASE b = c
    BY <1>5, <1>7, <1>16, <2>1, MappedChild
  <2>2. CASE b # c /\ n.keys[b] = 0
    <3>1. Child(n, b) = Nil
      BY <2>2, MappedChild
    <3>2. m.keys[b] = 0
      BY <1>5, <1>7, <2>2
    <3>3. Child(m, b) = Nil
      BY <1>5, <1>16, <3>2, MappedChild
    <3> QED
      BY <2>2, <3>1, <3>3
  <2>3. CASE b # c /\ n.keys[b] # 0
    <3>1. m.keys[b] = n.keys[b] /\ n.keys[b] # p
      BY <1>5, <1>7, <1>11, <2>3
    <3>2. Child(n, b) = n.children[n.keys[b]] /\ n.keys[b] \in 1 .. Size48
      BY <2>3, MappedChild
    <3>3. Child(m, b) = m.children[n.keys[b]]
      BY <1>5, <1>16, <2>3, <3>1, MappedChild
    <3> QED
      BY <1>5, <1>8, <2>3, <3>1, <3>2, <3>3
  <2> QED
    BY <2>1, <2>2, <2>3
<1> QED
  BY <1>5, <1>16, <1>17, <1>18

(* remove_child48.                                                         *)
LEMMA RemoveChild48OK ==
  ASSUME NEW n, Record(n), n.kind = "node48", Mapped(n), Fit(n), NEW c \in Byte, Child(n, c) # Nil
  PROVE  Removed(n, c, RemoveChild(n, c))
<1>1. PICK m : m = Unmapped(n, c)
  OBVIOUS
<1>2. /\ Record(m) /\ m.kind = "node48" /\ Mapped(m) /\ m.num = n.num - 1
      /\ m.plen = n.plen /\ m.partial = n.partial
      /\ \A b \in Byte : Child(m, b) = IF b = c THEN Nil ELSE Child(n, b)
  BY <1>1, DropMapped
<1>3. n.num = Count(n) /\ m.num = Count(m) /\ Count(n) \in Nat /\ Count(m) \in Nat /\ Shrink48 <= Count(m)
  <2>1. n.num = Count(n) /\ m.num = Count(m) /\ Count(n) \in Nat /\ Count(m) \in Nat
    BY <1>2, MappedIndexed DEF Mapped, Indexed
  <2>2. Shrink48 + 1 <= Count(n)
    BY DEF Fit
  <2> QED
    BY <1>2, <2>1, <2>2, Sizes
<1>4. CASE m.num # Shrink48
  <2>1. RemoveChild(n, c) = m
    BY <1>1, <1>4 DEF RemoveChild, RemoveChild48, Unmapped
  <2>2. Shape(m)
    BY <1>2 DEF Shape
  <2>3. Fit(m)
    BY <1>2, <1>3, <1>4, Sizes DEF Fit
  <2> QED
    BY <1>2, <1>3, <2>1, <2>2, <2>3 DEF Removed
<1>5. CASE m.num = Shrink48
  <2>1. PICK B, bytes : B = {b \in Byte : m.keys[b] # 0} /\ bytes = Ascending(B)
    OBVIOUS
  <2>2. PICK ch : ch = [i \in DOMAIN bytes |-> m.children[m.keys[bytes[i]]]]
    OBVIOUS
  <2>3. PICK u : u = [m EXCEPT !.kind = "node16", !.keys = bytes, !.children = ch]
    OBVIOUS
  <2>4. RemoveChild(n, c) = u
    <3>1. RemoveChild(n, c) = RemoveChild48(n, c)
      BY <1>1 DEF RemoveChild
    <3>2. RemoveChild48(n, c) = [m EXCEPT !.kind = "node16", !.keys = bytes,
                                          !.children = [i \in DOMAIN bytes |-> @[m.keys[bytes[i]]]]]
      BY <1>1, <1>5, <2>1 DEF RemoveChild48, Unmapped
    <3> QED
      BY <2>2, <2>3, <3>1, <3>2
  <2>5. u = [kind |-> "node16", num |-> m.num, plen |-> m.plen, partial |-> m.partial,
             keys |-> bytes, children |-> ch]
    BY <1>2, <2>3 DEF Record
  <2>6. /\ u.kind = "node16" /\ u.num = m.num /\ u.plen = m.plen /\ u.partial = m.partial
        /\ u.keys = bytes /\ u.children = ch
    BY <2>5
  <2>7. PICK z \in Nat : z = m.num /\ z = Shrink48 /\ z <= Size16
    BY <1>3, <1>5, Sizes
  <2>8. IsFiniteSet(B) /\ Cardinality(B) = z /\ B \in SUBSET Nat /\ B \in SUBSET Byte
    BY <1>2, <1>3, <2>1, <2>7, MappedCount, BytesFinite
  <2>9. /\ bytes \in [1 .. z -> B]
        /\ \A x \in B : \E i \in 1 .. z : bytes[i] = x
        /\ \A i, j \in 1 .. z : bytes[i] = bytes[j] => i = j
    <3>1. Lists(bytes, B)
      BY <2>1, <2>8, AscendingLists
    <3> QED
      BY <2>8, <3>1 DEF Lists
  <2>10. bytes \in Seq(Byte) /\ Len(bytes) = z
    <3>1. bytes \in [1 .. z -> Byte]
      BY <2>8, <2>9
    <3> QED
      BY <2>7, <3>1
  <2>11. ASSUME NEW i \in 1 .. z PROVE ch[i] = Child(m, bytes[i]) /\ ch[i] # Nil /\ bytes[i] \in Byte
    <3>1. bytes[i] \in Byte /\ m.keys[bytes[i]] # 0 /\ i \in DOMAIN bytes
      BY <2>1, <2>9
    <3>2. Child(m, bytes[i]) = m.children[m.keys[bytes[i]]] /\ Child(m, bytes[i]) # Nil
      BY <1>2, <3>1, MappedChild
    <3> QED
      BY <2>2, <3>1, <3>2
  <2>12. ch \in Seq(Kids(u)) /\ Len(ch) = z
    <3>1. ch \in [1 .. z -> {ch[i] : i \in 1 .. z}] /\ DOMAIN ch = 1 .. z
      BY <2>2, <2>9
    <3>2. ch \in [1 .. z -> {ch[i] : i \in DOMAIN ch}]
      BY <3>1, OwnRange
    <3>3. ch \in [1 .. z -> Kids(u)]
      BY <2>6, <3>2 DEF Kids
    <3> QED
      BY <2>7, <3>3
  <2>13. Small(u, Size16)
    BY <2>6, <2>7, <2>9, <2>10, <2>11, <2>12 DEF Small
  <2>14. Record(u)
    BY <2>5, <2>6, <2>7 DEF Record, Kind
  <2>15. Count(u) = z
    BY <2>6, <2>7, <2>13, Sizes, SmallIndexed
  <2>16. Shape(u)
    BY <2>6, <2>13, <2>14 DEF Shape
  <2>17. Fit(u)
    BY <2>6, <2>7, <2>15, Sizes DEF Fit
  <2>18. ASSUME NEW b \in Byte PROVE Child(u, b) = Child(m, b)
    <3>0. u.kind \in {"node4", "node16"} /\ u.num = z
      BY <2>6, <2>7
    <3>1. CASE m.keys[b] = 0
      <4>1. Child(m, b) = Nil
        BY <1>2, <3>1, MappedChild
      <4>2. \A j \in 1 .. z : bytes[j] # b
        BY <2>1, <2>9, <3>1
      <4>3. Child(u, b) = Nil
        BY <2>6, <2>13, <3>0, <4>2, SmallChild
      <4> QED
        BY <4>1, <4>3
    <3>2. CASE m.keys[b] # 0
      <4>1. PICK j \in 1 .. z : bytes[j] = b
        BY <2>1, <2>9, <3>2
      <4>2. Child(u, b) = ch[j]
        BY <2>6, <2>13, <3>0, <4>1, SmallChild
      <4> QED
        BY <2>11, <4>1, <4>2
    <3> QED
      BY <3>1, <3>2
  <2>19. Count(u) = Count(n) - 1
    BY <1>2, <1>3, <2>7, <2>15
  <2> QED
    BY <1>2, <2>4, <2>6, <2>16, <2>17, <2>18, <2>19 DEF Removed
<1> QED
  BY <1>4, <1>5

(* remove_child256 before the node shrinks.                                *)
Undirected(n, c) == [n EXCEPT !.num = (@ - 1) % NByte, !.children[c] = Nil]

(* It loses the child of byte c and no other.                              *)
LEMMA DropDirect ==
  ASSUME NEW n, Record(n), n.kind = "node256", Direct(n), NEW c \in Byte, Child(n, c) # Nil,
         NEW m, m = Undirected(n, c)
  PROVE  /\ Record(m) /\ m.kind = "node256" /\ Direct(m) /\ m.num = Count(m) /\ Count(m) = Count(n) - 1
         /\ m.plen = n.plen /\ m.partial = n.partial
         /\ \A b \in Byte : Child(m, b) = IF b = c THEN Nil ELSE Child(n, b)
<1>1. PICK ch : ch = [n.children EXCEPT ![c] = Nil]
  OBVIOUS
<1>2. m = [kind |-> "node256", num |-> (n.num - 1) % NByte, plen |-> n.plen, partial |-> n.partial,
           keys |-> n.keys, children |-> ch]
  <2>1. m = [n EXCEPT !.num = (n.num - 1) % NByte, !.children = ch]
    BY <1>1 DEF Undirected
  <2> QED
    BY <2>1 DEF Record
<1>3. /\ m.kind = "node256" /\ m.num = (n.num - 1) % NByte /\ m.plen = n.plen /\ m.partial = n.partial
      /\ m.keys = n.keys /\ m.children = ch
  BY <1>2
<1>4. n.children \in [Byte -> Kids(n)]
  BY DEF Direct
<1>5. ch \in [Byte -> Kids(n) \cup {Nil}] /\ \A b \in Byte : ch[b] = IF b = c THEN Nil ELSE n.children[b]
  BY <1>1, <1>4
<1>6. m.children \in [Byte -> Kids(m)]
  <2>1. ch \in [Byte -> {ch[i] : i \in DOMAIN ch}]
    BY <1>5, OwnRange
  <2> QED
    BY <1>3, <2>1 DEF Kids
<1>7. c \in Used(n) /\ Used(n) = {b \in Byte : n.children[b] # Nil}
  BY DirectChild, DirectIndexed
<1>8. Used(m) = Used(n) \ {c}
  <2>1. Used(m) = {b \in Byte : m.children[b] # Nil}
    BY <1>3 DEF Used
  <2> QED
    BY <1>3, <1>5, <1>7, <2>1
<1>9. IsFiniteSet(Used(n)) /\ Count(n) \in Nat /\ n.num = Count(n) % NByte /\ Count(n) <= NByte
  BY DirectIndexed DEF Indexed
<1>10. Count(m) = Count(n) - 1 /\ Count(m) \in Nat
  <2>1. PICK U : U = Used(n)
    OBVIOUS
  <2>2. IsFiniteSet(U \ {c}) /\ Cardinality(U \ {c}) = Cardinality(U) - 1
    BY <1>7, <1>9, <2>1, FS_RemoveElement
  <2>3. Cardinality(U \ {c}) \in Nat
    BY <2>2, FS_CardinalityType
  <2> QED
    BY <1>8, <2>1, <2>2, <2>3 DEF Count
<1>11. PICK a \in Nat, z \in Nat : a = Count(m) /\ z = NByte /\ a < z /\ 0 < z
  BY <1>9, <1>10, Sizes
<1>12. a % z = a
  BY <1>11, Remainder
<1>13. (n.num - 1) % z = a
  <2>1. CASE Count(n) = z
    <3>1. n.num = 0
      <4>1. z % z = 0
        BY <1>11, Z3
      <4> QED
        BY <1>9, <1>11, <2>1, <4>1
    <3>2. a = z - 1
      BY <1>10, <1>11, <2>1
    <3>3. (0 - 1) % z = z - 1
      <4>1. z * (0 - 1) + (z - 1) = 0 - 1 /\ z - 1 \in 0 .. z - 1
        BY <1>11, Z3
      <4> QED
        BY <1>11, <4>1, Z3
    <3> QED
      BY <3>1, <3>2, <3>3
  <2>2. CASE Count(n) # z
    <3>1. PICK d \in Nat : d = Count(n) /\ d < z
      BY <1>9, <1>11, <2>2
    <3>2. n.num = d
      BY <1>9, <1>11, <3>1, Remainder
    <3>3. d - 1 = a
      BY <1>10, <1>11, <3>1
    <3> QED
      BY <1>12, <3>2, <3>3
  <2> QED
    BY <2>1, <2>2
<1>14. m.num = Count(m) /\ m.num = Count(m) % NByte /\ m.num \in Nat
  BY <1>3, <1>11, <1>12, <1>13
<1>15. Direct(m)
  BY <1>6, <1>14 DEF Direct
<1>16. Record(m)
  BY <1>2, <1>3, <1>14 DEF Record, Kind
<1>17. \A b \in Byte : Child(m, b) = IF b = c THEN Nil ELSE Child(n, b)
  <2> SUFFICES ASSUME NEW b \in Byte PROVE Child(m, b) = IF b = c THEN Nil ELSE Child(n, b)
    OBVIOUS
  <2>1. Child(m, b) = m.children[b]
    BY <1>3, <1>15, DirectChild
  <2>2. Child(n, b) = n.children[b]
    BY DirectChild
  <2> QED
    BY <1>3, <1>5, <2>1, <2>2
<1> QED
  BY <1>3, <1>10, <1>14, <1>15, <1>16, <1>17

(* The place of an element in a list without repetitions.                  *)
PlaceOf(s, b) == SelectInSeq(s, LAMBDA x : x = b)

(* An element that occurs once is found where it is.                       *)
LEMMA PlaceInSeq ==
  ASSUME NEW z \in Nat, NEW B, NEW s \in [1 .. z -> B],
         \A i, j \in 1 .. z : s[i] = s[j] => i = j,
         NEW i \in 1 .. z
  PROVE  PlaceOf(s, s[i]) = i
<1>1. PICK I : I = {j \in 1 .. Len(s) : s[j] = s[i]}
  OBVIOUS
<1>2. Len(s) = z
  OBVIOUS
<1>3. I = {i}
  BY <1>1, <1>2
<1>4. Min({i}) = i
  BY MinOne
<1> QED
  BY <1>1, <1>3, <1>4 DEF SelectInSeq, PlaceOf

(* remove_child256.                                                        *)
LEMMA RemoveChild256OK ==
  ASSUME NEW n, Record(n), n.kind = "node256", Direct(n), Fit(n), NEW c \in Byte, Child(n, c) # Nil
  PROVE  Removed(n, c, RemoveChild(n, c))
<1>1. PICK m : m = Undirected(n, c)
  OBVIOUS
<1>2. /\ Record(m) /\ m.kind = "node256" /\ Direct(m) /\ m.num = Count(m) /\ Count(m) = Count(n) - 1
      /\ m.plen = n.plen /\ m.partial = n.partial
      /\ \A b \in Byte : Child(m, b) = IF b = c THEN Nil ELSE Child(n, b)
  BY <1>1, DropDirect
<1>3. Count(n) \in Nat /\ Count(m) \in Nat /\ Shrink256 <= Count(m) /\ IsFiniteSet(Used(m))
  <2>1. Count(n) \in Nat /\ Count(m) \in Nat /\ IsFiniteSet(Used(m))
    BY <1>2, DirectIndexed DEF Indexed
  <2>2. Shrink256 < Count(n)
    BY DEF Fit
  <2> QED
    BY <1>2, <2>1, <2>2, Sizes
<1>4. CASE m.num # Shrink256
  <2>1. RemoveChild(n, c) = m
    BY <1>1, <1>4 DEF RemoveChild, RemoveChild256, Undirected
  <2>2. Shape(m)
    BY <1>2 DEF Shape
  <2>3. Fit(m)
    BY <1>2, <1>3, <1>4, Sizes DEF Fit
  <2> QED
    BY <1>2, <2>1, <2>2, <2>3 DEF Removed
<1>5. CASE m.num = Shrink256
  <2>1. PICK B, s : B = Used(m) /\ s = Slots(m)
    OBVIOUS
  <2>2. s = Ascending(B) /\ B = {b \in Byte : m.children[b] # Nil}
    BY <1>2, <2>1, DirectIndexed DEF Slots
  <2>3. PICK ks : ks = [b \in Byte |-> IF Contains(s, b) THEN PlaceOf(s, b) ELSE 0]
    OBVIOUS
  <2>4. PICK ch : ch = [i \in 1 .. Size48 |-> IF i <= m.num THEN m.children[s[i]] ELSE Nil]
    OBVIOUS
  <2>5. PICK u : u = [m EXCEPT !.kind = "node48", !.keys = ks, !.children = ch]
    OBVIOUS
  <2>6. RemoveChild(n, c) = u
    <3>1. RemoveChild(n, c) = RemoveChild256(n, c)
      BY DEF RemoveChild
    <3> DEFINE w == Undirected(n, c)
               Map(v, t) == [b \in Byte |-> IF Contains(t, b) THEN PlaceOf(t, b) ELSE 0]
               Ref(v, t) == [i \in 1 .. Size48 |-> IF i <= v.num THEN v.children[t[i]] ELSE Nil]
    <3>2. RemoveChild256(n, c) =
            IF w.num = Shrink256
            THEN [w EXCEPT !.kind = "node48", !.keys = Map(w, Slots(w)), !.children = Ref(w, Slots(w))]
            ELSE w
      BY Zenon DEF RemoveChild256, Undirected, PlaceOf
    <3>3. Map(m, s) = ks /\ Ref(m, s) = ch
      BY <2>3, <2>4
    <3> HIDE DEF Map, Ref
    <3>4. RemoveChild256(n, c) = [m EXCEPT !.kind = "node48", !.keys = Map(m, s), !.children = Ref(m, s)]
      BY <1>1, <1>5, <2>1, <3>2, Zenon
    <3> QED
      BY <2>5, <3>1, <3>3, <3>4, Zenon
  <2>7. u = [kind |-> "node48", num |-> m.num, plen |-> m.plen, partial |-> m.partial,
             keys |-> ks, children |-> ch]
    BY <1>2, <2>5 DEF Record
  <2>8. /\ u.kind = "node48" /\ u.num = m.num /\ u.plen = m.plen /\ u.partial = m.partial
        /\ u.keys = ks /\ u.children = ch
    BY <2>7
  <2>9. PICK z \in Nat : z = m.num /\ z = Shrink256 /\ z <= Size48 /\ z = Cardinality(B)
    BY <1>2, <1>3, <1>5, <2>1, Sizes DEF Count
  <2>10. IsFiniteSet(B) /\ B \in SUBSET Nat /\ B \in SUBSET Byte
    BY <1>3, <2>1, <2>2, BytesFinite
  <2>11. /\ s \in [1 .. z -> B]
         /\ \A x \in B : \E i \in 1 .. z : s[i] = x
         /\ \A i, j \in 1 .. z : s[i] = s[j] => i = j
    <3>1. Lists(s, B)
      BY <2>2, <2>10, AscendingLists
    <3> QED
      BY <2>9, <3>1 DEF Lists
  <2>12. \A b : Contains(s, b) <=> \E i \in 1 .. z : s[i] = b
    <3>1. Len(s) = z
      BY <2>9, <2>11
    <3> QED
      BY <3>1 DEF Contains
  <2>13. ASSUME NEW i \in 1 .. z PROVE s[i] \in Byte /\ ks[s[i]] = i
    <3>1. s[i] \in Byte
      BY <2>10, <2>11
    <3>2. PlaceOf(s, s[i]) = i
      BY <2>11, PlaceInSeq
    <3> QED
      BY <2>3, <2>12, <3>1, <3>2
  <2>14. \A b \in Byte : b \notin B => ks[b] = 0
    BY <2>3, <2>11, <2>12
  <2>15. ASSUME NEW b \in B PROVE \E i \in 1 .. z : s[i] = b /\ ks[b] = i
    <3>1. PICK i \in 1 .. z : s[i] = b
      BY <2>11
    <3>2. ks[b] = i
      BY <2>13, <3>1
    <3> QED
      BY <3>1, <3>2
  <2>16. \A b \in Byte : ks[b] \in 0 .. z /\ (ks[b] # 0 => b \in B /\ ks[b] \in 1 .. z /\ s[ks[b]] = b)
    BY <2>14, <2>15
  <2>17. ks \in [Byte -> 0 .. Size48]
    <3>1. \A b \in Byte : ks[b] \in 0 .. Size48
      BY <2>9, <2>16, Sizes
    <3>2. ks = [b \in Byte |-> ks[b]]
      BY <2>3
    <3> QED
      BY <3>1, <3>2
  <2>18. ASSUME NEW i \in 1 .. Size48
         PROVE  (i <= z => ch[i] = m.children[s[i]] /\ ch[i] # Nil) /\ (~(i <= z) => ch[i] = Nil)
    <3>1. i <= z => i \in 1 .. z
      BY Sizes
    <3>2. i <= z => s[i] \in B
      BY <2>11, <3>1
    <3> QED
      BY <2>2, <2>4, <2>9, <3>2
  <2>19. ch \in [1 .. Size48 -> Kids(u)]
    <3>1. ch \in [1 .. Size48 -> {ch[i] : i \in 1 .. Size48}]
      BY <2>4
    <3>2. ch \in [1 .. Size48 -> {ch[i] : i \in DOMAIN ch}]
      BY <3>1, OwnRange
    <3> QED
      BY <2>8, <3>2 DEF Kids
  <2>20. \A b, d \in Byte : ks[b] = ks[d] /\ ks[b] # 0 => b = d
    BY <2>16
  <2>21. ASSUME NEW i \in 1 .. Size48 PROVE ch[i] # Nil <=> \E b \in Byte : ks[b] = i
    <3>1. CASE i <= z
      <4>1. i \in 1 .. z
        BY <3>1, Sizes
      <4> QED
        BY <2>13, <2>18, <3>1, <4>1
    <3>2. CASE ~(i <= z)
      <4>1. \A b \in Byte : ks[b] # i
        BY <2>16, <3>2
      <4> QED
        BY <2>18, <3>2, <4>1
    <3> QED
      BY <3>1, <3>2
  <2>22. Used(u) = 1 .. z
    <3>1. Used(u) = {ks[b] : b \in Byte} \ {0}
      BY <2>8 DEF Used
    <3>2. \A x : x \in Used(u) => x \in 1 .. z
      BY <2>16, <3>1
    <3>3. \A x \in 1 .. z : x \in Used(u)
      <4> SUFFICES ASSUME NEW x \in 1 .. z PROVE x \in Used(u)
        OBVIOUS
      <4>1. x = ks[s[x]] /\ s[x] \in Byte /\ x # 0
        BY <2>13
      <4> QED
        BY <3>1, <4>1
    <3> QED
      BY <3>2, <3>3
  <2>23. Count(u) = z
    <3>1. Cardinality(1 .. z) = z
      BY SMTT(40), FS_Interval
    <3> QED
      BY <2>22, <3>1 DEF Count
  <2>24. Mapped(u)
    BY <2>8, <2>9, <2>17, <2>19, <2>20, <2>21, <2>23 DEF Mapped
  <2>25. Record(u)
    BY <2>7, <2>8, <2>9 DEF Record, Kind
  <2>26. Shape(u)
    BY <2>8, <2>24, <2>25 DEF Shape
  <2>27. Fit(u)
    BY <2>8, <2>9, <2>23, Sizes DEF Fit
  <2>28. ASSUME NEW b \in Byte PROVE Child(u, b) = Child(m, b)
    <3>0. Child(m, b) = m.children[b]
      BY <1>2, DirectChild
    <3>1. CASE b \notin B
      <4>1. Child(u, b) = Nil
        BY <2>8, <2>14, <2>24, <3>1, MappedChild
      <4> QED
        BY <2>2, <3>0, <3>1, <4>1
    <3>2. CASE b \in B
      <4>1. PICK i \in 1 .. z : s[i] = b /\ ks[b] = i
        BY <2>15, <3>2
      <4>2. i # 0 /\ i \in 1 .. Size48 /\ i <= z
        BY <2>9, Sizes
      <4>3. Child(u, b) = ch[i]
        BY <2>8, <2>24, <4>1, <4>2, MappedChild
      <4> QED
        BY <2>18, <3>0, <4>1, <4>2, <4>3
    <3> QED
      BY <3>1, <3>2
  <2>29. Count(u) = Count(n) - 1
    BY <1>2, <2>9, <2>23
  <2> QED
    BY <1>2, <2>6, <2>8, <2>26, <2>27, <2>28, <2>29 DEF Removed
<1> QED
  BY <1>4, <1>5

(* remove_child of a node that remains.                                    *)
LEMMA RemoveChildOK ==
  ASSUME NEW n, Shape(n), Fit(n), n.kind = "node4" => 2 < Count(n), NEW c \in Byte, Child(n, c) # Nil
  PROVE  Removed(n, c, RemoveChild(n, c))
<1>1. n.kind \in Kind /\ Record(n)
  BY DEF Shape, Record
<1>2. CASE n.kind = "node4"
  <2>1. Count(n) = n.num /\ Small(n, Size4)
    BY <1>2, Sizes, SmallIndexed DEF Shape
  <2> QED
    BY <1>1, <1>2, <2>1, RemoveChild4OK
<1>3. CASE n.kind = "node16"
  BY <1>1, <1>3, RemoveChild16OK DEF Shape
<1>4. CASE n.kind = "node48"
  BY <1>1, <1>4, RemoveChild48OK DEF Shape
<1>5. CASE n.kind = "node256"
  BY <1>1, <1>5, RemoveChild256OK DEF Shape
<1> QED
  BY <1>1, <1>2, <1>3, <1>4, <1>5 DEF Kind

-----------------------------------------------------------------------------
(* Other changes of a node.                                                *)

(* find_child of a node is the same when only children change, none of     *)
(* them from or to Nil.                                                    *)
Replaced(n, s, y) == [n EXCEPT !.children[s] = y]

(* Only the child of byte c is another.                                    *)
LEMMA ReplacedOK ==
  ASSUME NEW n, Shape(n), NEW c \in Byte, NEW s \in FindChild(n, c), NEW y, y # Nil,
         NEW u, u = Replaced(n, s, y)
  PROVE  /\ Shape(u) /\ u.plen = n.plen /\ u.partial = n.partial /\ Count(u) = Count(n)
         /\ (Fit(n) => Fit(u)) /\ IsInner(u)
         /\ \A b \in Byte : Child(u, b) = IF b = c THEN y ELSE Child(n, b)
<1>1. n.kind \in Kind /\ Record(n) /\ Indexed(n)
  BY ShapeIndexed DEF Shape, Record
<1>2. PICK ch : ch = [n.children EXCEPT ![s] = y]
  OBVIOUS
<1>3. u = [kind |-> n.kind, num |-> n.num, plen |-> n.plen, partial |-> n.partial,
           keys |-> n.keys, children |-> ch]
  <2>1. u = [n EXCEPT !.children = ch]
    BY <1>2 DEF Replaced
  <2> QED
    BY <1>1, <2>1 DEF Record
<1>4. /\ u.kind = n.kind /\ u.num = n.num /\ u.plen = n.plen /\ u.partial = n.partial
      /\ u.keys = n.keys /\ u.children = ch
  BY <1>3
<1>5. Record(u) /\ IsInner(u)
  BY <1>1, <1>3, <1>4 DEF Record, IsInner, Kind
<1>6. s \in DOMAIN n.children /\ n.children[s] # Nil /\ s \in Used(n) /\ FindChild(n, c) = {s} /\ s \in Nat
  BY <1>1 DEF Indexed
<1>7. DOMAIN ch = DOMAIN n.children /\ \A i \in DOMAIN n.children : ch[i] = IF i = s THEN y ELSE n.children[i]
  BY <1>2
<1>8. \A i \in DOMAIN n.children : ch[i] # Nil <=> n.children[i] # Nil
  BY <1>6, <1>7
<1>9. Used(u) = Used(n) /\ Count(u) = Count(n)
  <2>1. CASE n.kind = "node256"
    <3>1. DOMAIN n.children = Byte
      BY <2>1 DEF Shape, Direct
    <3>2. Used(u) = Used(n)
      BY <1>4, <1>8, <2>1, <3>1 DEF Used
    <3> QED
      BY <3>2 DEF Count
  <2>2. CASE n.kind # "node256"
    <3>1. Used(u) = Used(n)
      BY <1>4, <2>2 DEF Used
    <3> QED
      BY <3>1 DEF Count
  <2> QED
    BY <2>1, <2>2
<1>10. ch \in [DOMAIN n.children -> Kids(u)]
  <2>1. ch \in [DOMAIN n.children -> {ch[i] : i \in DOMAIN ch}]
    BY <1>2
  <2> QED
    BY <1>4, <2>1 DEF Kids
<1>11. ASSUME NEW max, Small(n, max) PROVE Small(u, max)
  <2>1. PICK m \in Nat : m = n.num
    BY <1>11 DEF Small
  <2>2. DOMAIN n.children = 1 .. m
    BY <1>11, <2>1 DEF Small
  <2>3. ch \in Seq(Kids(u)) /\ Len(ch) = m
    BY <1>10, <2>1, <2>2
  <2>4. \A i \in 1 .. m : ch[i] # Nil
    BY <1>8, <1>11, <2>1, <2>2 DEF Small
  <2> QED
    BY <1>4, <1>11, <2>1, <2>3, <2>4 DEF Small
<1>12. ASSUME n.kind = "node48", Mapped(n) PROVE Mapped(u)
  <2>1. DOMAIN n.children = 1 .. Size48
    BY <1>12 DEF Mapped
  <2> QED
    BY <1>4, <1>8, <1>9, <1>10, <1>12, <2>1 DEF Mapped
<1>13. ASSUME n.kind = "node256", Direct(n) PROVE Direct(u)
  <2>1. DOMAIN n.children = Byte
    BY <1>13 DEF Direct
  <2> QED
    BY <1>4, <1>9, <1>10, <1>13, <2>1 DEF Direct
<1>14. Shape(u)
  BY <1>4, <1>5, <1>11, <1>12, <1>13 DEF Shape
<1>15. Fit(n) => Fit(u)
  BY <1>4, <1>9 DEF Fit
<1>16. \A b \in Byte : FindChild(u, b) = FindChild(n, b)
  <2>1. CASE n.kind = "node256"
    <3>1. DOMAIN n.children = Byte
      BY <2>1 DEF Shape, Direct
    <3> QED
      BY <1>4, <1>8, <2>1, <3>1 DEF FindChild
  <2>2. CASE n.kind # "node256"
    BY <1>4, <2>2 DEF FindChild
  <2> QED
    BY <2>1, <2>2
<1>17. Indexed(u)
  BY <1>14, ShapeIndexed
<1>18. ASSUME NEW b \in Byte PROVE Child(u, b) = IF b = c THEN y ELSE Child(n, b)
  <2>1. CASE FindChild(n, b) = {}
    <3>1. b # c
      BY <2>1
    <3> QED
      BY <1>16, <2>1, <3>1 DEF Child
  <2>2. CASE FindChild(n, b) # {}
    <3>1. PICK p \in FindChild(n, b) : TRUE
      BY <2>2
    <3>2. Child(n, b) = n.children[p] /\ p \in Used(n) /\ p \in DOMAIN n.children
      BY <1>1 DEF Indexed
    <3>3. Child(u, b) = ch[p]
      BY <1>4, <1>16, <1>17, <3>1 DEF Indexed
    <3>4. p = s <=> b = c
      <4>1. p = s => b = c
        BY <1>1 DEF Indexed
      <4>2. b = c => p = s
        BY <1>6
      <4> QED
        BY <4>1, <4>2
    <3> QED
      BY <1>7, <3>2, <3>3, <3>4
  <2> QED
    BY <2>1, <2>2
<1> QED
  BY <1>4, <1>5, <1>9, <1>14, <1>15, <1>18

(* The same node with another path.                                        *)
WithPath(n, p, q) == [n EXCEPT !.plen = p, !.partial = q]

(* It has the same children.                                               *)
LEMMA WithPathOK ==
  ASSUME NEW n, Shape(n), NEW p, NEW q, NEW u, u = WithPath(n, p, q)
  PROVE  /\ Shape(u) /\ u.plen = p /\ u.partial = q /\ Count(u) = Count(n) /\ (Fit(n) => Fit(u))
         /\ IsInner(u) /\ \A b : Child(u, b) = Child(n, b)
<1>1. n.kind \in Kind /\ Record(n)
  BY DEF Shape, Record
<1>2. u = [kind |-> n.kind, num |-> n.num, plen |-> p, partial |-> q,
           keys |-> n.keys, children |-> n.children]
  BY <1>1 DEF WithPath, Record
<1>3. /\ u.kind = n.kind /\ u.num = n.num /\ u.plen = p /\ u.partial = q
      /\ u.keys = n.keys /\ u.children = n.children
  BY <1>2
<1>4. Record(u) /\ IsInner(u)
  BY <1>1, <1>2, <1>3 DEF Record, IsInner, Kind
<1>5. Used(u) = Used(n) /\ Count(u) = Count(n) /\ Kids(u) = Kids(n)
  BY <1>3 DEF Used, Count, Kids
<1>6. Shape(u)
  BY <1>3, <1>4, <1>5 DEF Shape, Small, Mapped, Direct
<1>7. Fit(n) => Fit(u)
  BY <1>3, <1>5 DEF Fit
<1>8. \A b : FindChild(u, b) = FindChild(n, b)
  BY <1>3 DEF FindChild
<1>9. \A b : Child(u, b) = Child(n, b)
  BY <1>3, <1>8 DEF Child
<1> QED
  BY <1>3, <1>4, <1>5, <1>6, <1>7, <1>9

(* A new node with two children.                                           *)
Pair(p, q, c, x, d, y) == AddChild4(AddChild4(Node4(p, q), c, x), d, y)
Paired(u, p, q, c, x, d, y) ==
  /\ Shape(u) /\ Fit(u) /\ u.plen = p /\ u.partial = q /\ IsInner(u)
  /\ \A b \in Byte : Child(u, b) = IF b = d THEN y ELSE IF b = c THEN x ELSE Nil

(* A new node4 with two children, as both splits of art_insert make one.   *)
LEMMA PairOK ==
  ASSUME NEW p, NEW q, NEW c \in Byte, NEW x, x # Nil, NEW d \in Byte, NEW y, y # Nil, c # d,
         NEW u, u = Pair(p, q, c, x, d, y)
  PROVE  Paired(u, p, q, c, x, d, y)
<1>1. PICK n : n = Node4(p, q)
  OBVIOUS
<1>2. /\ n.kind = "node4" /\ n.num = 0 /\ n.plen = p /\ n.partial = q
      /\ n.keys = <<>> /\ n.children = <<>>
  BY <1>1 DEF Node4
<1>3. Record(n)
  BY <1>1, <1>2 DEF Record, Node4, Kind
<1>4. Small(n, Size4)
  <2>1. <<>> \in Seq(Byte) /\ Len(<<>>) = 0 /\ <<>> \in Seq(Kids(n))
    OBVIOUS
  <2>2. \A i \in 1 .. 0 : FALSE
    OBVIOUS
  <2> QED
    BY <1>2, <2>1, <2>2, Sizes DEF Small
<1>5. \A b \in Byte : Child(n, b) = Nil
  <2>1. \A i \in 1 .. 0 : FALSE
    OBVIOUS
  <2>2. n.kind \in {"node4", "node16"}
    BY <1>2
  <2> QED
    BY <1>2, <1>4, <2>1, <2>2, SmallChild
<1>6. Count(n) = 0
  BY <1>2, <1>4, Sizes, SmallIndexed
<1>7. PICK m : m = AddChild4(n, c, x)
  OBVIOUS
<1>8. Added(n, c, x, m) /\ m.kind = "node4"
  BY <1>2, <1>3, <1>4, <1>5, <1>7, Sizes, AddChild4OK
<1>9. /\ Record(m) /\ Small(m, Size4) /\ Count(m) = 1 /\ m.plen = p /\ m.partial = q
      /\ \A b \in Byte : Child(m, b) = IF b = c THEN x ELSE Nil
  BY <1>2, <1>5, <1>6, <1>8 DEF Added, Shape
<1>10. m.num = 1
  BY <1>8, <1>9, Sizes, SmallIndexed
<1>11. u = AddChild4(m, d, y)
  BY <1>1, <1>7 DEF Pair
<1>12. Added(m, d, y, u) /\ u.kind = "node4"
  <2>1. Child(m, d) = Nil
    BY <1>9
  <2>2. m.num < Size4
    BY <1>10, Sizes
  <2> QED
    BY <1>8, <1>9, <1>11, <2>1, <2>2, AddChild4OK
<1>13. Fit(u) /\ IsInner(u)
  BY <1>9, <1>12 DEF Added, Fit, IsInner
<1> QED
  BY <1>9, <1>12, <1>13 DEF Added, Paired

(* Node n, whose only child is x, under byte d, goes: x gets its path.     *)
Merged(n, d, x) ==
  WithPath(x, x.plen + n.plen + 1,
           SubSeq(n.partial \o <<d>> \o x.partial, 1, Min({MaxPrefix, Len(n.partial \o <<d>> \o x.partial)})))

(* remove_child4 of a node with two children.                              *)
LEMMA RemoveLastOK ==
  ASSUME NEW n, Shape(n), n.kind = "node4", Count(n) = 2, NEW c \in Byte, Child(n, c) # Nil
  PROVE  \E d \in Byte :
           /\ d # c /\ Child(n, d) # Nil /\ \A b \in Byte : b # c /\ b # d => Child(n, b) = Nil
           /\ IsLeaf(Child(n, d)) => RemoveChild(n, c) = Child(n, d)
           /\ ~IsLeaf(Child(n, d)) => RemoveChild(n, c) = Merged(n, d, Child(n, d))
<1>0. /\ Size4 \in Nat /\ Size4 < NByte /\ n.kind \in {"node4", "node16"} /\ n.num = 2
      /\ Record(n) /\ Small(n, Size4)
  <2>1. Size4 \in Nat /\ Size4 < NByte /\ n.kind \in {"node4", "node16"} /\ Record(n) /\ Small(n, Size4)
    BY Sizes DEF Shape
  <2> QED
    BY <2>1, SmallIndexed
<1>1. PICK i : i = Min(FindChild(n, c))
  OBVIOUS
<1>2. i \in 1 .. n.num /\ n.keys[i] = c
  BY <1>0, <1>1, SmallPlace
<1>3. PICK m : m = DropChild(n, i)
  OBVIOUS
<1>4. /\ Record(m) /\ m.kind = n.kind /\ Small(m, Size4) /\ m.num = 1
      /\ m.plen = n.plen /\ m.partial = n.partial
      /\ \A b \in Byte : Child(m, b) = IF b = c THEN Nil ELSE Child(n, b)
  <2>1. /\ Record(m) /\ m.kind = n.kind /\ Small(m, Size4) /\ m.num = n.num - 1
        /\ m.plen = n.plen /\ m.partial = n.partial
        /\ \A b \in Byte : Child(m, b) = IF b = n.keys[i] THEN Nil ELSE Child(n, b)
    BY <1>0, <1>2, <1>3, DropChildOK
  <2> QED
    BY <1>0, <1>2, <2>1
<1>5. PICK d : d = m.keys[1]
  OBVIOUS
<1>6. d \in Byte
  BY <1>4, <1>5 DEF Small
<1>7. Child(m, d) = m.children[1] /\ Child(m, d) # Nil
  <2>1. 1 \in 1 .. m.num /\ m.kind \in {"node4", "node16"}
    BY <1>4
  <2> QED
    BY <1>4, <1>5, <2>1, SmallChild
<1>8. d # c /\ Child(m, d) = Child(n, d)
  BY <1>4, <1>6, <1>7
<1>9. \A b \in Byte : b # c /\ b # d => Child(n, b) = Nil
  <2> SUFFICES ASSUME NEW b \in Byte, b # c, b # d PROVE Child(n, b) = Nil
    OBVIOUS
  <2>1. \A j \in 1 .. m.num : m.keys[j] # b
    BY <1>4, <1>5
  <2>2. Child(m, b) = Nil
    BY <1>4, <2>1, SmallChild
  <2> QED
    BY <1>4, <2>2
<1>10. PICK x : x = Child(n, d)
  OBVIOUS
<1>11. x = m.children[1]
  BY <1>7, <1>8, <1>10
<1>12. RemoveChild(n, c) = IF IsLeaf(x) THEN x ELSE Concatenated(m, x)
  <2>1. RemoveChild(n, c) = RemoveChild4(n, i)
    BY <1>1 DEF RemoveChild
  <2> QED
    BY <1>3, <1>4, <1>11, <2>1 DEF RemoveChild4
<1>13. Concatenated(m, x) = Merged(n, d, x)
  BY <1>4, <1>5, Zenon DEF Concatenated, Merged, WithPath
<1> QED
  BY <1>6, <1>7, <1>8, <1>9, <1>10, <1>12, <1>13
=============================================================================
