----------------------------- MODULE ArtProofs -----------------------------
(***************************************************************************)
(* Theorems on the adaptive radix tree of art.c.                           *)
(***************************************************************************)
EXTENDS ArtNodes

-----------------------------------------------------------------------------
(* Trees.                                                                  *)

(* The leaves of L whose keys have byte c at place i.                      *)
Share(L, c, i) == {l \in L : l.key[i] = c}

(* A leaf.                                                                 *)
Tip(n, d, L) ==
  /\ L = {n} /\ n = Leaf(n.key, n.value)
  /\ n.key \in Key /\ d <= Len(n.key)

(* An inner node at depth d, and the leaves L below it.                    *)
Fork(n, d, L) ==
  /\ Shape(n) /\ Fit(n) /\ n.plen \in Nat /\ L # {}
  /\ \A l \in L : l.key \in Key /\ d + n.plen < Len(l.key)
  /\ \A l, m \in L : \A i \in 1 .. d + n.plen : l.key[i] = m.key[i]
  /\ \A l \in L : n.partial = SubSeq(l.key, d + 1, d + Stored(n))

(* Its children are in N, with the leaves of their bytes.                  *)
Forks(N, n, d, L) ==
  \A c \in Byte :
    IF Share(L, c, d + n.plen + 1) = {} THEN Child(n, c) = Nil
    ELSE <<Child(n, c), d + n.plen + 1, Share(L, c, d + n.plen + 1)>> \in N

Closed(N) ==
  \A n, d, L : <<n, d, L>> \in N => d \in Nat /\ (Tip(n, d, L) \/ (Fork(n, d, L) /\ Forks(N, n, d, L)))

(* n is a tree at depth d with the leaves L.                               *)
Good(n, d, L) == \E N : Closed(N) /\ <<n, d, L>> \in N

(* The children of a tree are trees.                                       *)
Branches(n, d, L) ==
  \A c \in Byte :
    IF Share(L, c, d + n.plen + 1) = {} THEN Child(n, c) = Nil
    ELSE Good(Child(n, c), d + n.plen + 1, Share(L, c, d + n.plen + 1))

(* A tree is a leaf, or a node with trees as its children ...              *)
LEMMA Unfold ==
  ASSUME NEW n, NEW d, NEW L, Good(n, d, L)
  PROVE  d \in Nat /\ (Tip(n, d, L) \/ (Fork(n, d, L) /\ Branches(n, d, L)))
<1>1. PICK N : Closed(N) /\ <<n, d, L>> \in N
  BY DEF Good
<1>2. d \in Nat /\ (Tip(n, d, L) \/ (Fork(n, d, L) /\ Forks(N, n, d, L)))
  BY <1>1 DEF Closed
<1>3. Forks(N, n, d, L) => Branches(n, d, L)
  BY <1>1 DEF Forks, Branches, Good
<1> QED
  BY <1>2, <1>3

(* ... a leaf is a tree ...                                                *)
LEMMA FoldTip ==
  ASSUME NEW n, NEW d \in Nat, NEW L, Tip(n, d, L)
  PROVE  Good(n, d, L)
<1>1. PICK N : N = {<<n, d, L>>}
  OBVIOUS
<1>2. Closed(N)
  <2> SUFFICES ASSUME NEW a, NEW e, NEW K, <<a, e, K>> \in N
               PROVE  e \in Nat /\ Tip(a, e, K)
    BY DEF Closed
  <2>1. <<a, e, K>> = <<n, d, L>>
    BY <1>1
  <2>2. a = n /\ e = d /\ K = L
    BY <2>1
  <2> QED
    BY <2>2
<1> QED
  BY <1>1, <1>2 DEF Good

(* ... and so is a node with trees as its children.                        *)
LEMMA FoldFork ==
  ASSUME NEW n, NEW d \in Nat, NEW L, Fork(n, d, L), Branches(n, d, L)
  PROVE  Good(n, d, L)
<1> DEFINE T(c) == <<Child(n, c), d + n.plen + 1, Share(L, c, d + n.plen + 1)>>
           C == {c \in Byte : Share(L, c, d + n.plen + 1) # {}}
           W(c) == CHOOSE N : Closed(N) /\ T(c) \in N
           N == {<<n, d, L>>} \cup UNION {W(c) : c \in C}
<1>1. ASSUME NEW c \in C PROVE Closed(W(c)) /\ T(c) \in W(c)
  <2>1. \E M : Closed(M) /\ T(c) \in M
    BY DEF Branches, Good
  <2> HIDE DEF T
  <2> QED
    BY <2>1
<1> HIDE DEF W
<1>2. \A c \in C : T(c) \in N
  <2> HIDE DEF T, C
  <2> QED
    BY <1>1
<1>3. Forks(N, n, d, L)
  <2>1. \A c \in Byte : Share(L, c, d + n.plen + 1) # {} => c \in C
    OBVIOUS
  <2>2. \A c \in Byte : Share(L, c, d + n.plen + 1) # {} => T(c) \in N
    <3> HIDE DEF T, C, N
    <3> QED
      BY <1>2, <2>1
  <2> HIDE DEF C, N
  <2> QED
    BY <2>2 DEF Branches, Forks
<1>4. ASSUME NEW M, NEW a, NEW e, NEW K, M \subseteq N, Forks(M, a, e, K) PROVE Forks(N, a, e, K)
  <2> HIDE DEF N
  <2> QED
    BY <1>4 DEF Forks
<1>5. Closed(N)
  <2> SUFFICES ASSUME NEW a, NEW e, NEW K, <<a, e, K>> \in N
               PROVE  e \in Nat /\ (Tip(a, e, K) \/ (Fork(a, e, K) /\ Forks(N, a, e, K)))
    BY DEF Closed
  <2>1. CASE <<a, e, K>> = <<n, d, L>>
    <3>1. a = n /\ e = d /\ K = L
      BY <2>1
    <3> HIDE DEF N
    <3> QED
      BY <1>3, <3>1
  <2>2. CASE \E c \in C : <<a, e, K>> \in W(c)
    <3>1. PICK c \in C : <<a, e, K>> \in W(c)
      BY <2>2
    <3>2. W(c) \subseteq N
      BY <3>1
    <3>3. e \in Nat /\ (Tip(a, e, K) \/ (Fork(a, e, K) /\ Forks(W(c), a, e, K)))
      BY <1>1, <3>1 DEF Closed
    <3> HIDE DEF N, C
    <3> QED
      BY <1>4, <3>2, <3>3
  <2> QED
    BY <2>1, <2>2
<1>6. <<n, d, L>> \in N
  OBVIOUS
<1> HIDE DEF N
<1> QED
  BY <1>5, <1>6 DEF Good

(* A key is a string of bytes that are not 0, no longer than MaxLen ...    *)
LEMMA KeyFacts ==
  ASSUME NEW k \in Key
  PROVE  /\ k \in Seq(Byte \ {0}) /\ k \in Seq(Byte) /\ Len(k) \in Nat /\ Len(k) <= MaxLen
         /\ \A i \in 1 .. Len(k) : k[i] \in Byte /\ k[i] # 0
<1>1. k \in Seq(Byte \ {0}) /\ Len(k) <= MaxLen
  BY ArtAssumption
<1>2. Len(k) \in Nat /\ \A i \in 1 .. Len(k) : k[i] \in Byte \ {0}
  BY <1>1
<1>3. k \in Seq(Byte)
  BY <1>1
<1> QED
  BY <1>1, <1>2, <1>3

(* ... and none is a prefix of another.                                    *)
LEMMA KeysPart ==
  ASSUME NEW k \in Key, NEW l \in Key, Len(k) <= Len(l), \A i \in 1 .. Len(k) : k[i] = l[i]
  PROVE  k = l
<1>1. k \in Seq(Byte) /\ l \in Seq(Byte) /\ Len(k) \in Nat /\ Len(l) \in Nat
  BY KeyFacts
<1>2. SubSeq(k, 1, Len(k)) = SubSeq(l, 1, Len(k))
  BY <1>1
<1>3. IsPrefix(k, l)
  BY <1>1, <1>2 DEF IsPrefix
<1> QED
  BY <1>3, ArtAssumption

(* What is known of a tree.                                                *)
LEMMA TreeFacts ==
  ASSUME NEW n, NEW d, NEW L, Good(n, d, L)
  PROVE  /\ d \in Nat /\ L # {} /\ n # Nil /\ n.kind # "null"
         /\ IsLeaf(n) => Tip(n, d, L)
         /\ ~IsLeaf(n) <=> IsInner(n)
         /\ IsInner(n) => Fork(n, d, L) /\ Branches(n, d, L)
         /\ \A l \in L : l.key \in Key /\ d <= Len(l.key)
         /\ \A l, m \in L : \A i \in 1 .. d : l.key[i] = m.key[i]
<1>1. d \in Nat /\ (Tip(n, d, L) \/ (Fork(n, d, L) /\ Branches(n, d, L)))
  BY Unfold
<1>2. CASE Tip(n, d, L)
  <2>1. L = {n} /\ n = Leaf(n.key, n.value) /\ n.key \in Key /\ d <= Len(n.key)
    BY <1>2 DEF Tip
  <2>2. n.kind = "leaf"
    BY <2>1 DEF Leaf
  <2>3. Nil.kind = "null"
    BY DEF Nil
  <2>4. n # Nil /\ IsLeaf(n) /\ ~IsInner(n)
    BY <2>2, <2>3 DEF IsLeaf, IsInner
  <2> QED
    BY <1>1, <1>2, <2>1, <2>2, <2>4
<1>3. CASE Fork(n, d, L) /\ Branches(n, d, L)
  <2>1. n.kind \in Kind /\ n.plen \in Nat
    BY <1>3 DEF Fork, Shape, Record
  <2>2. Nil.kind = "null"
    BY DEF Nil
  <2>3. n # Nil /\ ~IsLeaf(n) /\ IsInner(n) /\ n.kind # "null"
    BY <2>1, <2>2 DEF IsLeaf, IsInner, Kind
  <2>4. \A l \in L : l.key \in Key /\ d + n.plen < Len(l.key)
    BY <1>3 DEF Fork
  <2>5. \A l \in L : Len(l.key) \in Nat
    BY <2>4, KeyFacts
  <2>6. \A l \in L : d <= Len(l.key)
    BY <1>1, <2>1, <2>4, <2>5
  <2>7. \A i \in 1 .. d : i \in 1 .. d + n.plen
    BY <1>1, <2>1
  <2>8. \A l, m \in L : \A i \in 1 .. d : l.key[i] = m.key[i]
    BY <1>3, <2>7 DEF Fork
  <2>9. L # {}
    BY <1>3 DEF Fork
  <2> QED
    BY <1>1, <1>3, <2>3, <2>4, <2>6, <2>8, <2>9
<1> QED
  BY <1>1, <1>2, <1>3

(* The child in a slot that find_child finds.                              *)
LEMMA GoodChild ==
  ASSUME NEW n, NEW d, NEW L, Good(n, d, L), IsInner(n), NEW c \in Byte, NEW s \in FindChild(n, c)
  PROVE  /\ FindChild(n, c) = {s} /\ Min(FindChild(n, c)) = s
         /\ Child(n, c) = n.children[s] /\ n.children[s] # Nil
         /\ Good(n.children[s], d + n.plen + 1, Share(L, c, d + n.plen + 1))
<1>1. Fork(n, d, L) /\ Branches(n, d, L)
  BY TreeFacts
<1>2. Indexed(n)
  BY <1>1, ShapeIndexed DEF Fork
<1>3. FindChild(n, c) = {s} /\ s \in Used(n) /\ Child(n, c) = n.children[s] /\ n.children[s] # Nil
  BY <1>2 DEF Indexed
<1>4. s \in Nat
  BY <1>2, <1>3 DEF Indexed
<1>5. Min(FindChild(n, c)) = s
  BY <1>3, <1>4, MinOne
<1>6. Good(Child(n, c), d + n.plen + 1, Share(L, c, d + n.plen + 1))
  BY <1>1, <1>3 DEF Branches
<1> QED
  BY <1>3, <1>5, <1>6

(* A byte has a child if and only if a key below goes on with it.          *)
LEMMA ChildOf ==
  ASSUME NEW n, NEW d, NEW L, Good(n, d, L), IsInner(n), NEW c \in Byte
  PROVE  /\ Child(n, c) # Nil <=> Share(L, c, d + n.plen + 1) # {}
         /\ Child(n, c) # Nil <=> FindChild(n, c) # {}
         /\ Child(n, c) # Nil => Good(Child(n, c), d + n.plen + 1, Share(L, c, d + n.plen + 1))
<1>1. Fork(n, d, L) /\ Branches(n, d, L)
  BY TreeFacts
<1>2. Indexed(n)
  BY <1>1, ShapeIndexed DEF Fork
<1>3. FindChild(n, c) # {} => Child(n, c) # Nil
  BY <1>2 DEF Indexed
<1>4. FindChild(n, c) = {} => Child(n, c) = Nil
  BY DEF Child
<1>5. Share(L, c, d + n.plen + 1) = {} => Child(n, c) = Nil
  BY <1>1 DEF Branches
<1>6. Share(L, c, d + n.plen + 1) # {} => Good(Child(n, c), d + n.plen + 1, Share(L, c, d + n.plen + 1))
  BY <1>1 DEF Branches
<1>7. Share(L, c, d + n.plen + 1) # {} => Child(n, c) # Nil
  BY <1>6, TreeFacts
<1> QED
  BY <1>3, <1>4, <1>5, <1>6, <1>7

(* The loop of minimum.                                                     *)
LEMMA MinimumIs ==
  ASSUME NEW n
  PROVE  \E f : /\ DOMAIN f = Steps /\ f[0] = n
                /\ \A i \in Steps : i < MaxLen => f[i + 1] = Lower(f[i])
                /\ Minimum(n) = f[MaxLen]
<1> DEFINE G(x) == Lower(x)
           A == n
           Runs(m, f) == f = [i \in 0 .. m |-> IF i = 0 THEN A ELSE G(f[i - 1])]
           D == {m \in 0 .. MaxLen : \E f : Runs(m, f)}
<1>1. MaxLen \in Nat
  BY Sizes
<1>2. Minimum(n) = (CHOOSE f : Runs(MaxLen, f))[MaxLen]
  BY Zenon DEF Minimum, Steps
<1> HIDE DEF G, A
<1>3. 0 \in D
  <2>1. PICK f : f = [i \in 0 .. 0 |-> A]
    OBVIOUS
  <2>2. \A i \in 0 .. 0 : i = 0
    OBVIOUS
  <2>3. Runs(0, f)
    BY <2>1, <2>2
  <2> QED
    BY <1>1, <2>3
<1>4. ASSUME NEW m \in D, m < MaxLen PROVE m + 1 \in D
  <2>1. PICK f : Runs(m, f)
    OBVIOUS
  <2>2. m + 1 \in 0 .. MaxLen /\ m \in Nat
    BY <1>1, <1>4
  <2>3. PICK x : x = G(f[m])
    OBVIOUS
  <2>4. PICK g : g = [i \in 0 .. m + 1 |-> IF i = m + 1 THEN x ELSE f[i]]
    OBVIOUS
  <2>5. ASSUME NEW i \in 0 .. m + 1
        PROVE  g[i] = IF i = 0 THEN A ELSE G(g[i - 1])
    <3>1. CASE i = m + 1
      <4>1. g[i] = x /\ i # 0 /\ i - 1 = m /\ i - 1 \in 0 .. m + 1 /\ i - 1 # m + 1
        BY <2>2, <2>4, <3>1
      <4>2. g[i - 1] = f[m]
        BY <2>4, <4>1
      <4> QED
        BY <2>3, <3>1, <4>1, <4>2
    <3>2. CASE i = 0
      <4>1. i \in 0 .. m /\ i # m + 1
        BY <2>2, <3>2
      <4> QED
        BY <2>1, <2>4, <3>2, <4>1
    <3>3. CASE i # m + 1 /\ i # 0
      <4>1. i \in 0 .. m /\ i - 1 \in 0 .. m + 1 /\ i - 1 # m + 1
        BY <2>2, <3>3
      <4>2. f[i] = G(f[i - 1])
        BY <2>1, <3>3, <4>1
      <4>3. g[i] = f[i] /\ g[i - 1] = f[i - 1]
        BY <2>4, <3>3, <4>1
      <4> QED
        BY <3>3, <4>2, <4>3
    <3> QED
      BY <3>1, <3>2, <3>3
  <2>6. Runs(m + 1, g)
    BY <2>4, <2>5
  <2> HIDE DEF Runs
  <2> QED
    BY <2>2, <2>6
<1>5. D = 0 .. MaxLen
  <2>1. D \in SUBSET (0 .. MaxLen)
    OBVIOUS
  <2> HIDE DEF D
  <2> QED
    BY <1>1, <1>3, <1>4, <2>1, Induction
<1>6. \E f : Runs(MaxLen, f)
  <2>1. MaxLen \in D
    <3> HIDE DEF D
    <3> QED
      BY <1>1, <1>5
  <2> HIDE DEF Runs
  <2> QED
    BY <2>1
<1>7. PICK s : s = CHOOSE f : Runs(MaxLen, f)
  OBVIOUS
<1>8. Runs(MaxLen, s)
  <2> HIDE DEF Runs
  <2> QED
    BY <1>6, <1>7, Zenon
<1>9. s[0] = A /\ DOMAIN s = Steps
  BY <1>1, <1>8 DEF Steps
<1>10. ASSUME NEW i \in Steps, i < MaxLen PROVE s[i + 1] = G(s[i])
  <2>1. i + 1 \in 0 .. MaxLen /\ i + 1 # 0 /\ (i + 1) - 1 = i
    BY <1>1, <1>10 DEF Steps
  <2> QED
    BY <1>8, <2>1
<1>11. Minimum(n) = s[MaxLen]
  BY <1>2, <1>7
<1>12. \A i \in Steps : i < MaxLen => s[i + 1] = G(s[i])
  BY <1>10
<1> QED
  BY <1>9, <1>11, <1>12, Zenon DEF G, A

(* The slots in use, as minimum and recursive_iter go through them.        *)
LEMMA SlotsAre ==
  ASSUME NEW n, Shape(n)
  PROVE  Slots(n) \in Seq(Used(n)) /\ Len(Slots(n)) = Count(n)
<1>1. Indexed(n) /\ n.kind \in Kind
  BY ShapeIndexed DEF Shape, Record
<1>2. CASE n.kind = "node48"
  <2>1. Mapped(n)
    BY <1>2 DEF Shape
  <2>2. PICK U : U = {c \in Byte : n.keys[c] # 0}
    OBVIOUS
  <2>3. IsFiniteSet(U) /\ Cardinality(U) = Count(n)
    BY <1>2, <2>1, <2>2, MappedCount
  <2>4. U \in SUBSET Nat
    BY <2>2, BytesFinite
  <2>5. PICK s : s = Ascending(U)
    OBVIOUS
  <2>6. Lists(s, U)
    BY <2>3, <2>4, <2>5, AscendingLists
  <2>7. PICK t : t = [i \in DOMAIN s |-> n.keys[s[i]]]
    OBVIOUS
  <2>8. Slots(n) = t
    BY <1>2, <2>2, <2>5, <2>7 DEF Slots
  <2>9. Cardinality(U) \in Nat /\ s \in [1 .. Cardinality(U) -> U]
    BY <2>6 DEF Lists
  <2>10. \A c \in U : n.keys[c] \in Used(n)
    BY <1>2, <2>2 DEF Used
  <2>11. t \in [1 .. Cardinality(U) -> Used(n)]
    BY <2>7, <2>9, <2>10
  <2> QED
    BY <2>3, <2>8, <2>9, <2>11
<1>3. CASE n.kind # "node48"
  <2>1. Used(n) \in SUBSET Nat /\ IsFiniteSet(Used(n))
    BY <1>1 DEF Indexed
  <2>2. Slots(n) = Ascending(Used(n))
    BY <1>3 DEF Slots
  <2>3. Lists(Slots(n), Used(n))
    BY <2>1, <2>2, AscendingLists
  <2>4. Cardinality(Used(n)) \in Nat /\ Slots(n) \in [1 .. Cardinality(Used(n)) -> Used(n)]
    BY <2>3 DEF Lists
  <2> QED
    BY <2>4 DEF Count
<1> QED
  BY <1>2, <1>3

(* The child in which minimum goes on.                                     *)
LEMMA LowerIn ==
  ASSUME NEW n, NEW d, NEW L, Good(n, d, L), IsInner(n)
  PROVE  \E M : M \subseteq L /\ Good(Lower(n), d + n.plen + 1, M)
<1>1. Fork(n, d, L)
  BY TreeFacts
<1>2. Shape(n) /\ Fit(n) /\ n.kind \in Kind
  BY <1>1 DEF Fork, Shape, Record
<1>3. Indexed(n) /\ Slots(n) \in Seq(Used(n)) /\ Len(Slots(n)) = Count(n)
  BY <1>2, ShapeIndexed, SlotsAre
<1>4. Count(n) \in Nat /\ 0 < Count(n)
  BY <1>2, <1>3, Sizes DEF Fit, Kind, Indexed
<1>5. PICK s : s = Head(Slots(n))
  OBVIOUS
<1>6. s \in Used(n)
  BY <1>3, <1>4, <1>5
<1>7. PICK c \in Byte : s \in FindChild(n, c)
  BY <1>3, <1>6 DEF Indexed
<1>8. Good(n.children[s], d + n.plen + 1, Share(L, c, d + n.plen + 1))
  BY <1>7, GoodChild
<1>9. Lower(n) = n.children[s]
  BY <1>5 DEF Lower
<1>10. Share(L, c, d + n.plen + 1) \subseteq L
  BY DEF Share
<1> QED
  BY <1>8, <1>9, <1>10

(* minimum ends at a leaf.                                                 *)
LEMMA MinimumIn ==
  ASSUME NEW n, NEW d, NEW L, Good(n, d, L)
  PROVE  Minimum(n) \in L
<1>1. PICK f : /\ DOMAIN f = Steps /\ f[0] = n
               /\ \A i \in Steps : i < MaxLen => f[i + 1] = Lower(f[i])
               /\ Minimum(n) = f[MaxLen]
  BY MinimumIs
<1>2. MaxLen \in Nat
  BY Sizes
<1> DEFINE P(i) == \E e, M : M \subseteq L /\ Good(f[i], e, M) /\ (IsLeaf(f[i]) \/ i <= e)
           T == {i \in 0 .. MaxLen : P(i)}
<1>3. P(0)
  BY <1>1, TreeFacts
<1>4. ASSUME NEW i \in 0 .. MaxLen, i < MaxLen, P(i) PROVE P(i + 1)
  <2>1. PICK e, M : M \subseteq L /\ Good(f[i], e, M) /\ (IsLeaf(f[i]) \/ i <= e)
    BY <1>4
  <2>2. f[i + 1] = Lower(f[i])
    BY <1>1, <1>4 DEF Steps
  <2>3. CASE IsLeaf(f[i])
    <3>1. ~IsInner(f[i])
      BY <2>1, <2>3, TreeFacts
    <3>2. f[i + 1] = f[i]
      BY <2>2, <3>1 DEF Lower
    <3> QED
      BY <2>1, <2>3, <3>2
  <2>4. CASE ~IsLeaf(f[i])
    <3>1. IsInner(f[i]) /\ e \in Nat
      BY <2>1, <2>4, TreeFacts
    <3>2. PICK K : K \subseteq M /\ Good(f[i + 1], e + f[i].plen + 1, K)
      BY <2>1, <2>2, <3>1, LowerIn
    <3>3. f[i].plen \in Nat
      BY <2>1, <3>1, TreeFacts DEF Fork
    <3>4. i + 1 <= e + f[i].plen + 1
      BY <1>4, <2>1, <2>4, <3>1, <3>3
    <3>5. K \subseteq L
      BY <2>1, <3>2
    <3> QED
      BY <3>2, <3>4, <3>5
  <2> QED
    BY <2>3, <2>4
<1>5. T = 0 .. MaxLen
  <2>1. T \in SUBSET (0 .. MaxLen)
    OBVIOUS
  <2>2. 0 \in T /\ \A i \in T : i < MaxLen => i + 1 \in T
    <3> HIDE DEF P
    <3>1. \A i \in 0 .. MaxLen : i < MaxLen => i + 1 \in 0 .. MaxLen
      BY <1>2
    <3> QED
      BY <1>2, <1>3, <1>4, <3>1
  <2> HIDE DEF T
  <2> QED
    BY <1>2, <2>1, <2>2, Induction
<1>6. P(MaxLen)
  <2>1. MaxLen \in T
    <3> HIDE DEF T
    <3> QED
      BY <1>2, <1>5
  <2> HIDE DEF P
  <2> QED
    BY <2>1
<1>7. PICK e, M : M \subseteq L /\ Good(f[MaxLen], e, M) /\ (IsLeaf(f[MaxLen]) \/ MaxLen <= e)
  BY <1>6
<1>8. IsLeaf(f[MaxLen])
  <2> SUFFICES ASSUME ~IsLeaf(f[MaxLen]) PROVE FALSE
    OBVIOUS
  <2>1. e \in Nat /\ Fork(f[MaxLen], e, M) /\ M # {}
    BY <1>7, TreeFacts
  <2>2. PICK l \in M : l.key \in Key /\ e + f[MaxLen].plen < Len(l.key)
    BY <2>1 DEF Fork
  <2>3. f[MaxLen].plen \in Nat
    BY <2>1 DEF Fork
  <2>4. Len(l.key) <= MaxLen /\ Len(l.key) \in Nat
    BY <2>2, KeyFacts
  <2> QED
    BY <1>2, <1>7, <2>1, <2>2, <2>3, <2>4
<1>9. M = {f[MaxLen]}
  BY <1>7, <1>8, TreeFacts DEF Tip
<1> QED
  BY <1>1, <1>7, <1>9

-----------------------------------------------------------------------------
(* Ways down a tree.                                                       *)

(* The byte of key k that decides below a place.                           *)
Ahead(x, k, junk) == KeyAt(k, x.depth + x.ref.plen, junk)

(* Place y, with the leaves M, is the next one below place x, with the     *)
(* leaves K, for key k.                                                    *)
Chained(x, K, y, M, k, junk) ==
  /\ IsInner(x.ref)
  /\ y.slot \in FindChild(x.ref, Ahead(x, k, junk))
  /\ y.ref = x.ref.children[y.slot]
  /\ y.depth = x.depth + x.ref.plen + 1
  /\ M = Share(K, Ahead(x, k, junk), y.depth)

(* A way from tree n, and the leaves below each of its places.             *)
Chain(w, S, n, L, k, junk) ==
  /\ \E T : w \in Seq(T)
  /\ 1 <= Len(w) /\ w[1] = Top(n) /\ S[1] = L
  /\ \A j \in 1 .. Len(w) : Good(w[j].ref, w[j].depth, S[j])
  /\ \A j \in 1 .. Len(w) - 1 : Chained(w[j], S[j], w[j + 1], S[j + 1], k, junk)

(* A byte of the key, or what comes after it, is a byte.                   *)
LEMMA KeyAtByte ==
  ASSUME NEW k \in Seq(Byte), NEW i \in Nat, NEW junk \in Byte
  PROVE  KeyAt(k, i, junk) \in Byte
<1>1. 0 \in Byte
  BY Sizes
<1>2. Len(k) \in Nat
  OBVIOUS
<1>3. CASE i < Len(k)
  <2>1. i + 1 \in 1 .. Len(k)
    BY <1>2, <1>3
  <2>2. k[i + 1] \in Byte
    BY <2>1
  <2> QED
    BY <1>3, <2>2 DEF KeyAt
<1>4. CASE i = Len(k)
  BY <1>1, <1>2, <1>4 DEF KeyAt
<1>5. CASE i > Len(k)
  <2>1. ~(i < Len(k)) /\ i # Len(k)
    BY <1>2, <1>5
  <2> QED
    BY <2>1 DEF KeyAt
<1> QED
  BY <1>2, <1>3, <1>4, <1>5

(* A way that has only begun.                                              *)
LEMMA ChainTop ==
  ASSUME NEW n, NEW L, Good(n, 0, L), NEW k, NEW junk
  PROVE  \E S : Chain(<<Top(n)>>, S, n, L, k, junk)
<1>1. PICK w, S : w = <<Top(n)>> /\ S = [j \in 1 .. 1 |-> L]
  OBVIOUS
<1>2. w \in Seq({Top(n)}) /\ Len(w) = 1 /\ w[1] = Top(n)
  BY <1>1
<1>3. Top(n).ref = n /\ Top(n).depth = 0
  BY DEF Top
<1>4. \A j \in 1 .. 1 : j = 1
  OBVIOUS
<1>5. \A j \in 1 .. 1 - 1 : FALSE
  OBVIOUS
<1>6. S[1] = L
  BY <1>1
<1>7. Chain(w, S, n, L, k, junk)
  BY <1>2, <1>3, <1>4, <1>5, <1>6 DEF Chain
<1> QED
  BY <1>1, <1>7

(* A way that goes on.                                                     *)
Goes(w, v) ==
  /\ Len(v) = Len(w) + 1 /\ \A j \in 1 .. Len(w) : v[j] = w[j]
  /\ Last(w).depth + 1 <= Last(v).depth

(* Going to the child of the next byte makes a way longer, and deeper.     *)
LEMMA ChainLonger ==
  ASSUME NEW n, NEW L, NEW k \in Seq(Byte), NEW junk \in Byte,
         NEW w, NEW S, Chain(w, S, n, L, k, junk),
         IsInner(Last(w).ref), FindChild(Last(w).ref, Ahead(Last(w), k, junk)) # {},
         NEW v, v = Longer(w, FindChild(Last(w).ref, Ahead(Last(w), k, junk)))
  PROVE  (\E R : Chain(v, R, n, L, k, junk)) /\ Goes(w, v)
<1>1. PICK T : w \in Seq(T)
  BY DEF Chain
<1>2. PICK m \in Nat : m = Len(w) /\ 1 <= m
  BY <1>1 DEF Chain
<1>3. PICK x : x = Last(w)
  OBVIOUS
<1>4. x = w[m]
  BY <1>2, <1>3 DEF Last
<1>5. Good(x.ref, x.depth, S[m]) /\ IsInner(x.ref)
  <2>1. m \in 1 .. Len(w)
    BY <1>2
  <2> QED
    BY <1>3, <1>4, <2>1 DEF Chain
<1>6. x.depth \in Nat /\ x.ref.plen \in Nat
  BY <1>5, TreeFacts DEF Fork
<1>7. PICK c : c = Ahead(x, k, junk)
  OBVIOUS
<1>8. c \in Byte
  BY <1>6, <1>7, KeyAtByte DEF Ahead
<1>9. PICK s : s \in FindChild(x.ref, c)
  BY <1>3, <1>7
<1>10. /\ FindChild(x.ref, c) = {s} /\ Min(FindChild(x.ref, c)) = s
       /\ Good(x.ref.children[s], x.depth + x.ref.plen + 1, Share(S[m], c, x.depth + x.ref.plen + 1))
  BY <1>5, <1>8, <1>9, GoodChild
<1>11. PICK y : y = Below(x, s)
  OBVIOUS
<1>12. y.ref = x.ref.children[s] /\ y.depth = x.depth + x.ref.plen + 1 /\ y.slot = s
  BY <1>11 DEF Below
<1>13. v = Append(w, y)
  BY <1>3, <1>7, <1>9, <1>10, <1>11 DEF Longer
<1>14. PICK R : R = [j \in 1 .. m + 1 |-> IF j = m + 1 THEN Share(S[m], c, x.depth + x.ref.plen + 1) ELSE S[j]]
  OBVIOUS
<1>15. /\ v \in Seq(T \cup {y}) /\ Len(v) = m + 1 /\ v[m + 1] = y
       /\ \A j \in 1 .. m : v[j] = w[j]
  <2>1. w \in Seq(T \cup {y}) /\ y \in T \cup {y}
    BY <1>1
  <2> QED
    BY <1>2, <1>13, <2>1
<1>16. /\ R[m + 1] = Share(S[m], c, y.depth)
       /\ \A j \in 1 .. m : R[j] = S[j]
  BY <1>2, <1>12, <1>14
<1>17. Last(v) = y
  BY <1>15 DEF Last
<1>18. Chain(v, R, n, L, k, junk)
  <2>1. 1 \in 1 .. m /\ \A j \in 1 .. m + 1 : j \in 1 .. m \/ j = m + 1
    BY <1>2
  <2>2. v[1] = Top(n) /\ R[1] = L
    BY <1>15, <1>16, <2>1 DEF Chain
  <2>3. \A j \in 1 .. m + 1 : Good(v[j].ref, v[j].depth, R[j])
    BY <1>2, <1>10, <1>12, <1>15, <1>16, <2>1 DEF Chain
  <2>4. Chained(x, S[m], y, R[m + 1], k, junk)
    BY <1>5, <1>7, <1>9, <1>12, <1>16 DEF Chained
  <2>5. ASSUME NEW j \in 1 .. (m + 1) - 1 PROVE Chained(v[j], R[j], v[j + 1], R[j + 1], k, junk)
    <3>1. CASE j = m
      <4>1. m \in 1 .. m
        BY <1>2
      <4> QED
        BY <1>4, <1>15, <1>16, <2>4, <3>1, <4>1
    <3>2. CASE j # m
      <4>1. j \in 1 .. m /\ j + 1 \in 1 .. m /\ j \in 1 .. Len(w) - 1
        BY <1>2, <2>5, <3>2
      <4> QED
        BY <1>15, <1>16, <4>1 DEF Chain
    <3> QED
      BY <3>1, <3>2
  <2>6. 1 <= Len(v) /\ Len(v) = m + 1
    BY <1>2, <1>15
  <2> QED
    BY <1>15, <2>2, <2>3, <2>5, <2>6 DEF Chain
<1> QED
  BY <1>2, <1>3, <1>6, <1>12, <1>15, <1>17, <1>18 DEF Goes

(* The end of a way is a tree.                                             *)
LEMMA ChainEnd ==
  ASSUME NEW n, NEW L, NEW k, NEW junk, NEW w, NEW S, Chain(w, S, n, L, k, junk)
  PROVE  /\ Len(w) \in Nat /\ 1 <= Len(w) /\ Last(w) = w[Len(w)]
         /\ Good(Last(w).ref, Last(w).depth, S[Len(w)])
<1>1. PICK T : w \in Seq(T)
  BY DEF Chain
<1>2. Len(w) \in Nat /\ 1 <= Len(w)
  BY <1>1 DEF Chain
<1>3. Len(w) \in 1 .. Len(w) /\ Last(w) = w[Len(w)]
  BY <1>2 DEF Last
<1> QED
  BY <1>2, <1>3 DEF Chain

(* A way goes on below the places of which find_child finds a slot.        *)
Went(w, way, f) ==
  \A j \in 1 .. Len(w) - 1 : \E i \in Steps : w[j] = Last(way[i]) /\ f[i] # {}

(* A loop down tree n for key k: it goes on in slots f.                    *)
Walks(way, f, n, k, junk) ==
  /\ way[0] = <<Top(n)>>
  /\ \A i \in Steps : i < MaxLen => way[i + 1] = Longer(way[i], f[i])
  /\ \A i \in Steps : f[i] # {} =>
       /\ IsInner(Last(way[i]).ref)
       /\ f[i] = FindChild(Last(way[i]).ref, Ahead(Last(way[i]), k, junk))
  /\ \A i, j \in Steps : way[i] = way[j] => f[i] = f[j]

(* It makes a way and comes to its end, as each step goes at least one     *)
(* byte deeper.                                                            *)
LEMMA Walk ==
  ASSUME NEW n, NEW L, Good(n, 0, L), NEW k \in Seq(Byte), NEW junk \in Byte, NEW way, NEW f,
         Walks(way, f, n, k, junk)
  PROVE  /\ f[MaxLen] = {}
         /\ \E S : Chain(way[MaxLen], S, n, L, k, junk)
         /\ Went(way[MaxLen], way, f)
<1>1. MaxLen \in Nat /\ Steps = 0 .. MaxLen
  BY Sizes DEF Steps
<1> DEFINE P(i) == /\ \E S : Chain(way[i], S, n, L, k, junk)
                   /\ Went(way[i], way, f)
                   /\ f[i] = {} \/ i <= Last(way[i]).depth
           T == {i \in 0 .. MaxLen : P(i)}
<1>2. P(0)
  <2>1. \E S : Chain(way[0], S, n, L, k, junk)
    BY ChainTop DEF Walks
  <2>2. Len(way[0]) = 1 /\ way[0][1] = Top(n)
    BY DEF Walks
  <2>3. Last(way[0]) = Top(n)
    BY <2>2 DEF Last
  <2>4. 0 <= Last(way[0]).depth
    BY <2>3 DEF Top
  <2>5. \A j \in 1 .. 1 - 1 : FALSE
    OBVIOUS
  <2>6. Went(way[0], way, f)
    BY <2>2, <2>5 DEF Went
  <2> QED
    BY <2>1, <2>4, <2>6
<1>3. ASSUME NEW i \in 0 .. MaxLen, i < MaxLen, P(i) PROVE P(i + 1)
  <2>1. i \in Steps /\ i + 1 \in Steps /\ i \in Nat
    BY <1>1, <1>3
  <2>2. way[i + 1] = Longer(way[i], f[i])
    BY <1>3, <2>1 DEF Walks
  <2>3. CASE f[i] = {}
    <3>1. way[i + 1] = way[i]
      BY <2>2, <2>3 DEF Longer
    <3>2. f[i + 1] = f[i]
      BY <2>1, <3>1 DEF Walks
    <3> QED
      BY <1>3, <2>3, <3>1, <3>2
  <2>4. CASE f[i] # {}
    <3>1. /\ IsInner(Last(way[i]).ref)
          /\ f[i] = FindChild(Last(way[i]).ref, Ahead(Last(way[i]), k, junk))
      BY <2>1, <2>4 DEF Walks
    <3>2. PICK S : Chain(way[i], S, n, L, k, junk)
      BY <1>3
    <3>3. /\ \E R : Chain(way[i + 1], R, n, L, k, junk)
          /\ Len(way[i + 1]) = Len(way[i]) + 1 /\ \A j \in 1 .. Len(way[i]) : way[i + 1][j] = way[i][j]
          /\ Last(way[i]).depth + 1 <= Last(way[i + 1]).depth
      <4>1. PICK w, v : w = way[i] /\ v = way[i + 1]
        OBVIOUS
      <4>2. /\ Chain(w, S, n, L, k, junk)
            /\ IsInner(Last(w).ref) /\ FindChild(Last(w).ref, Ahead(Last(w), k, junk)) # {}
            /\ v = Longer(w, FindChild(Last(w).ref, Ahead(Last(w), k, junk)))
        BY <2>2, <2>4, <3>1, <3>2, <4>1
      <4>3. (\E R : Chain(v, R, n, L, k, junk)) /\ Goes(w, v)
        BY <4>2, ChainLonger
      <4> QED
        BY <4>1, <4>3 DEF Goes
    <3>4. PICK R : Chain(way[i + 1], R, n, L, k, junk)
      BY <3>3
    <3>5. /\ Len(way[i]) \in Nat /\ 1 <= Len(way[i]) /\ Last(way[i]) = way[i][Len(way[i])]
          /\ Last(way[i]).depth \in Nat /\ Last(way[i + 1]).depth \in Nat
      BY <3>2, <3>4, ChainEnd, TreeFacts
    <3>6. i + 1 <= Last(way[i + 1]).depth
      BY <1>3, <2>1, <2>4, <3>3, <3>5
    <3>7. ASSUME NEW j \in 1 .. Len(way[i + 1]) - 1
          PROVE  \E m \in Steps : way[i + 1][j] = Last(way[m]) /\ f[m] # {}
      <4>1. j \in 1 .. Len(way[i]) /\ way[i + 1][j] = way[i][j]
        BY <3>3, <3>5, <3>7
      <4>2. CASE j = Len(way[i])
        BY <2>1, <2>4, <3>5, <4>1, <4>2
      <4>3. CASE j # Len(way[i])
        <5>1. j \in 1 .. Len(way[i]) - 1
          BY <3>5, <4>1, <4>3
        <5> QED
          BY <1>3, <4>1, <5>1 DEF Went
      <4> QED
        BY <4>2, <4>3
    <3>8. Went(way[i + 1], way, f)
      BY <3>7 DEF Went
    <3> QED
      BY <3>4, <3>6, <3>8
  <2> QED
    BY <2>3, <2>4
<1>4. T = 0 .. MaxLen
  <2>1. T \in SUBSET (0 .. MaxLen)
    OBVIOUS
  <2>2. 0 \in T /\ \A i \in T : i < MaxLen => i + 1 \in T
    <3> HIDE DEF P
    <3>1. \A i \in 0 .. MaxLen : i < MaxLen => i + 1 \in 0 .. MaxLen
      BY <1>1
    <3> QED
      BY <1>1, <1>2, <1>3, <3>1
  <2> HIDE DEF T
  <2> QED
    BY <1>1, <2>1, <2>2, Induction
<1>5. P(MaxLen) /\ MaxLen \in Steps
  <2>1. MaxLen \in T
    <3> HIDE DEF T
    <3> QED
      BY <1>1, <1>4
  <2> HIDE DEF P
  <2> QED
    BY <1>1, <2>1
<1>6. PICK S : Chain(way[MaxLen], S, n, L, k, junk)
  BY <1>5
<1>7. PICK x, K : x = Last(way[MaxLen]) /\ K = S[Len(way[MaxLen])]
  OBVIOUS
<1>8. Good(x.ref, x.depth, K)
  BY <1>6, <1>7, ChainEnd
<1>9. f[MaxLen] = {}
  <2> SUFFICES ASSUME f[MaxLen] # {} PROVE FALSE
    OBVIOUS
  <2>1. IsInner(x.ref) /\ MaxLen <= x.depth
    BY <1>5, <1>7 DEF Walks
  <2>2. x.depth \in Nat /\ Fork(x.ref, x.depth, K) /\ K # {}
    BY <1>8, <2>1, TreeFacts
  <2>3. PICK l \in K : l.key \in Key /\ x.depth + x.ref.plen < Len(l.key)
    BY <2>2 DEF Fork
  <2>4. x.ref.plen \in Nat
    BY <2>2 DEF Fork
  <2>5. Len(l.key) <= MaxLen /\ Len(l.key) \in Nat
    BY <2>3, KeyFacts
  <2> QED
    BY <1>1, <2>1, <2>2, <2>3, <2>4, <2>5
<1> QED
  BY <1>5, <1>9

(* The loop of art_search.                                                 *)
SearchRun(f, n, k, junk) ==
  /\ DOMAIN f = Steps /\ f[0] = <<Top(n)>>
  /\ \A i \in Steps : i < MaxLen => f[i + 1] = Longer(f[i], SearchSlot(Last(f[i]), k, junk))
  /\ SearchWay(n, k, junk) = f[MaxLen]

(* SearchWay is what that loop ends with.                                  *)
LEMMA SearchWayIs ==
  ASSUME NEW n, NEW k, NEW junk
  PROVE  \E f : SearchRun(f, n, k, junk)
<1> DEFINE G(x) == Longer(x, SearchSlot(Last(x), k, junk))
           A == <<Top(n)>>
           Runs(m, f) == f = [i \in 0 .. m |-> IF i = 0 THEN A ELSE G(f[i - 1])]
           D == {m \in 0 .. MaxLen : \E f : Runs(m, f)}
<1>1. MaxLen \in Nat
  BY Sizes
<1>2. SearchWay(n, k, junk) = (CHOOSE f : Runs(MaxLen, f))[MaxLen]
  BY Zenon DEF SearchWay, Steps
<1> HIDE DEF G, A
<1>3. 0 \in D
  <2>1. PICK f : f = [i \in 0 .. 0 |-> A]
    OBVIOUS
  <2>2. \A i \in 0 .. 0 : i = 0
    OBVIOUS
  <2>3. Runs(0, f)
    BY <2>1, <2>2
  <2> QED
    BY <1>1, <2>3
<1>4. ASSUME NEW m \in D, m < MaxLen PROVE m + 1 \in D
  <2>1. PICK f : Runs(m, f)
    OBVIOUS
  <2>2. m + 1 \in 0 .. MaxLen /\ m \in Nat
    BY <1>1, <1>4
  <2>3. PICK x : x = G(f[m])
    OBVIOUS
  <2>4. PICK g : g = [i \in 0 .. m + 1 |-> IF i = m + 1 THEN x ELSE f[i]]
    OBVIOUS
  <2>5. ASSUME NEW i \in 0 .. m + 1
        PROVE  g[i] = IF i = 0 THEN A ELSE G(g[i - 1])
    <3>1. CASE i = m + 1
      <4>1. g[i] = x /\ i # 0 /\ i - 1 = m /\ i - 1 \in 0 .. m + 1 /\ i - 1 # m + 1
        BY <2>2, <2>4, <3>1
      <4>2. g[i - 1] = f[m]
        BY <2>4, <4>1
      <4> QED
        BY <2>3, <3>1, <4>1, <4>2
    <3>2. CASE i = 0
      <4>1. i \in 0 .. m /\ i # m + 1
        BY <2>2, <3>2
      <4> QED
        BY <2>1, <2>4, <3>2, <4>1
    <3>3. CASE i # m + 1 /\ i # 0
      <4>1. i \in 0 .. m /\ i - 1 \in 0 .. m + 1 /\ i - 1 # m + 1
        BY <2>2, <3>3
      <4>2. f[i] = G(f[i - 1])
        BY <2>1, <3>3, <4>1
      <4>3. g[i] = f[i] /\ g[i - 1] = f[i - 1]
        BY <2>4, <3>3, <4>1
      <4> QED
        BY <3>3, <4>2, <4>3
    <3> QED
      BY <3>1, <3>2, <3>3
  <2>6. Runs(m + 1, g)
    BY <2>4, <2>5
  <2> HIDE DEF Runs
  <2> QED
    BY <2>2, <2>6
<1>5. D = 0 .. MaxLen
  <2>1. D \in SUBSET (0 .. MaxLen)
    OBVIOUS
  <2> HIDE DEF D
  <2> QED
    BY <1>1, <1>3, <1>4, <2>1, Induction
<1>6. \E f : Runs(MaxLen, f)
  <2>1. MaxLen \in D
    <3> HIDE DEF D
    <3> QED
      BY <1>1, <1>5
  <2> HIDE DEF Runs
  <2> QED
    BY <2>1
<1>7. PICK s : s = CHOOSE f : Runs(MaxLen, f)
  OBVIOUS
<1>8. Runs(MaxLen, s)
  <2> HIDE DEF Runs
  <2> QED
    BY <1>6, <1>7, Zenon
<1>9. s[0] = A /\ DOMAIN s = Steps
  BY <1>1, <1>8 DEF Steps
<1>10. ASSUME NEW i \in Steps, i < MaxLen PROVE s[i + 1] = G(s[i])
  <2>1. i + 1 \in 0 .. MaxLen /\ i + 1 # 0 /\ (i + 1) - 1 = i
    BY <1>1, <1>10 DEF Steps
  <2> QED
    BY <1>8, <2>1
<1>11. SearchWay(n, k, junk) = s[MaxLen]
  BY <1>2, <1>7
<1>12. \A i \in Steps : i < MaxLen => s[i + 1] = G(s[i])
  BY <1>10
<1> QED
  BY <1>9, <1>11, <1>12, Zenon DEF G, A, SearchRun

SearchEnds(w, n, L, k, junk) ==
  /\ \E S : Chain(w, S, n, L, k, junk)
  /\ SearchSlot(Last(w), k, junk) = {}
  /\ \A j \in 1 .. Len(w) - 1 : SearchSlot(w[j], k, junk) # {}

(* It makes a way.                                                         *)
LEMMA SearchWayOK ==
  ASSUME NEW n, NEW L, Good(n, 0, L), NEW k \in Seq(Byte), NEW junk \in Byte, NEW w, w = SearchWay(n, k, junk)
  PROVE  SearchEnds(w, n, L, k, junk)
<1>1. PICK way : SearchRun(way, n, k, junk)
  BY SearchWayIs
<1>2. PICK f : f = [i \in Steps |-> SearchSlot(Last(way[i]), k, junk)]
  OBVIOUS
<1>3. \A i \in Steps : f[i] = SearchSlot(Last(way[i]), k, junk)
  BY <1>2
<1>4. MaxLen \in Steps
  BY Sizes DEF Steps
<1>5. ASSUME NEW i \in Steps, f[i] # {}
      PROVE  /\ IsInner(Last(way[i]).ref)
             /\ f[i] = FindChild(Last(way[i]).ref, Ahead(Last(way[i]), k, junk))
  <2>1. /\ IsInner(Last(way[i]).ref)
        /\ SearchSlot(Last(way[i]), k, junk) = FindChild(Last(way[i]).ref, Ahead(Last(way[i]), k, junk))
    BY <1>3, <1>5 DEF SearchSlot, Ahead
  <2> QED
    BY <1>3, <2>1
<1>6. Walks(way, f, n, k, junk)
  <2>1. \A i \in Steps : i < MaxLen => way[i + 1] = Longer(way[i], f[i])
    BY <1>1, <1>3 DEF SearchRun
  <2>2. \A i, j \in Steps : way[i] = way[j] => f[i] = f[j]
    BY <1>3
  <2>3. way[0] = <<Top(n)>>
    BY <1>1 DEF SearchRun
  <2> QED
    BY <1>5, <2>1, <2>2, <2>3, Zenon DEF Walks
<1>7. f[MaxLen] = {} /\ (\E S : Chain(way[MaxLen], S, n, L, k, junk)) /\ Went(way[MaxLen], way, f)
  BY <1>6, Walk
<1>8. w = way[MaxLen]
  BY <1>1 DEF SearchRun
<1> QED
  BY <1>3, <1>4, <1>7, <1>8, Zenon DEF Went, SearchEnds

(* The loop of recursive_insert.                                           *)
InsertRun(f, n, k, junk) ==
  /\ DOMAIN f = Steps /\ f[0] = <<Top(n)>>
  /\ \A i \in Steps : i < MaxLen => f[i + 1] = Longer(f[i], InsertSlot(Last(f[i]), k, junk))
  /\ InsertWay(n, k, junk) = f[MaxLen]

(* InsertWay is what that loop ends with.                                  *)
LEMMA InsertWayIs ==
  ASSUME NEW n, NEW k, NEW junk
  PROVE  \E f : InsertRun(f, n, k, junk)
<1> DEFINE G(x) == Longer(x, InsertSlot(Last(x), k, junk))
           A == <<Top(n)>>
           Runs(m, f) == f = [i \in 0 .. m |-> IF i = 0 THEN A ELSE G(f[i - 1])]
           D == {m \in 0 .. MaxLen : \E f : Runs(m, f)}
<1>1. MaxLen \in Nat
  BY Sizes
<1>2. InsertWay(n, k, junk) = (CHOOSE f : Runs(MaxLen, f))[MaxLen]
  BY Zenon DEF InsertWay, Steps
<1> HIDE DEF G, A
<1>3. 0 \in D
  <2>1. PICK f : f = [i \in 0 .. 0 |-> A]
    OBVIOUS
  <2>2. \A i \in 0 .. 0 : i = 0
    OBVIOUS
  <2>3. Runs(0, f)
    BY <2>1, <2>2
  <2> QED
    BY <1>1, <2>3
<1>4. ASSUME NEW m \in D, m < MaxLen PROVE m + 1 \in D
  <2>1. PICK f : Runs(m, f)
    OBVIOUS
  <2>2. m + 1 \in 0 .. MaxLen /\ m \in Nat
    BY <1>1, <1>4
  <2>3. PICK x : x = G(f[m])
    OBVIOUS
  <2>4. PICK g : g = [i \in 0 .. m + 1 |-> IF i = m + 1 THEN x ELSE f[i]]
    OBVIOUS
  <2>5. ASSUME NEW i \in 0 .. m + 1
        PROVE  g[i] = IF i = 0 THEN A ELSE G(g[i - 1])
    <3>1. CASE i = m + 1
      <4>1. g[i] = x /\ i # 0 /\ i - 1 = m /\ i - 1 \in 0 .. m + 1 /\ i - 1 # m + 1
        BY <2>2, <2>4, <3>1
      <4>2. g[i - 1] = f[m]
        BY <2>4, <4>1
      <4> QED
        BY <2>3, <3>1, <4>1, <4>2
    <3>2. CASE i = 0
      <4>1. i \in 0 .. m /\ i # m + 1
        BY <2>2, <3>2
      <4> QED
        BY <2>1, <2>4, <3>2, <4>1
    <3>3. CASE i # m + 1 /\ i # 0
      <4>1. i \in 0 .. m /\ i - 1 \in 0 .. m + 1 /\ i - 1 # m + 1
        BY <2>2, <3>3
      <4>2. f[i] = G(f[i - 1])
        BY <2>1, <3>3, <4>1
      <4>3. g[i] = f[i] /\ g[i - 1] = f[i - 1]
        BY <2>4, <3>3, <4>1
      <4> QED
        BY <3>3, <4>2, <4>3
    <3> QED
      BY <3>1, <3>2, <3>3
  <2>6. Runs(m + 1, g)
    BY <2>4, <2>5
  <2> HIDE DEF Runs
  <2> QED
    BY <2>2, <2>6
<1>5. D = 0 .. MaxLen
  <2>1. D \in SUBSET (0 .. MaxLen)
    OBVIOUS
  <2> HIDE DEF D
  <2> QED
    BY <1>1, <1>3, <1>4, <2>1, Induction
<1>6. \E f : Runs(MaxLen, f)
  <2>1. MaxLen \in D
    <3> HIDE DEF D
    <3> QED
      BY <1>1, <1>5
  <2> HIDE DEF Runs
  <2> QED
    BY <2>1
<1>7. PICK s : s = CHOOSE f : Runs(MaxLen, f)
  OBVIOUS
<1>8. Runs(MaxLen, s)
  <2> HIDE DEF Runs
  <2> QED
    BY <1>6, <1>7, Zenon
<1>9. s[0] = A /\ DOMAIN s = Steps
  BY <1>1, <1>8 DEF Steps
<1>10. ASSUME NEW i \in Steps, i < MaxLen PROVE s[i + 1] = G(s[i])
  <2>1. i + 1 \in 0 .. MaxLen /\ i + 1 # 0 /\ (i + 1) - 1 = i
    BY <1>1, <1>10 DEF Steps
  <2> QED
    BY <1>8, <2>1
<1>11. InsertWay(n, k, junk) = s[MaxLen]
  BY <1>2, <1>7
<1>12. \A i \in Steps : i < MaxLen => s[i + 1] = G(s[i])
  BY <1>10
<1> QED
  BY <1>9, <1>11, <1>12, Zenon DEF G, A, InsertRun

InsertEnds(w, n, L, k, junk) ==
  /\ \E S : Chain(w, S, n, L, k, junk)
  /\ InsertSlot(Last(w), k, junk) = {}
  /\ \A j \in 1 .. Len(w) - 1 : InsertSlot(w[j], k, junk) # {}

(* It makes a way.                                                         *)
LEMMA InsertWayOK ==
  ASSUME NEW n, NEW L, Good(n, 0, L), NEW k \in Seq(Byte), NEW junk \in Byte, NEW w, w = InsertWay(n, k, junk)
  PROVE  InsertEnds(w, n, L, k, junk)
<1>1. PICK way : InsertRun(way, n, k, junk)
  BY InsertWayIs
<1>2. PICK f : f = [i \in Steps |-> InsertSlot(Last(way[i]), k, junk)]
  OBVIOUS
<1>3. \A i \in Steps : f[i] = InsertSlot(Last(way[i]), k, junk)
  BY <1>2
<1>4. MaxLen \in Steps
  BY Sizes DEF Steps
<1>5. ASSUME NEW i \in Steps, f[i] # {}
      PROVE  /\ IsInner(Last(way[i]).ref)
             /\ f[i] = FindChild(Last(way[i]).ref, Ahead(Last(way[i]), k, junk))
  <2>1. /\ IsInner(Last(way[i]).ref)
        /\ InsertSlot(Last(way[i]), k, junk) = FindChild(Last(way[i]).ref, Ahead(Last(way[i]), k, junk))
    BY <1>3, <1>5 DEF InsertSlot, Ahead
  <2> QED
    BY <1>3, <2>1
<1>6. Walks(way, f, n, k, junk)
  <2>1. \A i \in Steps : i < MaxLen => way[i + 1] = Longer(way[i], f[i])
    BY <1>1, <1>3 DEF InsertRun
  <2>2. \A i, j \in Steps : way[i] = way[j] => f[i] = f[j]
    BY <1>3
  <2>3. way[0] = <<Top(n)>>
    BY <1>1 DEF InsertRun
  <2> QED
    BY <1>5, <2>1, <2>2, <2>3, Zenon DEF Walks
<1>7. f[MaxLen] = {} /\ (\E S : Chain(way[MaxLen], S, n, L, k, junk)) /\ Went(way[MaxLen], way, f)
  BY <1>6, Walk
<1>8. w = way[MaxLen]
  BY <1>1 DEF InsertRun
<1> QED
  BY <1>3, <1>4, <1>7, <1>8, Zenon DEF Went, InsertEnds

(* The loop of recursive_delete.                                           *)
DeleteRun(f, n, k, junk) ==
  /\ DOMAIN f = Steps /\ f[0] = <<Top(n)>>
  /\ \A i \in Steps : i < MaxLen => f[i + 1] = Longer(f[i], DeleteSlot(Last(f[i]), k, junk))
  /\ DeleteWay(n, k, junk) = f[MaxLen]

(* DeleteWay is what that loop ends with.                                  *)
LEMMA DeleteWayIs ==
  ASSUME NEW n, NEW k, NEW junk
  PROVE  \E f : DeleteRun(f, n, k, junk)
<1> DEFINE G(x) == Longer(x, DeleteSlot(Last(x), k, junk))
           A == <<Top(n)>>
           Runs(m, f) == f = [i \in 0 .. m |-> IF i = 0 THEN A ELSE G(f[i - 1])]
           D == {m \in 0 .. MaxLen : \E f : Runs(m, f)}
<1>1. MaxLen \in Nat
  BY Sizes
<1>2. DeleteWay(n, k, junk) = (CHOOSE f : Runs(MaxLen, f))[MaxLen]
  BY Zenon DEF DeleteWay, Steps
<1> HIDE DEF G, A
<1>3. 0 \in D
  <2>1. PICK f : f = [i \in 0 .. 0 |-> A]
    OBVIOUS
  <2>2. \A i \in 0 .. 0 : i = 0
    OBVIOUS
  <2>3. Runs(0, f)
    BY <2>1, <2>2
  <2> QED
    BY <1>1, <2>3
<1>4. ASSUME NEW m \in D, m < MaxLen PROVE m + 1 \in D
  <2>1. PICK f : Runs(m, f)
    OBVIOUS
  <2>2. m + 1 \in 0 .. MaxLen /\ m \in Nat
    BY <1>1, <1>4
  <2>3. PICK x : x = G(f[m])
    OBVIOUS
  <2>4. PICK g : g = [i \in 0 .. m + 1 |-> IF i = m + 1 THEN x ELSE f[i]]
    OBVIOUS
  <2>5. ASSUME NEW i \in 0 .. m + 1
        PROVE  g[i] = IF i = 0 THEN A ELSE G(g[i - 1])
    <3>1. CASE i = m + 1
      <4>1. g[i] = x /\ i # 0 /\ i - 1 = m /\ i - 1 \in 0 .. m + 1 /\ i - 1 # m + 1
        BY <2>2, <2>4, <3>1
      <4>2. g[i - 1] = f[m]
        BY <2>4, <4>1
      <4> QED
        BY <2>3, <3>1, <4>1, <4>2
    <3>2. CASE i = 0
      <4>1. i \in 0 .. m /\ i # m + 1
        BY <2>2, <3>2
      <4> QED
        BY <2>1, <2>4, <3>2, <4>1
    <3>3. CASE i # m + 1 /\ i # 0
      <4>1. i \in 0 .. m /\ i - 1 \in 0 .. m + 1 /\ i - 1 # m + 1
        BY <2>2, <3>3
      <4>2. f[i] = G(f[i - 1])
        BY <2>1, <3>3, <4>1
      <4>3. g[i] = f[i] /\ g[i - 1] = f[i - 1]
        BY <2>4, <3>3, <4>1
      <4> QED
        BY <3>3, <4>2, <4>3
    <3> QED
      BY <3>1, <3>2, <3>3
  <2>6. Runs(m + 1, g)
    BY <2>4, <2>5
  <2> HIDE DEF Runs
  <2> QED
    BY <2>2, <2>6
<1>5. D = 0 .. MaxLen
  <2>1. D \in SUBSET (0 .. MaxLen)
    OBVIOUS
  <2> HIDE DEF D
  <2> QED
    BY <1>1, <1>3, <1>4, <2>1, Induction
<1>6. \E f : Runs(MaxLen, f)
  <2>1. MaxLen \in D
    <3> HIDE DEF D
    <3> QED
      BY <1>1, <1>5
  <2> HIDE DEF Runs
  <2> QED
    BY <2>1
<1>7. PICK s : s = CHOOSE f : Runs(MaxLen, f)
  OBVIOUS
<1>8. Runs(MaxLen, s)
  <2> HIDE DEF Runs
  <2> QED
    BY <1>6, <1>7, Zenon
<1>9. s[0] = A /\ DOMAIN s = Steps
  BY <1>1, <1>8 DEF Steps
<1>10. ASSUME NEW i \in Steps, i < MaxLen PROVE s[i + 1] = G(s[i])
  <2>1. i + 1 \in 0 .. MaxLen /\ i + 1 # 0 /\ (i + 1) - 1 = i
    BY <1>1, <1>10 DEF Steps
  <2> QED
    BY <1>8, <2>1
<1>11. DeleteWay(n, k, junk) = s[MaxLen]
  BY <1>2, <1>7
<1>12. \A i \in Steps : i < MaxLen => s[i + 1] = G(s[i])
  BY <1>10
<1> QED
  BY <1>9, <1>11, <1>12, Zenon DEF G, A, DeleteRun

DeleteEnds(w, n, L, k, junk) ==
  /\ \E S : Chain(w, S, n, L, k, junk)
  /\ DeleteSlot(Last(w), k, junk) = {}
  /\ \A j \in 1 .. Len(w) - 1 : DeleteSlot(w[j], k, junk) # {}

(* It makes a way.                                                         *)
LEMMA DeleteWayOK ==
  ASSUME NEW n, NEW L, Good(n, 0, L), NEW k \in Seq(Byte), NEW junk \in Byte, NEW w, w = DeleteWay(n, k, junk)
  PROVE  DeleteEnds(w, n, L, k, junk)
<1>1. PICK way : DeleteRun(way, n, k, junk)
  BY DeleteWayIs
<1>2. PICK f : f = [i \in Steps |-> DeleteSlot(Last(way[i]), k, junk)]
  OBVIOUS
<1>3. \A i \in Steps : f[i] = DeleteSlot(Last(way[i]), k, junk)
  BY <1>2
<1>4. MaxLen \in Steps
  BY Sizes DEF Steps
<1>5. ASSUME NEW i \in Steps, f[i] # {}
      PROVE  /\ IsInner(Last(way[i]).ref)
             /\ f[i] = FindChild(Last(way[i]).ref, Ahead(Last(way[i]), k, junk))
  <2>0. Nil.kind = "null"
    BY DEF Nil
  <2>1. /\ IsInner(Last(way[i]).ref)
        /\ DeleteSlot(Last(way[i]), k, junk) = FindChild(Last(way[i]).ref, Ahead(Last(way[i]), k, junk))
    <3>1. /\ IsInner(DeleteChild(Last(way[i]), k, junk))
          /\ DeleteSlot(Last(way[i]), k, junk) = FindChild(Last(way[i]).ref, Ahead(Last(way[i]), k, junk))
      BY <1>3, <1>5 DEF DeleteSlot, Ahead
    <3>2. DeleteChild(Last(way[i]), k, junk) # Nil
      BY <2>0, <3>1 DEF IsInner
    <3> QED
      BY <3>1, <3>2 DEF DeleteChild
  <2> QED
    BY <1>3, <2>1
<1>6. Walks(way, f, n, k, junk)
  <2>1. \A i \in Steps : i < MaxLen => way[i + 1] = Longer(way[i], f[i])
    BY <1>1, <1>3 DEF DeleteRun
  <2>2. \A i, j \in Steps : way[i] = way[j] => f[i] = f[j]
    BY <1>3
  <2>3. way[0] = <<Top(n)>>
    BY <1>1 DEF DeleteRun
  <2> QED
    BY <1>5, <2>1, <2>2, <2>3, Zenon DEF Walks
<1>7. f[MaxLen] = {} /\ (\E S : Chain(way[MaxLen], S, n, L, k, junk)) /\ Went(way[MaxLen], way, f)
  BY <1>6, Walk
<1>8. w = way[MaxLen]
  BY <1>1 DEF DeleteRun
<1> QED
  BY <1>3, <1>4, <1>7, <1>8, Zenon DEF Went, DeleteEnds

-----------------------------------------------------------------------------
(* art_search.                                                             *)

(* What comes of a number of steps along a way.                            *)
LEMMA ChainInduction ==
  ASSUME NEW m \in Nat, 1 <= m, NEW T \in SUBSET (1 .. m), 1 \in T, \A j \in T : j < m => j + 1 \in T
  PROVE  T = 1 .. m
<1> DEFINE U == {i \in 0 .. m - 1 : i + 1 \in T}
<1>1. U \in SUBSET (0 .. m - 1) /\ 0 \in U /\ m - 1 \in Nat
  OBVIOUS
<1>2. ASSUME NEW i \in U, i < m - 1 PROVE i + 1 \in U
  <2>1. i + 1 \in T /\ i + 1 < m /\ i + 1 \in 0 .. m - 1
    BY <1>2
  <2> QED
    BY <2>1
<1>3. U = 0 .. m - 1
  <2> HIDE DEF U
  <2>1. PICK z \in Nat : z = m - 1
    BY <1>1
  <2> QED
    BY <1>1, <1>2, <2>1, Induction
<1>4. \A j \in 1 .. m : j - 1 \in 0 .. m - 1 /\ (j - 1) + 1 = j
  OBVIOUS
<1>5. \A j \in 1 .. m : j \in T
  <2>1. \A i \in 0 .. m - 1 : i + 1 \in T
    BY <1>3
  <2> QED
    BY <1>4, <2>1
<1> QED
  BY <1>5

(* The leaves below a way are leaves of the tree, and that of key k is     *)
(* below its whole way.                                                    *)
LEMMA LeafStays ==
  ASSUME NEW n, NEW L, NEW k, NEW junk, NEW w, NEW S, Chain(w, S, n, L, k, junk), NEW j \in 1 .. Len(w)
  PROVE  /\ S[j] \subseteq L
         /\ \A l \in L : l.key = k => l \in S[j]
<1>1. PICK m \in Nat : m = Len(w) /\ 1 <= m
  BY ChainEnd
<1> DEFINE T == {i \in 1 .. m : S[i] \subseteq L /\ \A l \in L : l.key = k => l \in S[i]}
<1>2. 1 \in T
  BY <1>1 DEF Chain
<1>3. ASSUME NEW i \in T, i < m PROVE i + 1 \in T
  <2>1. i \in 1 .. m /\ i + 1 \in 1 .. m /\ i \in 1 .. Len(w) - 1 /\ i \in 1 .. Len(w)
    BY <1>1, <1>3
  <2>2. PICK x : x = w[i]
    OBVIOUS
  <2>3. Chained(x, S[i], w[i + 1], S[i + 1], k, junk) /\ Good(x.ref, x.depth, S[i])
    BY <2>1, <2>2 DEF Chain
  <2>4. PICK e : e = x.depth + x.ref.plen
    OBVIOUS
  <2>5. IsInner(x.ref) /\ S[i + 1] = Share(S[i], KeyAt(k, e, junk), e + 1)
    BY <2>3, <2>4 DEF Chained, Ahead
  <2>6. /\ e \in Nat
        /\ \A l \in S[i] : l.key \in Key /\ e < Len(l.key)
    BY <2>3, <2>4, <2>5, TreeFacts DEF Fork
  <2>7. S[i + 1] \subseteq S[i]
    BY <2>5 DEF Share
  <2>8. ASSUME NEW l \in S[i], l.key = k PROVE l \in S[i + 1]
    <3>1. KeyAt(k, e, junk) = l.key[e + 1]
      BY <2>6, <2>8 DEF KeyAt
    <3> QED
      BY <2>5, <3>1 DEF Share
  <2> QED
    BY <2>1, <2>7, <2>8
<1>4. T = 1 .. m
  <2>1. T \in SUBSET (1 .. m)
    OBVIOUS
  <2> HIDE DEF T
  <2> QED
    BY <1>1, <1>2, <1>3, <2>1, ChainInduction
<1> QED
  BY <1>1, <1>4

(* A part of a sequence.                                                   *)
LEMMA Slice ==
  ASSUME NEW T, NEW k \in Seq(T), NEW d \in Nat, NEW s \in Nat, d + s <= Len(k)
  PROVE  /\ SubSeq(k, d + 1, d + s) \in Seq(T) /\ Len(SubSeq(k, d + 1, d + s)) = s
         /\ \A i \in 1 .. s : SubSeq(k, d + 1, d + s)[i] = k[d + i]
<1>1. Len(k) \in Nat
  OBVIOUS
<1>2. \A i \in d + 1 .. d + s : i \in 1 .. Len(k)
  BY <1>1
<1>3. PICK t : t = SubSeq(k, d + 1, d + s)
  OBVIOUS
<1>4. t \in Seq(T) /\ Len(t) = s
  BY <1>1, <1>2, <1>3
<1>5. ASSUME NEW i \in 1 .. s PROVE t[i] = k[d + i]
  <2>1. i \in 1 .. Len(t) /\ (d + 1) + i - 1 = d + i
    BY <1>4
  <2>2. t[i] = k[(d + 1) + i - 1]
    BY <1>1, <1>2, <1>3, <1>4
  <2> QED
    BY <2>1, <2>2
<1> QED
  BY <1>3, <1>4, <1>5

SliceOf(t, k, d, s) == t \in Seq(Byte) /\ Len(t) = s /\ \A i \in 1 .. s : t[i] = k[d + i]

(* A stretch of a sequence of bytes.                                       *)
LEMMA SliceIs ==
  ASSUME NEW k \in Seq(Byte), NEW d \in Nat, NEW s \in Nat, d + s <= Len(k)
  PROVE  SliceOf(SubSeq(k, d + 1, d + s), k, d, s)
BY Slice DEF SliceOf

(* What check_prefix finds if a key below is the one looked for.           *)
LEMMA CheckPrefixSame ==
  ASSUME NEW n, NEW d, NEW L, Good(n, d, L), IsInner(n), NEW l \in L
  PROVE  PathMatches(n, l.key, d)
<1>1. /\ n.plen \in Nat /\ l.key \in Key /\ d + n.plen < Len(l.key) /\ d \in Nat
      /\ n.partial = SubSeq(l.key, d + 1, d + Stored(n))
  BY TreeFacts DEF Fork
<1>2. Len(l.key) \in Nat /\ l.key \in Seq(Byte)
  BY <1>1, KeyFacts
<1>3. PICK k, z, s : k = l.key /\ z = Len(k) /\ s = Stored(n)
  OBVIOUS
<1>4. s \in Nat /\ s <= n.plen
  <2>1. MaxPrefix \in Nat
    BY Sizes
  <2>2. s = IF MaxPrefix <= n.plen THEN MaxPrefix ELSE n.plen
    BY <1>1, <1>3, <2>1, MinTwo DEF Stored
  <2> QED
    BY <1>1, <2>1, <2>2
<1>5. Min({s, z - d}) = s
  <2>1. s \in Int /\ z - d \in Int /\ s <= z - d
    BY <1>1, <1>2, <1>3, <1>4, SMTT(30)
  <2> QED
    BY <2>1, MinTwo
<1>6. PICK m : m = Mismatch(n.partial, k, d, 0, s)
  OBVIOUS
<1>7. Differs(n.partial, k, d, 0, s, m)
  BY <1>1, <1>4, <1>6, MismatchIs
<1>8. m \in Int /\ 0 <= m /\ (m <= s \/ m = 0) /\ (m < s => n.partial[m + 1] # k[d + m + 1])
  BY <1>7 DEF Differs
<1>9. ~(m < s)
  <2> SUFFICES ASSUME m < s PROVE FALSE
    OBVIOUS
  <2>1. n.partial[m + 1] = k[d + m + 1]
    <3>1. k \in Seq(Byte) /\ d \in Nat /\ d + s <= Len(k) /\ n.partial = SubSeq(k, d + 1, d + s)
      BY <1>1, <1>2, <1>3, <1>4
    <3>2. \A i \in 1 .. s : n.partial[i] = k[d + i]
      BY <1>4, <3>1, Slice
    <3>3. m + 1 \in 1 .. s /\ d + (m + 1) = d + m + 1
      BY <1>4, <1>8, <3>1
    <3> QED
      BY <3>2, <3>3
  <2> QED
    BY <1>8, <2>1
<1>10. m = s
  BY <1>4, <1>8, <1>9
<1>11. CheckPrefix(n, k, d) = s
  BY <1>3, <1>5, <1>6, <1>10 DEF CheckPrefix
<1> QED
  BY <1>3, <1>11 DEF PathMatches

(* art_search ends at the leaf of the key, or at none of its leaves.       *)
LEMMA SearchOK ==
  ASSUME NEW n, NEW L, Good(n, 0, L), NEW k \in Seq(Byte), NEW junk \in Byte
  PROVE  /\ \A l \in L : l.key = k => Search(n, k, junk) = l.value
         /\ (\A l \in L : l.key # k) => Search(n, k, junk) = NULL
<1>1. PICK w : w = SearchWay(n, k, junk)
  OBVIOUS
<1>2. (\E S : Chain(w, S, n, L, k, junk)) /\ SearchSlot(Last(w), k, junk) = {}
  <2>1. SearchEnds(w, n, L, k, junk)
    BY <1>1, SearchWayOK
  <2> QED
    BY <2>1 DEF SearchEnds
<1>3. PICK S : Chain(w, S, n, L, k, junk)
  BY <1>2
<1>4. PICK x, K : x = Last(w) /\ K = S[Len(w)]
  OBVIOUS
<1>5. Good(x.ref, x.depth, K) /\ Len(w) \in 1 .. Len(w)
  BY <1>3, <1>4, ChainEnd
<1>6. K \subseteq L /\ \A l \in L : l.key = k => l \in K
  BY <1>3, <1>4, <1>5, LeafStays
<1>7. Search(n, k, junk) = IF IsLeaf(x.ref) /\ x.ref.key = k THEN x.ref.value ELSE NULL
  BY <1>1, <1>4 DEF Search
<1>8. ASSUME NEW l \in L, l.key = k PROVE x.ref = l /\ IsLeaf(x.ref)
  <2>1. l \in K
    BY <1>6, <1>8
  <2>2. CASE IsLeaf(x.ref)
    BY <1>5, <2>1, <2>2, TreeFacts DEF Tip
  <2>3. CASE ~IsLeaf(x.ref)
    <3>1. IsInner(x.ref) /\ Fork(x.ref, x.depth, K) /\ x.depth \in Nat
      BY <1>5, <2>3, TreeFacts
    <3>2. PathMatches(x.ref, k, x.depth)
      BY <1>5, <1>8, <2>1, <3>1, CheckPrefixSame
    <3>3. PICK e : e = x.depth + x.ref.plen
      OBVIOUS
    <3>4. FindChild(x.ref, KeyAt(k, e, junk)) = {}
      BY <1>2, <1>4, <3>1, <3>2, <3>3 DEF SearchSlot
    <3>5. e \in Nat /\ e < Len(k)
      BY <1>8, <2>1, <3>1, <3>3 DEF Fork
    <3>6. KeyAt(k, e, junk) = k[e + 1] /\ KeyAt(k, e, junk) \in Byte
      BY <3>5, KeyAtByte DEF KeyAt
    <3>7. l \in Share(K, k[e + 1], e + 1)
      BY <1>8, <2>1 DEF Share
    <3>8. FindChild(x.ref, KeyAt(k, e, junk)) # {}
      BY <1>5, <3>1, <3>3, <3>6, <3>7, ChildOf
    <3> QED
      BY <3>4, <3>8
  <2> QED
    BY <2>2, <2>3
<1>9. IsLeaf(x.ref) => x.ref \in L
  BY <1>5, <1>6, TreeFacts DEF Tip
<1> QED
  BY <1>7, <1>8, <1>9

-----------------------------------------------------------------------------
(* recursive_insert.                                                       *)

(* The number of bytes of a path that are stored.                          *)
LEMMA StoredIs ==
  ASSUME NEW n, n.plen \in Nat
  PROVE  /\ Stored(n) \in Nat /\ Stored(n) <= n.plen /\ Stored(n) <= MaxPrefix
         /\ Stored(n) = IF MaxPrefix <= n.plen THEN MaxPrefix ELSE n.plen
<1>1. MaxPrefix \in Nat
  BY Sizes
<1>2. Stored(n) = IF MaxPrefix <= n.plen THEN MaxPrefix ELSE n.plen
  BY <1>1, MinTwo DEF Stored
<1> QED
  BY <1>1, <1>2

(* Key k has the first e bytes of key l, ...                               *)
Common(k, l, e) == e <= Len(k) /\ e <= Len(l) /\ \A i \in 1 .. e : k[i] = l[i]

(* ... and is longer if l is.                                              *)
LEMMA CommonLonger ==
  ASSUME NEW k \in Key, NEW l \in Key, NEW e \in Nat, Common(k, l, e), e < Len(l)
  PROVE  e < Len(k)
<1>1. Len(k) \in Nat /\ Len(l) \in Nat
  BY KeyFacts
<1> SUFFICES ASSUME e = Len(k) PROVE FALSE
  BY <1>1 DEF Common
<1>2. k = l
  BY <1>1, KeysPart DEF Common
<1> QED
  BY <1>1, <1>2

(* The first bytes two keys have in common.                                *)
LEMMA SameStart ==
  ASSUME NEW k \in Seq(Byte), NEW l \in Seq(Byte), NEW e \in Nat, e <= Len(k), e <= Len(l),
         \A i \in 1 .. e : k[i] = l[i]
  PROVE  SubSeq(k, 1, e) = SubSeq(l, 1, e)
<1>1. Len(k) \in Nat /\ Len(l) \in Nat
  OBVIOUS
<1>2. \A i \in 1 .. e : i \in 1 .. Len(k) /\ i \in 1 .. Len(l)
  BY <1>1
<1> QED
  BY <1>1, <1>2

(* ... and the other way round.                                            *)
LEMMA StartSame ==
  ASSUME NEW k \in Seq(Byte), NEW l \in Seq(Byte), NEW e \in Nat, e <= Len(k), e <= Len(l),
         SubSeq(k, 1, e) = SubSeq(l, 1, e)
  PROVE  Common(k, l, e)
<1>1. Len(k) \in Nat /\ Len(l) \in Nat
  OBVIOUS
<1>2. /\ \A i \in 1 .. e : SubSeq(k, 0 + 1, 0 + e)[i] = k[0 + i]
      /\ \A i \in 1 .. e : SubSeq(l, 0 + 1, 0 + e)[i] = l[0 + i]
  <2>1. 0 + e <= Len(k) /\ 0 + e <= Len(l) /\ 0 \in Nat
    BY <1>1
  <2> QED
    BY <2>1, Slice
<1>3. 0 + 1 = 1 /\ 0 + e = e /\ \A i \in 1 .. e : 0 + i = i
  OBVIOUS
<1>4. \A i \in 1 .. e : k[i] = l[i]
  BY <1>2, <1>3
<1> QED
  BY <1>4 DEF Common

(* The bytes of a key as chars: t has those of k, or what no byte is.      *)
Reading(t, k) == \A i \in 1 .. Len(k) : t[i] = k[i] \/ t[i] \notin Nat

(* What the loops find that compare a key, read so, with another from byte *)
(* i of a path on.                                                         *)
Found(t, k, l, d, i, m) ==
  /\ m \in Nat /\ i <= m /\ Common(k, l, d + m)
  /\ d + m < Len(k) /\ d + m < Len(l) => t[d + m + 1] # l[d + m + 1]

(* longest_common_prefix and the second loop of prefix_mismatch find that. *)
LEMMA LeafMismatch ==
  ASSUME NEW k \in Seq(Byte), NEW l \in Key, NEW d \in Nat, NEW i \in Nat, Common(k, l, d + i),
         NEW t, Reading(t, k),
         NEW m, m = Mismatch(SubSeq(l, d + 1, Len(l)), t, d, i, Min({Len(l), Len(k)}) - d)
  PROVE  Found(t, k, l, d, i, m)
<1>1. Len(k) \in Nat /\ Len(l) \in Nat /\ k \in Seq(Byte) /\ l \in Seq(Byte)
  BY KeyFacts
<1>2. PICK y, z : y = Len(k) /\ z = Len(l)
  OBVIOUS
<1>3. y \in Nat /\ z \in Nat /\ d + i <= y /\ d + i <= z
  BY <1>1, <1>2 DEF Common
<1>4. PICK to, q : to = Min({z, y}) - d /\ q = SubSeq(l, d + 1, z)
  OBVIOUS
<1>5. m = Mismatch(q, t, d, i, to)
  BY <1>2, <1>4
<1>6. to \in Int /\ to <= z - d /\ to <= y - d /\ (to = z - d \/ to = y - d)
  <2>1. Min({z, y}) = IF z <= y THEN z ELSE y
    BY <1>3, MinTwo
  <2> QED
    BY <1>3, <1>4, <2>1
<1>7. Differs(q, t, d, i, to, m)
  BY <1>5, <1>6, MismatchIs
<1>8. m \in Nat /\ i <= m /\ m <= to
  <2>1. i <= to
    BY <1>3, <1>6
  <2> QED
    BY <1>7, <2>1 DEF Differs
<1>9. \A x \in 1 .. z - d : q[x] = l[d + x]
  <2>1. PICK u \in Nat : u = z - d
    BY <1>3
  <2>2. d + u = z /\ d + u <= Len(l)
    BY <1>2, <1>3, <2>1
  <2>3. \A x \in 1 .. u : SubSeq(l, d + 1, d + u)[x] = l[d + x]
    BY <1>1, <2>1, <2>2, Slice
  <2> QED
    BY <1>4, <2>1, <2>2, <2>3
<1>10. Common(k, l, d + m)
  <2>1. d + m <= y /\ d + m <= z
    BY <1>3, <1>6, <1>8
  <2>2. ASSUME NEW x \in 1 .. d + m, d + i < x PROVE k[x] = l[x]
    <3>1. x - d \in 1 .. z - d /\ d + (x - d) = x /\ (x - d) - 1 \in i .. m - 1
          /\ d + ((x - d) - 1) + 1 = x /\ ((x - d) - 1) + 1 = x - d
      BY <1>3, <1>6, <1>8, <2>2
    <3>2. q[x - d] = l[x]
      BY <1>9, <3>1
    <3>3. \A u \in i .. m - 1 : q[u + 1] = t[d + u + 1]
      BY <1>7 DEF Differs
    <3>4. q[((x - d) - 1) + 1] = t[d + ((x - d) - 1) + 1]
      BY <3>1, <3>3
    <3>5. t[x] = l[x]
      BY <3>1, <3>2, <3>4
    <3>6. x \in 1 .. Len(k) /\ x \in 1 .. Len(l)
      BY <1>1, <1>2, <1>3, <1>8, <2>1
    <3>7. l[x] \in Nat
      BY <3>6, KeyFacts, Sizes
    <3> QED
      BY <3>5, <3>6, <3>7 DEF Reading
  <2>3. \A x \in 1 .. d + m : d + i < x \/ x \in 1 .. d + i
    BY <1>8
  <2>4. \A x \in 1 .. d + i : k[x] = l[x]
    BY DEF Common
  <2>5. \A x \in 1 .. d + m : k[x] = l[x]
    BY <2>2, <2>3, <2>4
  <2> QED
    BY <1>2, <2>1, <2>5 DEF Common
<1>11. ASSUME d + m < Len(k), d + m < Len(l) PROVE t[d + m + 1] # l[d + m + 1]
  <2>1. m < to /\ m + 1 \in 1 .. z - d /\ d + (m + 1) = d + m + 1
    BY <1>2, <1>3, <1>6, <1>8, <1>11
  <2>2. q[m + 1] # t[d + m + 1] /\ q[m + 1] = l[d + m + 1]
    BY <1>7, <1>9, <2>1 DEF Differs
  <2> QED
    BY <2>2, Zenon
<1> QED
  BY <1>8, <1>10, <1>11 DEF Found

(* A byte that is not negative is the same as a signed char.               *)
LEMMA SignedSame ==
  ASSUME NEW c \in Byte, ~(Signed(c) < 0)
  PROVE  Signed(c) = c
<1>1. c \in Nat /\ c < NByte /\ NByte \in Nat
  BY Sizes DEF Byte
<1> QED
  BY <1>1 DEF Signed

(* The chars of a key.                                                     *)
LEMMA CharsRead ==
  ASSUME NEW k \in Seq(Byte)
  PROVE  /\ Reading(Chars(k), k)
         /\ \A i \in 1 .. Len(k) : Chars(k)[i] = k[i] \/ Signed(k[i]) < 0
<1>1. Len(k) \in Nat /\ DOMAIN k = 1 .. Len(k) /\ \A i \in 1 .. Len(k) : k[i] \in Byte
  OBVIOUS
<1>2. \A i \in 1 .. Len(k) : Chars(k)[i] = Signed(k[i])
  BY <1>1 DEF Chars
<1>3. ASSUME NEW i \in 1 .. Len(k), Signed(k[i]) < 0 PROVE Signed(k[i]) \notin Nat
  <2>1. PICK c \in Byte : c = k[i]
    BY <1>1
  <2>2. Signed(c) \in Int /\ Signed(c) < 0
    BY <1>3, <2>1, Sizes DEF Signed
  <2> QED
    BY <2>1, <2>2
<1>4. ASSUME NEW i \in 1 .. Len(k), ~(Signed(k[i]) < 0) PROVE Signed(k[i]) = k[i]
  BY <1>1, <1>4, SignedSame
<1> QED
  BY <1>2, <1>3, <1>4 DEF Reading

(* What prefix_mismatch of a path of p bytes finds, if l is the least key  *)
(* below: how far k goes along l, no further than the end of the path      *)
(* unless that is longer than what is stored, and no further than a byte   *)
(* above 127 that is not stored.                                           *)
Splits(k, l, d, p, m) ==
  /\ m \in Nat /\ Common(k, l, d + m)
  /\ m < p /\ d + m < Len(k) =>
       k[d + m + 1] # l[d + m + 1] \/ (MaxPrefix <= m /\ Signed(k[d + m + 1]) < 0)
  /\ p < m => MaxPrefix < p

(* prefix_mismatch, with the stored bytes first and those of a leaf        *)
(* after.                                                                  *)
LEMMA PrefixMismatchSplits ==
  ASSUME NEW n, NEW k \in Seq(Byte), NEW l \in Key, NEW d \in Nat, l = Minimum(n).key,
         n.plen \in Nat, d + n.plen < Len(l), n.partial = SubSeq(l, d + 1, d + Stored(n)),
         Common(k, l, d)
  PROVE  Splits(k, l, d, n.plen, PrefixMismatch(n, k, d))
<1>1. Len(k) \in Nat /\ Len(l) \in Nat /\ k \in Seq(Byte) /\ l \in Seq(Byte)
  BY KeyFacts
<1>2. PICK y, z, p, s : y = Len(k) /\ z = Len(l) /\ p = n.plen /\ s = Stored(n)
  OBVIOUS
<1>3. y \in Nat /\ z \in Nat /\ p \in Nat /\ d + p < z /\ d <= y /\ d <= z
  BY <1>1, <1>2 DEF Common
<1>4. s \in Nat /\ s <= p /\ s <= MaxPrefix /\ (p <= MaxPrefix => s = p) /\ MaxPrefix \in Nat
  BY <1>2, StoredIs, Sizes
<1>5. PICK t : t = Min({s, y - d})
  OBVIOUS
<1>6. t \in Nat /\ t <= s /\ t <= y - d /\ (t = s \/ t = y - d)
  <2>1. y - d \in Nat
    BY <1>3
  <2>2. t = IF s <= y - d THEN s ELSE y - d
    BY <1>4, <1>5, <2>1, MinTwo
  <2> QED
    BY <1>4, <2>1, <2>2
<1>7. PICK i : i = CheckPrefix(n, k, d)
  OBVIOUS
<1>8. Differs(n.partial, k, d, 0, t, i)
  BY <1>2, <1>5, <1>6, <1>7, MismatchIs DEF CheckPrefix
<1>9. i \in Nat /\ i <= t
  BY <1>6, <1>8 DEF Differs
<1>10. \A x \in 1 .. s : n.partial[x] = l[d + x]
  BY <1>1, <1>2, <1>3, <1>4, Slice
<1>11. Common(k, l, d + i)
  <2>1. d + i <= y /\ d + i <= z
    BY <1>3, <1>4, <1>6, <1>9
  <2>2. ASSUME NEW x \in 1 .. d + i, d < x PROVE k[x] = l[x]
    <3>1. x - d \in 1 .. s /\ d + (x - d) = x /\ (x - d) - 1 \in 0 .. i - 1
          /\ d + ((x - d) - 1) + 1 = x /\ ((x - d) - 1) + 1 = x - d
      BY <1>4, <1>6, <1>9, <2>2
    <3>2. n.partial[x - d] = l[x]
      BY <1>10, <3>1
    <3>3. \A u \in 0 .. i - 1 : n.partial[u + 1] = k[d + u + 1]
      BY <1>8 DEF Differs
    <3>4. n.partial[((x - d) - 1) + 1] = k[d + ((x - d) - 1) + 1]
      BY <3>1, <3>3
    <3> QED
      BY <3>1, <3>2, <3>4
  <2>3. \A x \in 1 .. d + i : d < x \/ x \in 1 .. d
    BY <1>9
  <2>4. \A x \in 1 .. d : k[x] = l[x]
    BY DEF Common
  <2>5. \A x \in 1 .. d + i : k[x] = l[x]
    BY <2>2, <2>3, <2>4
  <2> QED
    BY <1>2, <2>1, <2>5 DEF Common
<1>12. CASE i < t
  <2>1. PrefixMismatch(n, k, d) = i
    BY <1>2, <1>5, <1>7, <1>12 DEF PrefixMismatch
  <2>2. n.partial[i + 1] # k[d + i + 1]
    BY <1>8, <1>12 DEF Differs
  <2>3. i + 1 \in 1 .. s /\ i < p /\ ~(p < i) /\ d + (i + 1) = d + i + 1
    BY <1>3, <1>4, <1>6, <1>9, <1>12
  <2>4. n.partial[i + 1] = l[d + i + 1]
    BY <1>10, <2>3
  <2>5. k[d + i + 1] # l[d + i + 1]
    BY <2>2, <2>4, Zenon
  <2>6. Splits(k, l, d, p, i)
    BY <1>9, <1>11, <2>3, <2>5, Zenon DEF Splits
  <2> QED
    BY <1>2, <2>1, <2>6
<1>13. CASE ~(i < t) /\ p <= MaxPrefix
  <2>1. PrefixMismatch(n, k, d) = i
    BY <1>2, <1>7, <1>13 DEF PrefixMismatch
  <2>2. ~(p < i) /\ (i < p => d + i = y)
    BY <1>3, <1>4, <1>6, <1>9, <1>13
  <2>3. ~(i < p /\ d + i < Len(k))
    BY <1>2, <1>3, <1>9, <2>2
  <2>4. Splits(k, l, d, p, i)
    BY <1>9, <1>11, <2>2, <2>3, Zenon DEF Splits
  <2> QED
    BY <1>2, <2>1, <2>4
<1>14. CASE ~(i < t) /\ ~(p <= MaxPrefix)
  <2>1. PICK m : m = PrefixMismatch(n, k, d)
    OBVIOUS
  <2>2. PICK h : h = Chars(k)
    OBVIOUS
  <2>3. m = Mismatch(SubSeq(l, d + 1, Len(l)), h, d, i, Min({Len(l), Len(k)}) - d)
    BY <1>2, <1>5, <1>7, <1>14, <2>1, <2>2 DEF PrefixMismatch
  <2>4. Found(h, k, l, d, i, m)
    BY <1>1, <1>9, <1>11, <2>2, <2>3, CharsRead, LeafMismatch
  <2>5. /\ m \in Nat /\ i <= m /\ Common(k, l, d + m)
        /\ d + m < Len(k) /\ d + m < Len(l) => h[d + m + 1] # l[d + m + 1]
    BY <2>4 DEF Found
  <2>6. MaxPrefix < p
    BY <1>3, <1>4, <1>14
  <2>7. m < p /\ d + m < Len(k) =>
          k[d + m + 1] # l[d + m + 1] \/ (MaxPrefix <= m /\ Signed(k[d + m + 1]) < 0)
    <3> SUFFICES ASSUME m < p, d + m < Len(k), k[d + m + 1] = l[d + m + 1]
                 PROVE  MaxPrefix <= m /\ Signed(k[d + m + 1]) < 0
      OBVIOUS
    <3>1. d + m < Len(l) /\ d + m + 1 \in 1 .. Len(k)
      BY <1>1, <1>2, <1>3, <2>5
    <3>2. h[d + m + 1] # k[d + m + 1]
      BY <2>5, <3>1
    <3>3. Signed(k[d + m + 1]) < 0
      BY <2>2, <3>1, <3>2, CharsRead
    <3>4. s = MaxPrefix
      BY <1>2, <1>3, <1>4, <2>6, StoredIs
    <3>5. MaxPrefix <= m
      BY <1>2, <1>3, <1>4, <1>6, <1>9, <1>14, <2>5, <3>4
    <3> QED
      BY <3>3, <3>5
  <2>8. Splits(k, l, d, p, m)
    BY <2>5, <2>6, <2>7, Zenon DEF Splits
  <2> QED
    BY <1>2, <2>1, <2>8
<1> QED
  BY <1>12, <1>13, <1>14

(* What k has in common with one key it has with those that begin alike.   *)
LEMMA CommonAlike ==
  ASSUME NEW k \in Seq(Byte), NEW a \in Key, NEW b \in Key, NEW e \in Nat, NEW g \in Nat,
         Common(k, a, e), e <= g, g <= Len(b), \A i \in 1 .. g : a[i] = b[i]
  PROVE  Common(k, b, e)
<1>1. Len(a) \in Nat /\ Len(b) \in Nat /\ Len(k) \in Nat
  BY KeyFacts
<1>2. e <= Len(k) /\ \A i \in 1 .. e : k[i] = a[i]
  BY DEF Common
<1>3. e <= Len(b) /\ \A i \in 1 .. e : i \in 1 .. g
  BY <1>1
<1> QED
  BY <1>2, <1>3 DEF Common

(* As much as it has it has less.                                          *)
LEMMA CommonLess ==
  ASSUME NEW k \in Seq(Byte), NEW a \in Key, NEW e \in Nat, NEW g \in Nat, Common(k, a, g), e <= g
  PROVE  Common(k, a, e)
<1>1. Len(a) \in Nat /\ Len(k) \in Nat
  BY KeyFacts
<1>2. g <= Len(k) /\ g <= Len(a) /\ \A i \in 1 .. g : k[i] = a[i]
  BY DEF Common
<1>3. e <= Len(k) /\ e <= Len(a) /\ \A i \in 1 .. e : i \in 1 .. g
  BY <1>1, <1>2
<1> QED
  BY <1>2, <1>3 DEF Common

(* prefix_mismatch at a node of a tree.                                    *)
LEMMA SplitsInTree ==
  ASSUME NEW n, NEW d, NEW K, Good(n, d, K), IsInner(n), NEW k \in Seq(Byte), \A l \in K : Common(k, l.key, d)
  PROVE  /\ d \in Nat /\ n.plen \in Nat /\ Minimum(n).key \in Key
         /\ Splits(k, Minimum(n).key, d, n.plen, PrefixMismatch(n, k, d))
         /\ \A l \in K : /\ l.key \in Key /\ d + n.plen < Len(l.key)
                         /\ \A i \in 1 .. d + n.plen : Minimum(n).key[i] = l.key[i]
<1>1. PICK o, c : o = Minimum(n) /\ c = o.key
  OBVIOUS
<1>2. o \in K
  BY <1>1, MinimumIn
<1>3. /\ d \in Nat /\ n.plen \in Nat
      /\ \A l \in K : l.key \in Key /\ d + n.plen < Len(l.key)
      /\ \A l, b \in K : \A i \in 1 .. d + n.plen : l.key[i] = b.key[i]
      /\ n.partial = SubSeq(o.key, d + 1, d + Stored(n))
  BY <1>2, TreeFacts DEF Fork
<1>4. c \in Key /\ d + n.plen < Len(c) /\ n.partial = SubSeq(c, d + 1, d + Stored(n)) /\ Common(k, c, d)
  BY <1>1, <1>2, <1>3
<1>5. Splits(k, c, d, n.plen, PrefixMismatch(n, k, d))
  BY <1>1, <1>3, <1>4, PrefixMismatchSplits
<1>6. \A l \in K : \A i \in 1 .. d + n.plen : c[i] = l.key[i]
  BY <1>1, <1>2, <1>3
<1> QED
  BY <1>1, <1>3, <1>4, <1>5, <1>6

(* prefix_mismatch stops in the path only where the key leaves it.         *)
Reads(n, k, d) ==
  LET m == PrefixMismatch(n, k, d)
  IN m < n.plen /\ d + m < Len(k) => k[d + m + 1] # Minimum(n).key[d + m + 1]

(* It does unless the key is misread.                                      *)
LEMMA NotMisread ==
  ASSUME NEW x, NEW K, Good(x.ref, x.depth, K), IsInner(x.ref), NEW k \in Seq(Byte),
         \A l \in K : Common(k, l.key, x.depth), ~Misreads(x, k)
  PROVE  Reads(x.ref, k, x.depth)
<1>1. PICK n, d, a, p, m : /\ n = x.ref /\ d = x.depth /\ a = Minimum(n).key /\ p = n.plen
                           /\ m = PrefixMismatch(n, k, d)
  OBVIOUS
<1>2. /\ d \in Nat /\ p \in Nat /\ a \in Key /\ Splits(k, a, d, p, m)
      /\ \A l \in K : l.key \in Key /\ d + p < Len(l.key)
  BY <1>1, SplitsInTree
<1>3. d + p < Len(a)
  BY <1>1, <1>2, MinimumIn
<1>4. Len(k) \in Nat /\ Len(a) \in Nat /\ a \in Seq(Byte) /\ MaxPrefix \in Nat
  BY <1>2, KeyFacts, Sizes
<1> SUFFICES ASSUME m < p, d + m < Len(k), k[d + m + 1] = a[d + m + 1] PROVE FALSE
  BY <1>1 DEF Reads
<1>5. m \in Nat /\ Common(k, a, d + m) /\ MaxPrefix <= m /\ Signed(k[d + m + 1]) < 0
  BY <1>2 DEF Splits
<1>6. PICK i \in Nat : i = d + m + 1
  BY <1>2, <1>5
<1>7. i <= Len(k) /\ i <= Len(a) /\ i - 1 = d + m
  BY <1>2, <1>3, <1>4, <1>5, <1>6
<1>8. SubSeq(k, 1, i) = SubSeq(a, 1, i)
  <2>1. \A j \in 1 .. d + m : k[j] = a[j]
    BY <1>5 DEF Common
  <2>2. \A j \in 1 .. i : j \in 1 .. d + m \/ j = d + m + 1
    BY <1>2, <1>5, <1>6
  <2>3. \A j \in 1 .. i : k[j] = a[j]
    BY <2>1, <2>2
  <2> QED
    BY <1>4, <1>7, <2>3, SameStart
<1>9. i \in d + MaxPrefix + 1 .. Min({Len(k), d + p})
  <2>1. Min({Len(k), d + p}) = IF Len(k) <= d + p THEN Len(k) ELSE d + p
    BY <1>2, <1>4, MinTwo
  <2> QED
    BY <1>2, <1>4, <1>5, <1>6, <1>7, <2>1
<1>10. \E j \in d + MaxPrefix + 1 .. Min({Len(k), d + p}) :
         Signed(k[j]) < 0 /\ SubSeq(k, 1, j) = SubSeq(a, 1, j)
  BY <1>5, <1>6, <1>8, <1>9
<1> QED
  BY <1>1, <1>10, Zenon DEF Misreads

(* For a key that is inserted, if l is a key below: it parts from l in the *)
(* path, or goes on after it.                                              *)
Parts(k, l, d, p, m) ==
  /\ m \in Nat
  /\ m < p => Common(k, l, d + m) /\ d + m < Len(k) /\ k[d + m + 1] # l[d + m + 1]
  /\ p <= m => Common(k, l, d + p) /\ d + p < Len(k)

(* It does so as no key is a prefix of another.                            *)
LEMMA PrefixMismatchIs ==
  ASSUME NEW n, NEW k \in Key, NEW l \in Key, NEW d \in Nat, l = Minimum(n).key,
         n.plen \in Nat, d + n.plen < Len(l), n.partial = SubSeq(l, d + 1, d + Stored(n)),
         Common(k, l, d), Reads(n, k, d)
  PROVE  Parts(k, l, d, n.plen, PrefixMismatch(n, k, d))
<1>1. Len(k) \in Nat /\ Len(l) \in Nat /\ k \in Seq(Byte)
  BY KeyFacts
<1>2. PICK p, m : p = n.plen /\ m = PrefixMismatch(n, k, d)
  OBVIOUS
<1>3. p \in Nat /\ d + p < Len(l)
  BY <1>2
<1>4. Splits(k, l, d, p, m)
  BY <1>1, <1>2, PrefixMismatchSplits
<1>5. m \in Nat /\ Common(k, l, d + m)
  BY <1>4 DEF Splits
<1>6. CASE m < p
  <2>1. d + m \in Nat /\ d + m < Len(l) /\ ~(p <= m)
    BY <1>1, <1>3, <1>5, <1>6
  <2>2. d + m < Len(k)
    BY <1>5, <2>1, CommonLonger
  <2>3. k[d + m + 1] # l[d + m + 1]
    BY <1>2, <1>6, <2>2 DEF Reads
  <2>4. Parts(k, l, d, p, m)
    BY <1>5, <2>1, <2>2, <2>3, Zenon DEF Parts
  <2> QED
    BY <1>2, <2>4
<1>7. CASE ~(m < p)
  <2>1. Common(k, l, d + p)
    <3>1. d + m <= Len(k) /\ d + m <= Len(l) /\ \A i \in 1 .. d + m : k[i] = l[i]
      BY <1>5 DEF Common
    <3>2. d + p <= Len(k) /\ d + p <= Len(l) /\ \A i \in 1 .. d + p : i \in 1 .. d + m
      BY <1>1, <1>3, <1>5, <1>7, <3>1
    <3> QED
      BY <3>1, <3>2 DEF Common
  <2>2. d + p < Len(k)
    BY <1>3, <2>1, CommonLonger
  <2>3. Parts(k, l, d, p, m)
    BY <1>5, <1>7, <2>1, <2>2, Zenon DEF Parts
  <2> QED
    BY <1>2, <2>3
<1> QED
  BY <1>6, <1>7

(* It is the same for all keys below.                                      *)
LEMMA MismatchInTree ==
  ASSUME NEW n, NEW d, NEW L, Good(n, d, L), IsInner(n), NEW k \in Key, \A l \in L : Common(k, l.key, d),
         Reads(n, k, d), NEW m, m = PrefixMismatch(n, k, d)
  PROVE  \A l \in L : Parts(k, l.key, d, n.plen, m)
<1>1. PICK a \in L : a = Minimum(n)
  BY MinimumIn
<1>2. /\ n.plen \in Nat /\ d \in Nat
      /\ \A l \in L : l.key \in Key /\ d + n.plen < Len(l.key)
      /\ \A l, b \in L : \A i \in 1 .. d + n.plen : l.key[i] = b.key[i]
      /\ n.partial = SubSeq(a.key, d + 1, d + Stored(n))
  BY TreeFacts DEF Fork
<1>3. Parts(k, a.key, d, n.plen, m)
  <2>1. PICK c : c = a.key
    OBVIOUS
  <2>2. c \in Key /\ d + n.plen < Len(c) /\ n.partial = SubSeq(c, d + 1, d + Stored(n)) /\ Common(k, c, d)
    BY <1>2, <2>1
  <2>3. c = Minimum(n).key
    BY <1>1, <2>1
  <2>4. Parts(k, c, d, n.plen, m)
    BY <1>2, <2>2, <2>3, PrefixMismatchIs
  <2> QED
    BY <2>1, <2>4
<1> SUFFICES ASSUME NEW l \in L PROVE Parts(k, l.key, d, n.plen, m)
  OBVIOUS
<1>4. PICK b, c, p : b = l.key /\ c = a.key /\ p = n.plen
  OBVIOUS
<1>5. /\ b \in Key /\ c \in Key /\ p \in Nat /\ d \in Nat /\ d + p < Len(b) /\ d + p < Len(c)
      /\ \A i \in 1 .. d + p : b[i] = c[i]
  BY <1>2, <1>4
<1>6. Len(b) \in Nat /\ Len(c) \in Nat /\ Len(k) \in Nat
  BY <1>5, KeyFacts
<1>7. Parts(k, c, d, p, m)
  BY <1>3, <1>4
<1>8. m \in Nat
  BY <1>7 DEF Parts
<1>9. CASE m < p
  <2>1. Common(k, c, d + m) /\ d + m < Len(k) /\ k[d + m + 1] # c[d + m + 1] /\ ~(p <= m)
    BY <1>5, <1>7, <1>8, <1>9 DEF Parts
  <2>2. d + m + 1 \in 1 .. d + p /\ d + m <= Len(b) /\ \A i \in 1 .. d + m : i \in 1 .. d + p
    BY <1>5, <1>6, <1>8, <1>9
  <2>3. \A i \in 1 .. d + m : k[i] = b[i]
    BY <1>5, <2>1, <2>2 DEF Common
  <2>4. Common(k, b, d + m)
    BY <2>1, <2>2, <2>3 DEF Common
  <2>5. k[d + m + 1] # b[d + m + 1]
    BY <1>5, <2>1, <2>2
  <2>6. Parts(k, b, d, p, m)
    BY <1>8, <2>1, <2>4, <2>5, Zenon DEF Parts
  <2> QED
    BY <1>4, <2>6
<1>10. CASE ~(m < p)
  <2>1. Common(k, c, d + p) /\ d + p < Len(k)
    BY <1>5, <1>7, <1>8, <1>10 DEF Parts
  <2>2. d + p <= Len(b)
    BY <1>5, <1>6
  <2>3. \A i \in 1 .. d + p : k[i] = b[i]
    BY <1>5, <2>1 DEF Common
  <2>4. Common(k, b, d + p)
    BY <2>1, <2>2, <2>3 DEF Common
  <2>5. Parts(k, b, d, p, m)
    BY <1>8, <1>10, <2>1, <2>4, Zenon DEF Parts
  <2> QED
    BY <1>4, <2>5
<1> QED
  BY <1>9, <1>10

(* recursive_insert goes on where the key has the path of the node.        *)
LEMMA InsertPath ==
  ASSUME NEW n, NEW d, NEW L, Good(n, d, L), IsInner(n), NEW k \in Key, \A l \in L : Common(k, l.key, d),
         n.plen = 0 \/ PrefixMismatch(n, k, d) >= n.plen
  PROVE  d + n.plen < Len(k) /\ \A l \in L : Common(k, l.key, d + n.plen)
<1>1. PICK m, p, a : m = PrefixMismatch(n, k, d) /\ p = n.plen /\ a = Minimum(n).key
  OBVIOUS
<1>2. k \in Seq(Byte) /\ Len(k) \in Nat
  BY KeyFacts
<1>3. /\ d \in Nat /\ p \in Nat /\ a \in Key /\ Splits(k, a, d, p, m)
      /\ \A l \in L : l.key \in Key /\ d + p < Len(l.key) /\ \A i \in 1 .. d + p : a[i] = l.key[i]
  BY <1>1, <1>2, SplitsInTree
<1>4. m \in Nat /\ Common(k, a, d + m)
  BY <1>3 DEF Splits
<1>5. PICK e \in Nat : e = d + p
  BY <1>3
<1>6. Common(k, a, e)
  <2>1. d + m \in Nat /\ e <= d + m
    BY <1>1, <1>3, <1>4, <1>5
  <2> QED
    BY <1>2, <1>3, <1>4, <2>1, CommonLess
<1>7. ASSUME NEW l \in L PROVE Common(k, l.key, e)
  <2>1. PICK b : b = l.key
    OBVIOUS
  <2>2. b \in Key /\ e < Len(b) /\ \A i \in 1 .. e : a[i] = b[i]
    BY <1>3, <1>5, <2>1
  <2>3. e <= e /\ e <= Len(b)
    BY <1>5, <2>2, KeyFacts
  <2>4. Common(k, b, e)
    BY <1>2, <1>3, <1>6, <2>2, <2>3, CommonAlike
  <2> QED
    BY <2>1, <2>4
<1>8. e < Len(k)
  <2>1. e < Len(a)
    BY <1>1, <1>3, <1>5, MinimumIn
  <2> QED
    BY <1>3, <1>6, <2>1, CommonLonger
<1> QED
  BY <1>1, <1>5, <1>7, <1>8

(* All the way down the key agrees with those below.                       *)
LEMMA InsertAgrees ==
  ASSUME NEW n, NEW L, NEW k \in Key, NEW junk, NEW w, NEW S, Chain(w, S, n, L, k, junk),
         \A j \in 1 .. Len(w) - 1 : InsertSlot(w[j], k, junk) # {}
  PROVE  \A j \in 1 .. Len(w) : \A l \in S[j] : Common(k, l.key, w[j].depth)
<1>1. PICK m \in Nat : m = Len(w) /\ 1 <= m
  BY ChainEnd
<1>2. Len(k) \in Nat
  BY KeyFacts
<1> DEFINE T == {j \in 1 .. m : \A l \in S[j] : Common(k, l.key, w[j].depth)}
<1>3. 1 \in T
  <2>1. w[1].depth = 0 /\ 1 \in 1 .. m /\ Good(w[1].ref, w[1].depth, S[1])
    BY <1>1 DEF Chain, Top
  <2>2. \A l \in S[1] : l.key \in Key
    BY <2>1, TreeFacts
  <2>3. \A i \in 1 .. 0 : FALSE
    OBVIOUS
  <2>4. \A l \in S[1] : Len(l.key) \in Nat
    BY <2>2, KeyFacts
  <2>5. \A l \in S[1] : Common(k, l.key, 0)
    BY <1>2, <2>3, <2>4 DEF Common
  <2> QED
    BY <2>1, <2>5
<1>4. ASSUME NEW j \in T, j < m PROVE j + 1 \in T
  <2>1. j \in 1 .. m /\ j + 1 \in 1 .. m /\ j \in 1 .. Len(w) - 1 /\ j \in 1 .. Len(w)
    BY <1>1, <1>4
  <2>2. PICK x, K : x = w[j] /\ K = S[j]
    OBVIOUS
  <2>3. Chained(x, K, w[j + 1], S[j + 1], k, junk) /\ Good(x.ref, x.depth, K)
    BY <2>1, <2>2 DEF Chain
  <2>4. IsInner(x.ref) /\ (x.ref.plen = 0 \/ PrefixMismatch(x.ref, k, x.depth) >= x.ref.plen)
    BY <2>1, <2>2 DEF InsertSlot
  <2>5. \A l \in K : Common(k, l.key, x.depth)
    BY <1>4, <2>2
  <2>6. x.depth + x.ref.plen < Len(k) /\ \A l \in K : Common(k, l.key, x.depth + x.ref.plen)
    BY <2>3, <2>4, <2>5, InsertPath
  <2>7. /\ x.depth + x.ref.plen \in Nat
        /\ \A l \in K : l.key \in Key /\ x.depth + x.ref.plen < Len(l.key)
    BY <2>3, <2>4, TreeFacts DEF Fork
  <2>8. PICK e \in Nat : e = x.depth + x.ref.plen
    BY <2>7
  <2>9. Ahead(x, k, junk) = k[e + 1]
    BY <2>6, <2>8 DEF Ahead, KeyAt
  <2>10. w[j + 1].depth = e + 1 /\ S[j + 1] = Share(K, k[e + 1], e + 1)
    BY <2>3, <2>8, <2>9 DEF Chained
  <2>11. ASSUME NEW l \in S[j + 1] PROVE Common(k, l.key, e + 1)
    <3>1. l \in K /\ l.key[e + 1] = k[e + 1]
      BY <2>10 DEF Share
    <3>2. Common(k, l.key, e) /\ e < Len(k) /\ e < Len(l.key) /\ l.key \in Key
      BY <2>6, <2>7, <2>8, <3>1
    <3>3. Len(l.key) \in Nat
      BY <3>2, KeyFacts
    <3>4. \A i \in 1 .. e + 1 : i \in 1 .. e \/ i = e + 1
      BY <2>8
    <3>5. \A i \in 1 .. e : k[i] = l.key[i]
      BY <3>2 DEF Common
    <3>6. e + 1 <= Len(k) /\ e + 1 <= Len(l.key)
      BY <1>2, <2>8, <3>2, <3>3
    <3> QED
      BY <3>1, <3>4, <3>5, <3>6 DEF Common
  <2> QED
    BY <2>1, <2>10, <2>11
<1>5. T = 1 .. m
  <2>1. T \in SUBSET (1 .. m)
    OBVIOUS
  <2> HIDE DEF T
  <2> QED
    BY <1>1, <1>3, <1>4, <2>1, ChainInduction
<1> QED
  BY <1>1, <1>5

PartSame(k, l, d, s) == SubSeq(k, d + 1, d + s) = SubSeq(l, d + 1, d + s)
Alike(k, l, d, s) ==
  k \in Seq(Byte) /\ l \in Seq(Byte) /\ d \in Nat /\ s \in Nat /\ Common(k, l, d + s)

(* Keys with common bytes have the same parts of them.                     *)
LEMMA SamePart ==
  ASSUME NEW k, NEW l, NEW d, NEW s, Alike(k, l, d, s)
  PROVE  PartSame(k, l, d, s)
<1>0. k \in Seq(Byte) /\ l \in Seq(Byte) /\ d \in Nat /\ s \in Nat /\ Common(k, l, d + s)
  BY DEF Alike
<1> USE <1>0
<1>1. d + s <= Len(k) /\ d + s <= Len(l) /\ \A i \in 1 .. d + s : k[i] = l[i]
  BY DEF Common
<1>2. PICK a, b : a = SubSeq(k, d + 1, d + s) /\ b = SubSeq(l, d + 1, d + s)
  OBVIOUS
<1>3. a \in Seq(Byte) /\ Len(a) = s /\ \A i \in 1 .. s : a[i] = k[d + i]
  BY <1>1, <1>2, Slice
<1>4. b \in Seq(Byte) /\ Len(b) = s /\ \A i \in 1 .. s : b[i] = l[d + i]
  BY <1>1, <1>2, Slice
<1>5. \A i \in 1 .. s : d + i \in 1 .. d + s
  OBVIOUS
<1>6. \A i \in 1 .. s : a[i] = b[i]
  BY <1>1, <1>3, <1>4, <1>5
<1>7. a = b
  BY <1>3, <1>4, <1>6
<1> QED
  BY <1>2, <1>7 DEF PartSame

(* A new leaf is a tree.                                                   *)
LEMMA NewLeaf ==
  ASSUME NEW k \in Key, NEW v, NEW d \in Nat, d <= Len(k)
  PROVE  /\ Good(Leaf(k, v), d, {Leaf(k, v)})
         /\ Leaf(k, v).key = k /\ Leaf(k, v).value = v /\ IsLeaf(Leaf(k, v))
<1>1. PICK n : n = Leaf(k, v)
  OBVIOUS
<1>2. n.key = k /\ n.value = v /\ n.kind = "leaf"
  BY <1>1 DEF Leaf
<1>3. Tip(n, d, {n})
  BY <1>1, <1>2 DEF Tip
<1>4. Good(n, d, {n})
  BY <1>3, FoldTip
<1> QED
  BY <1>1, <1>2, <1>4 DEF IsLeaf

(* A new node above two trees.                                             *)
LEMMA PairGood ==
  ASSUME NEW d \in Nat, NEW p \in Nat, NEW q, NEW c \in Byte, NEW e \in Byte, c # e,
         NEW a, NEW A, Good(a, d + p + 1, A), \A l \in A : l.key[d + p + 1] = c,
         NEW b, NEW B, Good(b, d + p + 1, B), \A l \in B : l.key[d + p + 1] = e,
         \A l, m \in A \cup B : \A i \in 1 .. d + p : l.key[i] = m.key[i],
         \A l \in A \cup B : q = SubSeq(l.key, d + 1, d + Min({MaxPrefix, p}))
  PROVE  Good(Pair(p, q, c, a, e, b), d, A \cup B)
<1>1. PICK n, L : n = Pair(p, q, c, a, e, b) /\ L = A \cup B
  OBVIOUS
<1>2. a # Nil /\ b # Nil /\ A # {} /\ B # {}
  BY TreeFacts
<1>3. /\ Shape(n) /\ Fit(n) /\ n.plen = p /\ n.partial = q
      /\ \A x \in Byte : Child(n, x) = IF x = e THEN b ELSE IF x = c THEN a ELSE Nil
  <2>1. Paired(n, p, q, c, a, e, b)
    BY <1>1, <1>2, PairOK
  <2> QED
    BY <2>1 DEF Paired
<1>4. \A l \in L : l.key \in Key /\ d + p + 1 <= Len(l.key)
  <2>1. PICK z : z = d + p + 1
    OBVIOUS
  <2>2. \A l \in A : l.key \in Key /\ z <= Len(l.key)
    BY <2>1, TreeFacts
  <2>3. \A l \in B : l.key \in Key /\ z <= Len(l.key)
    BY <2>1, TreeFacts
  <2> QED
    BY <1>1, <2>1, <2>2, <2>3
<1>5. \A l \in L : Len(l.key) \in Nat
  BY <1>4, KeyFacts
<1>6. \A l \in L : d + p < Len(l.key)
  BY <1>4, <1>5
<1>7. Stored(n) = Min({MaxPrefix, p})
  BY <1>3 DEF Stored
<1>8. Fork(n, d, L)
  <2>1. \A l \in L : n.partial = SubSeq(l.key, d + 1, d + Stored(n))
    BY <1>1, <1>3, <1>7
  <2>2. \A l, m \in L : \A i \in 1 .. d + p : l.key[i] = m.key[i]
    BY <1>1
  <2>3. L # {}
    BY <1>1, <1>2
  <2> QED
    BY <1>3, <1>4, <1>6, <2>1, <2>2, <2>3 DEF Fork
<1>9. PICK z : z = d + p + 1
  OBVIOUS
<1>10. Share(L, c, z) = A /\ Share(L, e, z) = B
  BY <1>1, <1>9 DEF Share
<1>11. \A x \in Byte : x # c /\ x # e => Share(L, x, z) = {}
  BY <1>1, <1>9 DEF Share
<1>12. \A x \in Byte : IF Share(L, x, z) = {} THEN Child(n, x) = Nil ELSE Good(Child(n, x), z, Share(L, x, z))
  <2> SUFFICES ASSUME NEW x \in Byte
               PROVE  IF Share(L, x, z) = {} THEN Child(n, x) = Nil ELSE Good(Child(n, x), z, Share(L, x, z))
    OBVIOUS
  <2>1. CASE x = c
    BY <1>2, <1>3, <1>9, <1>10, <2>1
  <2>2. CASE x = e
    BY <1>2, <1>3, <1>9, <1>10, <2>2
  <2>3. CASE x # c /\ x # e
    BY <1>3, <1>11, <2>3
  <2> QED
    BY <2>1, <2>2, <2>3
<1>13. Branches(n, d, L)
  BY <1>3, <1>9, <1>12 DEF Branches
<1> QED
  BY <1>1, <1>8, <1>13, FoldFork

(* A leaf is added to a node.                                              *)
LEMMA AddGood ==
  ASSUME NEW n, NEW d, NEW L, Good(n, d, L), IsInner(n), NEW k \in Key, NEW v,
         d + n.plen < Len(k), \A l \in L : Common(k, l.key, d + n.plen),
         NEW c \in Byte, c = k[d + n.plen + 1], Child(n, c) = Nil,
         NEW y, y = AddChild(n, c, Leaf(k, v))
  PROVE  Good(y, d, L \cup {Leaf(k, v)}) /\ \A l \in L : l.key # k
<1>1. PICK p, a, K : p = n.plen /\ a = Leaf(k, v) /\ K = L \cup {a}
  OBVIOUS
<1>2. /\ d \in Nat /\ p \in Nat /\ Fork(n, d, L) /\ Branches(n, d, L) /\ L # {}
      /\ \A l \in L : l.key \in Key /\ d + p < Len(l.key)
      /\ \A l, m \in L : \A i \in 1 .. d + p : l.key[i] = m.key[i]
      /\ \A l \in L : n.partial = SubSeq(l.key, d + 1, d + Stored(n))
  BY <1>1, TreeFacts DEF Fork
<1>3. Len(k) \in Nat /\ d + p + 1 <= Len(k) /\ d + p + 1 \in Nat
  BY <1>1, <1>2, KeyFacts
<1>4. Good(a, d + p + 1, {a}) /\ a.key = k /\ a # Nil
  BY <1>1, <1>3, NewLeaf, TreeFacts
<1>5. /\ Added(n, c, a, y) /\ Fit(y)
  BY <1>1, <1>2, <1>4, AddChildOK DEF Fork
<1>6. /\ Shape(y) /\ y.plen = p /\ y.partial = n.partial /\ Stored(y) = Stored(n)
      /\ \A b \in Byte : Child(y, b) = IF b = c THEN a ELSE Child(n, b)
  BY <1>1, <1>5 DEF Added, Stored
<1>7. Share(L, c, d + p + 1) = {}
  BY <1>1, ChildOf
<1>8. \A l \in L : l.key[d + p + 1] # c
  BY <1>7 DEF Share
<1>9. \A l \in L : l.key # k
  BY <1>1, <1>8
<1>10. \A l \in L : \A i \in 1 .. d + p : l.key[i] = k[i]
  BY <1>1 DEF Common
<1>11. n.partial = SubSeq(k, d + 1, d + Stored(n))
  <2>1. PICK l \in L : n.partial = SubSeq(l.key, d + 1, d + Stored(n))
    BY <1>2
  <2>2. PICK s \in Nat : s = Stored(n) /\ s <= p
    BY <1>1, <1>2, StoredIs
  <2>3. k \in Seq(Byte) /\ l.key \in Seq(Byte) /\ Len(l.key) \in Nat
    BY <1>2, KeyFacts
  <2>4. Common(k, l.key, d + p)
    BY <1>1
  <2>5. Common(k, l.key, d + s)
    <3>1. \A i \in 1 .. d + s : i \in 1 .. d + p
      BY <1>2, <2>2
    <3>2. d + s <= Len(k) /\ d + s <= Len(l.key)
      BY <1>2, <1>3, <2>2, <2>3, SMTT(30)
    <3> QED
      BY <2>4, <3>1, <3>2 DEF Common
  <2>6. SubSeq(k, d + 1, d + s) = SubSeq(l.key, d + 1, d + s)
    <3>1. Alike(k, l.key, d, s)
      BY <1>2, <2>2, <2>3, <2>5 DEF Alike
    <3>2. PartSame(k, l.key, d, s)
      BY <3>1, SamePart
    <3> QED
      BY <3>2 DEF PartSame
  <2> QED
    BY <2>1, <2>2, <2>6
<1>12. Fork(y, d, K)
  <2>1. \A l \in K : l.key \in Key /\ d + p < Len(l.key)
    BY <1>1, <1>2, <1>4
  <2>2. \A l, m \in K : \A i \in 1 .. d + p : l.key[i] = m.key[i]
    BY <1>1, <1>2, <1>4, <1>10
  <2>3. \A l \in K : y.partial = SubSeq(l.key, d + 1, d + Stored(y))
    BY <1>1, <1>2, <1>4, <1>6, <1>11
  <2>4. K # {}
    BY <1>1
  <2> QED
    BY <1>2, <1>5, <1>6, <2>1, <2>2, <2>3, <2>4 DEF Fork
<1>13. PICK z : z = d + p + 1
  OBVIOUS
<1>14. Share(K, c, z) = {a} /\ \A b \in Byte : b # c => Share(K, b, z) = Share(L, b, z)
  <2>1. a.key[z] = c
    BY <1>1, <1>4, <1>13
  <2>2. \A l \in L : l.key[z] # c
    BY <1>8, <1>13
  <2> QED
    BY <1>1, <2>1, <2>2 DEF Share
<1>15. \A b \in Byte : IF Share(L, b, z) = {} THEN Child(n, b) = Nil ELSE Good(Child(n, b), z, Share(L, b, z))
  BY <1>1, <1>2, <1>13 DEF Branches
<1>16. \A b \in Byte : IF Share(K, b, z) = {} THEN Child(y, b) = Nil ELSE Good(Child(y, b), z, Share(K, b, z))
  <2> SUFFICES ASSUME NEW b \in Byte
               PROVE  IF Share(K, b, z) = {} THEN Child(y, b) = Nil ELSE Good(Child(y, b), z, Share(K, b, z))
    OBVIOUS
  <2>1. CASE b = c
    BY <1>4, <1>6, <1>13, <1>14, <2>1
  <2>2. CASE b # c
    BY <1>6, <1>14, <1>15, <2>2
  <2> QED
    BY <2>1, <2>2
<1>17. Branches(y, d, K)
  BY <1>6, <1>13, <1>16 DEF Branches
<1>18. Good(y, d, K)
  BY <1>2, <1>12, <1>17, FoldFork
<1> QED
  BY <1>1, <1>9, <1>18

(* y is a new node with the children a and b.                              *)
Joins(y, a, b) == \E p, q : \E c, e \in Byte : c # e /\ y = Pair(p, q, c, a, e, b)

(* A leaf becomes two.                                                     *)
LEMMA SplitLeafGood ==
  ASSUME NEW n, NEW d, NEW L, Good(n, d, L), IsLeaf(n), NEW k \in Key, NEW v, NEW junk,
         n.key # k, Common(k, n.key, d), NEW y, y = SplitLeaf(n, k, v, d, junk)
  PROVE  Good(y, d, L \cup {Leaf(k, v)}) /\ Joins(y, n, Leaf(k, v))
<1>1. d \in Nat /\ L = {n} /\ n.key \in Key /\ n = Leaf(n.key, n.value)
  BY TreeFacts DEF Tip
<1>2. PICK l : l = n.key
  OBVIOUS
<1>3. /\ l \in Key /\ Len(k) \in Nat /\ Len(l) \in Nat /\ k \in Seq(Byte) /\ l \in Seq(Byte)
      /\ \A i \in 1 .. Len(k) : k[i] \in Byte
      /\ \A i \in 1 .. Len(l) : l[i] \in Byte
  BY <1>1, <1>2, KeyFacts
<1>4. PICK p : p = LongestCommonPrefixOf(l, k, d)
  OBVIOUS
<1>5. Found(k, k, l, d, 0, p)
  <2>1. p = Mismatch(SubSeq(l, d + 1, Len(l)), k, d, 0, Min({Len(l), Len(k)}) - d)
    BY <1>4 DEF LongestCommonPrefixOf
  <2>2. Common(k, l, d + 0)
    BY <1>1, <1>2
  <2> QED
    BY <1>1, <1>3, <2>1, <2>2, LeafMismatch DEF Reading
<1>6. p \in Nat /\ Common(k, l, d + p) /\ d + p <= Len(k) /\ d + p <= Len(l) /\ d + p \in Nat
  BY <1>1, <1>5 DEF Found, Common
<1>7. Common(l, k, d + p)
  BY <1>6 DEF Common
<1>8. d + p < Len(k) \/ d + p < Len(l)
  <2> SUFFICES ASSUME d + p = Len(k), d + p = Len(l) PROVE FALSE
    BY <1>3, <1>6
  <2>1. k = l
    BY <1>3, <1>6, KeysPart DEF Common
  <2> QED
    BY <1>2, <2>1
<1>9. d + p < Len(k) /\ d + p < Len(l)
  <2>1. d + p < Len(l) => d + p < Len(k)
    BY <1>3, <1>6, CommonLonger
  <2>2. d + p < Len(k) => d + p < Len(l)
    BY <1>3, <1>6, <1>7, CommonLonger
  <2> QED
    BY <1>8, <2>1, <2>2
<1>10. k[d + p + 1] # l[d + p + 1]
  BY <1>5, <1>9 DEF Found
<1>11. PICK c, e, b, q : /\ c = l[d + p + 1] /\ e = k[d + p + 1] /\ b = Leaf(k, v)
                         /\ q = SubSeq(k, d + 1, d + Min({MaxPrefix, p}))
  OBVIOUS
<1>12. LeafAt(l, d + p, junk) = c /\ LeafAt(k, d + p, junk) = e
  BY <1>9, <1>11 DEF LeafAt
<1>13. y = Pair(p, q, c, n, e, b)
  BY <1>2, <1>4, <1>11, <1>12 DEF SplitLeaf, Pair
<1>14. c \in Byte /\ e \in Byte /\ c # e
  <2>1. d + p + 1 \in 1 .. Len(k) /\ d + p + 1 \in 1 .. Len(l)
    BY <1>3, <1>6, <1>9
  <2> QED
    BY <1>3, <1>10, <1>11, <2>1
<1>15. PICK z \in Nat : z = d + p + 1 /\ z <= Len(k) /\ z <= Len(l)
  BY <1>3, <1>6, <1>9
<1>16. Good(n, z, {n})
  <2>1. Tip(n, z, {n})
    BY <1>1, <1>2, <1>15 DEF Tip
  <2> QED
    BY <1>15, <2>1, FoldTip
<1>17. Good(b, z, {b}) /\ b.key = k
  BY <1>11, <1>15, NewLeaf
<1>18. SubSeq(k, d + 1, d + Min({MaxPrefix, p})) = SubSeq(l, d + 1, d + Min({MaxPrefix, p}))
  <2>1. PICK s : s = Min({MaxPrefix, p})
    OBVIOUS
  <2>2. s \in Nat /\ s <= p
    <3>1. MaxPrefix \in Nat
      BY Sizes
    <3>2. s = IF MaxPrefix <= p THEN MaxPrefix ELSE p
      BY <1>6, <2>1, <3>1, MinTwo
    <3> QED
      BY <1>6, <3>1, <3>2
  <2>3. Common(k, l, d + s)
    <3>1. d + s <= Len(k) /\ d + s <= Len(l) /\ \A i \in 1 .. d + s : i \in 1 .. d + p
      BY <1>1, <1>3, <1>6, <2>2
    <3> QED
      BY <1>6, <3>1 DEF Common
  <2> QED
    <3>1. Alike(k, l, d, s)
      BY <1>1, <1>3, <2>1, <2>2, <2>3 DEF Alike
    <3>2. PartSame(k, l, d, s)
      BY <3>1, SamePart
    <3> QED
      BY <2>1, <3>2 DEF PartSame
<1>19. \A i \in 1 .. d + p : k[i] = l[i]
  BY <1>6 DEF Common
<1>20. \A a, m \in {n} \cup {b} : \A i \in 1 .. d + p : a.key[i] = m.key[i]
  BY <1>2, <1>17, <1>19
<1>21. \A a \in {n} \cup {b} : q = SubSeq(a.key, d + 1, d + Min({MaxPrefix, p}))
  BY <1>2, <1>11, <1>17, <1>18
<1>22. (\A a \in {n} : a.key[d + p + 1] = c) /\ \A a \in {b} : a.key[d + p + 1] = e
  BY <1>2, <1>11, <1>17
<1>23. Good(n, d + p + 1, {n}) /\ Good(b, d + p + 1, {b})
  BY <1>15, <1>16, <1>17
<1>24. Good(Pair(p, q, c, n, e, b), d, {n} \cup {b})
  BY <1>1, <1>6, <1>14, <1>20, <1>21, <1>22, <1>23, PairGood
<1>25. Joins(y, n, b)
  BY <1>13, <1>14 DEF Joins
<1> QED
  BY <1>1, <1>11, <1>13, <1>24, <1>25

(* The lower part of a node whose path is cut.                             *)
LEMMA LowerPart ==
  ASSUME NEW n, NEW d, NEW L, Good(n, d, L), IsInner(n), NEW m \in Nat, m < n.plen, NEW q,
         \A l \in L : q = SubSeq(l.key, d + m + 2, d + m + 1 + Min({MaxPrefix, n.plen - (m + 1)})),
         NEW y, y = WithPath(n, n.plen - (m + 1), q)
  PROVE  Good(y, d + m + 1, L)
<1>1. /\ d \in Nat /\ n.plen \in Nat /\ Fork(n, d, L) /\ Branches(n, d, L) /\ L # {} /\ Shape(n) /\ Fit(n)
      /\ \A l \in L : l.key \in Key /\ d + n.plen < Len(l.key)
      /\ \A l, a \in L : \A i \in 1 .. d + n.plen : l.key[i] = a.key[i]
  BY TreeFacts DEF Fork
<1>2. PICK r, e : r = n.plen - (m + 1) /\ e = d + m + 1
  OBVIOUS
<1>3. r \in Nat /\ e \in Nat /\ e + r = d + n.plen /\ e + r + 1 = d + n.plen + 1
  BY <1>1, <1>2, SMTT(30)
<1>4. /\ Shape(y) /\ y.plen = r /\ y.partial = q /\ Fit(y)
      /\ \A b : Child(y, b) = Child(n, b)
  BY <1>1, <1>2, WithPathOK
<1>5. Stored(y) = Min({MaxPrefix, r})
  BY <1>4 DEF Stored
<1>6. \A l \in L : y.partial = SubSeq(l.key, e + 1, e + Stored(y))
  <2>1. d + m + 2 = e + 1
    BY <1>1, <1>2
  <2> QED
    BY <1>2, <1>4, <1>5, <2>1
<1>7. Fork(y, e, L)
  BY <1>1, <1>3, <1>4, <1>6 DEF Fork
<1>8. Branches(y, e, L)
  BY <1>1, <1>3, <1>4 DEF Branches
<1> QED
  BY <1>2, <1>3, <1>7, <1>8, FoldFork

(* A part of a part.                                                       *)
LEMMA SlicePart ==
  ASSUME NEW l \in Seq(Byte), NEW d \in Nat, NEW p \in Nat, d + p <= Len(l),
         NEW u \in Nat, NEW s \in Nat, u + s <= p
  PROVE  SubSeq(SubSeq(l, d + 1, d + p), u + 1, u + s) = SubSeq(l, (d + u) + 1, (d + u) + s)
<1>1. PICK t : t = SubSeq(l, d + 1, d + p)
  OBVIOUS
<1>2. t \in Seq(Byte) /\ Len(t) = p /\ \A i \in 1 .. p : t[i] = l[d + i]
  BY <1>1, Slice
<1>3. PICK a, b, e : a = SubSeq(t, u + 1, u + s) /\ b = SubSeq(l, (d + u) + 1, (d + u) + s) /\ e = d + u
  OBVIOUS
<1>4. a \in Seq(Byte) /\ Len(a) = s /\ \A i \in 1 .. s : a[i] = t[u + i]
  <2>1. u + s <= Len(t) /\ t \in Seq(Byte)
    BY <1>2
  <2>2. SliceOf(a, t, u, s)
    BY <1>3, <2>1, SliceIs
  <2> QED
    BY <2>2 DEF SliceOf
<1>5. b \in Seq(Byte) /\ Len(b) = s /\ \A i \in 1 .. s : b[i] = l[e + i]
  <2>1. e \in Nat /\ e + s <= Len(l) /\ b = SubSeq(l, e + 1, e + s) /\ Len(l) \in Nat
    BY <1>3
  <2> QED
    BY <2>1, Slice
<1>6. \A i \in 1 .. s : u + i \in 1 .. p /\ d + (u + i) = e + i
  BY <1>3
<1>7. \A i \in 1 .. s : a[i] = b[i]
  BY <1>2, <1>4, <1>5, <1>6
<1>8. a = b
  BY <1>4, <1>5, <1>7
<1> QED
  BY <1>1, <1>3, <1>8

(* The path of a node is cut.                                              *)
LEMMA SplitPathGood ==
  ASSUME NEW n, NEW d, NEW L, Good(n, d, L), IsInner(n), NEW k \in Key, NEW v, NEW junk,
         \A l \in L : Common(k, l.key, d), Reads(n, k, d),
         NEW m, m = PrefixMismatch(n, k, d), m < n.plen,
         NEW y, y = SplitPath(n, k, v, d, m, junk)
  PROVE  /\ Good(y, d, L \cup {Leaf(k, v)}) /\ \A l \in L : l.key # k
         /\ \E p, q : Joins(y, WithPath(n, p, q), Leaf(k, v))
<1>1. PICK p, a, b : p = n.plen /\ a = Minimum(n) /\ b = Leaf(k, v)
  OBVIOUS
<1>2. /\ d \in Nat /\ p \in Nat /\ a \in L
      /\ \A l \in L : l.key \in Key /\ d + p < Len(l.key)
      /\ \A l, o \in L : \A i \in 1 .. d + p : l.key[i] = o.key[i]
      /\ n.partial = SubSeq(a.key, d + 1, d + Stored(n))
  BY <1>1, TreeFacts, MinimumIn DEF Fork
<1>3. \A l \in L : Parts(k, l.key, d, p, m)
  BY <1>1, MismatchInTree
<1>4. m \in Nat /\ m < p
  BY <1>1, <1>2, <1>3 DEF Parts
<1>5. \A l \in L : Common(k, l.key, d + m) /\ d + m < Len(k) /\ k[d + m + 1] # l.key[d + m + 1]
  BY <1>3, <1>4 DEF Parts
<1>6. PICK l : l = a.key
  OBVIOUS
<1>7. /\ l \in Key /\ l \in Seq(Byte) /\ Len(l) \in Nat /\ d + p < Len(l)
      /\ k \in Seq(Byte) /\ Len(k) \in Nat /\ d + m < Len(k)
      /\ \A i \in 1 .. Len(k) : k[i] \in Byte
      /\ \A i \in 1 .. Len(l) : l[i] \in Byte
  BY <1>2, <1>5, <1>6, KeyFacts
<1>8. PICK s : s = Stored(n)
  OBVIOUS
<1>9. s \in Nat /\ s <= p /\ s = (IF MaxPrefix <= p THEN MaxPrefix ELSE p) /\ MaxPrefix \in Nat
  BY <1>1, <1>2, <1>8, StoredIs, Sizes
<1>10. n.partial = SubSeq(l, d + 1, d + s) /\ d + s <= Len(l)
  BY <1>2, <1>6, <1>7, <1>8, <1>9
<1>11. PICK r, f, e : r = p - (m + 1) /\ f = Min({MaxPrefix, r}) /\ e = d + m + 1
  OBVIOUS
<1>12. /\ r \in Nat /\ e \in Nat /\ f \in Nat /\ f <= r /\ (r <= MaxPrefix => f = r) /\ e + r = d + p
       /\ e <= Len(k) /\ e \in 1 .. Len(k) /\ e \in 1 .. Len(l) /\ e \in 1 .. d + p
  <2>1. r \in Nat /\ e \in Nat /\ e + r = d + p
    BY <1>2, <1>4, <1>11
  <2>2. f = IF MaxPrefix <= r THEN MaxPrefix ELSE r
    BY <1>9, <1>11, <2>1, MinTwo
  <2>3. e <= Len(k) /\ e \in 1 .. Len(k) /\ e \in 1 .. Len(l) /\ e \in 1 .. d + p
    BY <1>2, <1>4, <1>7, <1>11, SMTT(30)
  <2> QED
    BY <1>9, <2>1, <2>2, <2>3
<1>13. /\ d \in Nat /\ p \in Nat /\ m \in Nat /\ s \in Nat /\ m < p /\ d + s <= Len(l) /\ l \in Seq(Byte)
       /\ p <= MaxPrefix => s = p /\ f = r /\ m + 1 \in 1 .. s /\ d + (m + 1) = e
  <2>1. d \in Nat /\ p \in Nat /\ m \in Nat /\ m < p /\ d + s <= Len(l) /\ l \in Seq(Byte)
    BY <1>2, <1>4, <1>7, <1>10
  <2>2. s \in Nat /\ (p <= MaxPrefix => s = p) /\ MaxPrefix \in Nat
    BY <1>9, <2>1
  <2>3. r < p /\ (r <= MaxPrefix => f = r) /\ r \in Nat
    BY <1>11, <1>12, <2>1, SMTT(30)
  <2>4. d + (m + 1) = e
    BY <1>11, <2>1
  <2> QED
    BY <2>1, <2>2, <2>3, <2>4
<1>14. PICK q : q = IF p <= MaxPrefix THEN SubSeq(n.partial, m + 2, p) ELSE SubSeq(l, d + m + 2, d + m + 1 + f)
  OBVIOUS
<1>15. d + m + 2 = e + 1 /\ d + m + 1 = e
  BY <1>2, <1>4, <1>11
<1>16. q = SubSeq(l, e + 1, e + f)
  <2>1. CASE p <= MaxPrefix
    <3>1. s = p /\ f = r
      BY <1>13, <2>1
    <3>2. PICK u \in Nat : u = m + 1
      BY <1>4
    <3>3. u + 1 = m + 2 /\ u + r = p /\ d + u = e /\ u + r <= p
      <4>1. r = p - (m + 1) /\ e = d + m + 1 /\ d \in Nat /\ p \in Nat /\ m \in Nat
        BY <1>11, <1>13
      <4> QED
        BY <3>2, <4>1
    <3>4. SubSeq(SubSeq(l, d + 1, d + p), u + 1, u + r) = SubSeq(l, (d + u) + 1, (d + u) + r)
      <4>1. d + p <= Len(l) /\ r \in Nat
        BY <1>13, <1>12, <3>1
      <4> QED
        BY <1>13, <3>3, <4>1, SlicePart
    <3> QED
      BY <1>10, <1>14, <2>1, <3>1, <3>3, <3>4
  <2>2. CASE ~(p <= MaxPrefix)
    BY <1>14, <1>15, <2>2
  <2> QED
    BY <2>1, <2>2
<1>17. \A o \in L : \A i \in 1 .. d + p : l[i] = o.key[i]
  BY <1>2, <1>6
<1>18. ASSUME NEW o \in L PROVE q = SubSeq(o.key, d + m + 2, d + m + 1 + f)
  <2>1. o.key \in Key /\ d + p < Len(o.key)
    BY <1>2
  <2>2. o.key \in Seq(Byte) /\ Len(o.key) \in Nat
    BY <2>1, KeyFacts
  <2>3. e + f <= Len(l) /\ e + f <= Len(o.key) /\ \A i \in 1 .. e + f : i \in 1 .. d + p
    BY <1>2, <1>7, <1>12, <2>1, <2>2
  <2>4. Common(l, o.key, e + f)
    BY <1>17, <2>3 DEF Common
  <2>5. SubSeq(l, e + 1, e + f) = SubSeq(o.key, e + 1, e + f)
    <3>1. Alike(l, o.key, e, f)
      BY <1>7, <1>12, <2>2, <2>4 DEF Alike
    <3>2. PartSame(l, o.key, e, f)
      BY <3>1, SamePart
    <3> QED
      BY <3>2 DEF PartSame
  <2> QED
    BY <1>15, <1>16, <2>5
<1>19. PICK below : below = WithPath(n, p - (m + 1), q)
  OBVIOUS
<1>20. Good(below, e, L)
  <2>1. \A o \in L : q = SubSeq(o.key, d + m + 2, d + m + 1 + Min({MaxPrefix, n.plen - (m + 1)}))
    BY <1>1, <1>11, <1>18
  <2>2. below = WithPath(n, n.plen - (m + 1), q) /\ m < n.plen
    BY <1>1, <1>19
  <2>3. Good(below, d + m + 1, L)
    BY <1>4, <2>1, <2>2, LowerPart
  <2> QED
    BY <1>15, <2>3
<1>21. Good(b, e, {b}) /\ b.key = k
  BY <1>1, <1>12, NewLeaf
<1>22. PICK c, h, g : c = l[e] /\ h = k[e] /\ g = SubSeq(n.partial, 1, Min({MaxPrefix, m}))
  OBVIOUS
<1>23. (IF p <= MaxPrefix THEN n.partial[m + 1] ELSE LeafAt(l, d + m, junk)) = c
  <2>1. CASE p <= MaxPrefix
    <3>1. s = p /\ m + 1 \in 1 .. s /\ d + (m + 1) = e
      BY <1>13, <2>1
    <3>2. \A i \in 1 .. s : n.partial[i] = l[d + i]
      BY <1>13, <1>10, Slice
    <3> QED
      BY <1>22, <2>1, <3>1, <3>2
  <2>2. CASE ~(p <= MaxPrefix)
    <3>1. d + m < Len(l)
      BY <1>2, <1>4, <1>7
    <3> QED
      BY <1>15, <1>22, <2>2, <3>1 DEF LeafAt
  <2> QED
    BY <2>1, <2>2
<1>24. KeyAt(k, d + m, junk) = h
  BY <1>7, <1>15, <1>22 DEF KeyAt
<1>25. y = Pair(m, g, c, below, h, b)
  <2>1. below = [n EXCEPT !.plen = p - (m + 1), !.partial = q]
    BY <1>19 DEF WithPath
  <2>2. y = AddChild4(AddChild4(Node4(m, g), c, below), h, b)
    BY <1>1, <1>6, <1>11, <1>14, <1>22, <1>23, <1>24, <2>1, Zenon DEF SplitPath
  <2> QED
    BY <2>2 DEF Pair
<1>26. c \in Byte /\ h \in Byte /\ c # h
  <2>1. c \in Byte /\ h \in Byte
    BY <1>7, <1>12, <1>22
  <2>2. c # h
    BY <1>2, <1>5, <1>6, <1>15, <1>22
  <2> QED
    BY <2>1, <2>2
<1>27. (\A o \in L : o.key[d + m + 1] = c) /\ \A o \in {b} : o.key[d + m + 1] = h
  BY <1>12, <1>15, <1>17, <1>21, <1>22
<1>28. \A i \in 1 .. d + m : i \in 1 .. d + p
  BY <1>2, <1>4
<1>29. \A o \in L : \A i \in 1 .. d + m : k[i] = o.key[i]
  BY <1>5 DEF Common
<1>30. \A o, x \in L \cup {b} : \A i \in 1 .. d + m : o.key[i] = x.key[i]
  BY <1>2, <1>21, <1>28, <1>29
<1>31. \A o \in L \cup {b} : g = SubSeq(o.key, d + 1, d + Min({MaxPrefix, m}))
  <2>1. PICK t : t = Min({MaxPrefix, m})
    OBVIOUS
  <2>2. t \in Nat /\ t <= m /\ t <= s
    <3>1. t = IF MaxPrefix <= m THEN MaxPrefix ELSE m
      BY <1>4, <1>9, <2>1, MinTwo
    <3> QED
      BY <1>2, <1>4, <1>9, <3>1
  <2>3. g = SubSeq(l, d + 1, d + t)
    <3>1. 0 \in Nat /\ 0 + t <= s /\ 0 + 1 = 1 /\ 0 + t = t /\ d + 0 = d
      BY <1>2, <2>2
    <3>2. SubSeq(SubSeq(l, d + 1, d + s), 0 + 1, 0 + t) = SubSeq(l, (d + 0) + 1, (d + 0) + t)
      BY <1>2, <1>7, <1>9, <1>10, <2>2, <3>1, SlicePart
    <3> QED
      BY <1>10, <1>22, <2>1, <3>1, <3>2
  <2>4. ASSUME NEW o \in L \cup {b} PROVE SubSeq(l, d + 1, d + t) = SubSeq(o.key, d + 1, d + t)
    <3>1. o.key \in Key /\ d + m < Len(o.key)
      <4>1. CASE o \in L
        <5>1. o.key \in Key /\ d + p < Len(o.key)
          BY <1>2, <4>1
        <5>2. Len(o.key) \in Nat
          BY <5>1, KeyFacts
        <5> QED
          BY <1>2, <1>4, <5>1, <5>2
      <4>2. CASE o = b
        BY <1>7, <1>21, <4>2
      <4> QED
        BY <4>1, <4>2
    <3>2. o.key \in Seq(Byte) /\ Len(o.key) \in Nat
      BY <3>1, KeyFacts
    <3>3. \A i \in 1 .. d + m : l[i] = o.key[i]
      BY <1>2, <1>6, <1>30
    <3>4. d + t <= Len(l) /\ d + t <= Len(o.key) /\ \A i \in 1 .. d + t : i \in 1 .. d + m
      BY <1>2, <1>4, <1>7, <2>2, <3>1, <3>2
    <3>5. Common(l, o.key, d + t)
      BY <3>3, <3>4 DEF Common
    <3> QED
      <4>1. Alike(l, o.key, d, t)
        BY <1>2, <1>7, <2>2, <3>2, <3>5 DEF Alike
      <4>2. PartSame(l, o.key, d, t)
        BY <4>1, SamePart
      <4> QED
        BY <4>2 DEF PartSame
  <2> QED
    BY <2>1, <2>3, <2>4
<1>32. Good(below, d + m + 1, L) /\ Good(b, d + m + 1, {b})
  BY <1>15, <1>20, <1>21
<1>33. Good(y, d, L \cup {b})
  <2>1. Good(Pair(m, g, c, below, h, b), d, L \cup {b})
    BY <1>13, <1>26, <1>27, <1>30, <1>31, <1>32, PairGood
  <2> QED
    BY <1>25, <2>1
<1>34. \A o \in L : o.key # k
  BY <1>5
<1>35. Joins(y, WithPath(n, p - (m + 1), q), b)
  BY <1>19, <1>25, <1>26 DEF Joins
<1> QED
  BY <1>1, <1>33, <1>34, <1>35

(* What recursive_insert does at the end of its way.                       *)
Without(L, k) == {l \in L : l.key # k}

(* A tree with the new leaf stands where the way ends.                     *)
LEMMA InsertHereOK ==
  ASSUME NEW x, NEW L, Good(x.ref, x.depth, L), NEW k \in Key, NEW v, NEW junk \in Byte,
         InsertSlot(x, k, junk) = {}, \A l \in L : Common(k, l.key, x.depth),
         IsInner(x.ref) => Reads(x.ref, k, x.depth), NEW y, y = InsertHere(x, k, v, junk)
  PROVE  Good(y, x.depth, Without(L, k) \cup {Leaf(k, v)})
<1>1. PICK n, d, b : n = x.ref /\ d = x.depth /\ b = Leaf(k, v)
  OBVIOUS
<1>2. /\ Good(n, d, L) /\ d \in Nat /\ n.kind # "null" /\ (~IsLeaf(n) <=> IsInner(n)) /\ L # {}
      /\ (\A l \in L : Common(k, l.key, d)) /\ (IsInner(n) => Reads(n, k, d))
  BY <1>1, TreeFacts
<1>3. CASE IsLeaf(n)
  <2>1. L = {n} /\ n = Leaf(n.key, n.value)
    BY <1>2, <1>3, TreeFacts DEF Tip
  <2>2. CASE n.key = k
    <3>1. y = [n EXCEPT !.value = v]
      BY <1>1, <1>2, <1>3, <2>2 DEF InsertHere
    <3>2. n = Leaf(k, n.value)
      BY <2>1, <2>2
    <3>3. y = b
      BY <1>1, <3>1, <3>2 DEF Leaf
    <3>4. Without(L, k) = {}
      BY <2>1, <2>2 DEF Without
    <3>5. d <= Len(k)
      BY <1>2 DEF Common
    <3>6. Good(b, d, {b})
      BY <1>1, <1>2, <3>5, NewLeaf
    <3> QED
      BY <1>1, <3>3, <3>4, <3>6
  <2>3. CASE n.key # k
    <3>1. y = SplitLeaf(n, k, v, d, junk)
      BY <1>1, <1>2, <1>3, <2>3 DEF InsertHere
    <3>2. Common(k, n.key, d)
      BY <1>2, <2>1
    <3>3. Good(y, d, L \cup {b})
      BY <1>1, <1>2, <1>3, <2>3, <3>1, <3>2, SplitLeafGood
    <3>4. Without(L, k) = L
      BY <2>1, <2>3 DEF Without
    <3> QED
      BY <1>1, <3>3, <3>4
  <2> QED
    BY <2>2, <2>3
<1>4. CASE IsInner(n)
  <2>1. PICK m, p : m = PrefixMismatch(n, k, d) /\ p = n.plen
    OBVIOUS
  <2>2. \A l \in L : Parts(k, l.key, d, p, m)
    BY <1>2, <1>4, <2>1, MismatchInTree
  <2>3. m \in Nat /\ p \in Nat
    <3>1. p \in Nat
      BY <1>2, <1>4, <2>1, TreeFacts DEF Fork
    <3> QED
      BY <1>2, <2>2, <3>1 DEF Parts
  <2>4. CASE m < p
    <3>1. y = SplitPath(n, k, v, d, m, junk)
      BY <1>1, <1>2, <1>4, <2>1, <2>3, <2>4 DEF InsertHere
    <3>2. Good(y, d, L \cup {b}) /\ \A l \in L : l.key # k
      BY <1>1, <1>2, <1>4, <2>1, <2>4, <3>1, SplitPathGood
    <3>3. Without(L, k) = L
      BY <3>2 DEF Without
    <3> QED
      BY <1>1, <3>2, <3>3
  <2>5. CASE ~(m < p)
    <3>1. y = AddChild(n, KeyAt(k, d + p, junk), b)
      BY <1>1, <1>2, <1>4, <2>1, <2>5 DEF InsertHere
    <3>2. m >= p
      BY <2>3, <2>5
    <3>3. d + p < Len(k) /\ \A l \in L : Common(k, l.key, d + p)
      BY <1>2, <1>4, <2>1, <3>2, InsertPath
    <3>4. FindChild(n, KeyAt(k, d + p, junk)) = {}
      BY <1>1, <1>4, <2>1, <3>2 DEF InsertSlot
    <3>5. PICK c : c = KeyAt(k, d + p, junk)
      OBVIOUS
    <3>6. c = k[d + p + 1] /\ c \in Byte
      <4>1. k \in Seq(Byte) /\ d + p \in Nat
        BY <1>2, <2>3, KeyFacts
      <4> QED
        BY <3>3, <3>5, <4>1, KeyAtByte DEF KeyAt
    <3>7. Child(n, c) = Nil
      BY <3>4, <3>5 DEF Child
    <3>8. Good(y, d, L \cup {Leaf(k, v)}) /\ \A l \in L : l.key # k
      <4>1. y = AddChild(n, c, Leaf(k, v)) /\ c = k[d + n.plen + 1] /\ d + n.plen < Len(k)
            /\ \A l \in L : Common(k, l.key, d + n.plen)
        BY <1>1, <2>1, <3>1, <3>3, <3>5, <3>6
      <4> QED
        BY <1>2, <1>4, <3>6, <3>7, <4>1, AddGood
    <3>9. Without(L, k) = L
      BY <3>8 DEF Without
    <3> QED
      BY <1>1, <3>8, <3>9
  <2> QED
    BY <2>4, <2>5
<1> QED
  BY <1>2, <1>3, <1>4

-----------------------------------------------------------------------------
(* A change at the end of a way.                                           *)

(* The references of a way, when the last becomes y.                       *)
Renews(g, w, y) ==
  /\ g[Len(w)] = y
  /\ \A i \in 1 .. Len(w) - 1 : g[i] = Replaced(w[i].ref, w[i + 1].slot, g[i + 1])

(* Updated goes up a way.                                                  *)
LEMMA UpdatedIs ==
  ASSUME NEW w, NEW y, Len(w) \in Nat, 1 <= Len(w)
  PROVE  \E g : Renews(g, w, y) /\ Updated(w, y) = g[1]
<1>1. PICK m \in Nat : m = Len(w) /\ 1 <= m
  OBVIOUS
<1> DEFINE G(i, z) == Replaced(w[i].ref, w[i + 1].slot, z)
           Runs(j, f) == f = [i \in m - j .. m |-> IF i = m THEN y ELSE G(i, f[i + 1])]
           Full(f) == f = [i \in 1 .. Len(w) |-> IF i = Len(w) THEN y ELSE G(i, f[i + 1])]
           D == {j \in 0 .. m - 1 : \E f : Runs(j, f)}
<1>2. Updated(w, y) = (CHOOSE f : Full(f))[1]
  BY Zenon DEF Updated, Replaced
<1> HIDE DEF G
<1>3. 0 \in D
  <2>1. PICK f : f = [i \in m .. m |-> y]
    OBVIOUS
  <2>2. \A i \in m .. m : i = m
    OBVIOUS
  <2>3. m - 0 = m
    OBVIOUS
  <2>4. Runs(0, f)
    BY <2>1, <2>2, <2>3
  <2> QED
    BY <1>1, <2>4
<1>4. ASSUME NEW j \in D, j < m - 1 PROVE j + 1 \in D
  <2>1. PICK f : Runs(j, f)
    OBVIOUS
  <2>0. j \in 0 .. m - 1
    OBVIOUS
  <2>2. PICK h \in Nat : h = m - (j + 1)
    <3>1. m - (j + 1) \in Nat
      BY <1>1, <1>4, <2>0
    <3> QED
      BY <3>1
  <2>3. j + 1 \in 0 .. m - 1 /\ m - j = h + 1 /\ h < m /\ h + 1 <= m
    BY <1>1, <1>4, <2>0, <2>2
  <2>4. PICK x : x = G(h, f[h + 1])
    OBVIOUS
  <2>5. PICK g : g = [i \in h .. m |-> IF i = h THEN x ELSE f[i]]
    OBVIOUS
  <2>6. f = [i \in h + 1 .. m |-> IF i = m THEN y ELSE G(i, f[i + 1])]
    BY <2>1, <2>3
  <2>7. ASSUME NEW i \in h .. m
        PROVE  g[i] = IF i = m THEN y ELSE G(i, g[i + 1])
    <3>1. CASE i = h
      <4>1. i # m /\ h + 1 \in h .. m /\ h + 1 # h
        BY <2>3, <3>1
      <4>2. g[i] = x /\ g[h + 1] = f[h + 1]
        BY <2>5, <3>1, <4>1
      <4> QED
        BY <2>4, <3>1, <4>1, <4>2
    <3>2. CASE i # h /\ i = m
      <4>1. i \in h + 1 .. m
        BY <3>2
      <4>2. g[i] = f[i] /\ f[i] = y
        BY <2>5, <2>6, <3>2, <4>1
      <4> QED
        BY <3>2, <4>2
    <3>3. CASE i # h /\ i # m
      <4>1. i \in h + 1 .. m /\ i + 1 \in h .. m /\ i + 1 # h
        BY <3>3
      <4>2. f[i] = G(i, f[i + 1])
        BY <2>6, <3>3, <4>1
      <4>3. g[i] = f[i] /\ g[i + 1] = f[i + 1]
        BY <2>5, <3>3, <4>1
      <4> QED
        BY <3>3, <4>2, <4>3
    <3> QED
      BY <3>1, <3>2, <3>3
  <2>8. Runs(j + 1, g)
    <3>1. g = [i \in h .. m |-> IF i = m THEN y ELSE G(i, g[i + 1])]
      BY <2>5, <2>7
    <3> QED
      BY <2>2, <3>1, Zenon
  <2> HIDE DEF Runs
  <2> QED
    BY <2>3, <2>8
<1>5. D = 0 .. m - 1
  <2>1. D \in SUBSET (0 .. m - 1)
    OBVIOUS
  <2>2. PICK z \in Nat : z = m - 1
    BY <1>1
  <2> HIDE DEF D
  <2> QED
    BY <1>3, <1>4, <2>1, <2>2, Induction
<1>6. \E f : Full(f)
  <2>1. m - 1 \in D
    <3> HIDE DEF D
    <3> QED
      BY <1>1, <1>5
  <2>2. PICK f : Runs(m - 1, f)
    BY <2>1
  <2>3. m - (m - 1) = 1
    BY <1>1
  <2>4. Full(f)
    BY <1>1, <2>2, <2>3
  <2> HIDE DEF Full
  <2> QED
    BY <2>4
<1>7. PICK g : g = CHOOSE f : Full(f)
  OBVIOUS
<1>8. Full(g)
  <2> HIDE DEF Full
  <2> QED
    BY <1>6, <1>7, Zenon
<1>9. g[Len(w)] = y
  BY <1>1, <1>8
<1>10. ASSUME NEW i \in 1 .. Len(w) - 1 PROVE g[i] = G(i, g[i + 1])
  <2>1. i \in 1 .. Len(w) /\ i # Len(w)
    BY <1>1, <1>10
  <2> QED
    BY <1>8, <2>1
<1>11. Updated(w, y) = g[1]
  BY <1>2, <1>7
<1>12. Renews(g, w, y)
  BY <1>9, <1>10, Zenon DEF Renews, G
<1> QED
  BY <1>11, <1>12

(* The keys of the leaves K have the first z bytes of those of M.          *)
Stands(K, M, z) == \A a \in K, l \in M : \A i \in 1 .. z : a.key[i] = l.key[i]

(* A child is replaced by a tree in which the leaves K stand for the       *)
(* leaves M, with the same first bytes.                                    *)
LEMMA ReplaceGood ==
  ASSUME NEW n, NEW d, NEW L, Good(n, d, L), IsInner(n), NEW c \in Byte, NEW s \in FindChild(n, c),
         NEW z, z = d + n.plen + 1, NEW M, M \subseteq Share(L, c, z), M # {}, NEW K,
         Stands(K, M, z), NEW y, Good(y, z, (Share(L, c, z) \ M) \cup K),
         NEW u, u = Replaced(n, s, y)
  PROVE  Good(u, d, (L \ M) \cup K)
<1>1. PICK p, N, C : p = n.plen /\ N = (L \ M) \cup K /\ C = (Share(L, c, z) \ M) \cup K
  OBVIOUS
<1>2. /\ d \in Nat /\ p \in Nat /\ Fork(n, d, L) /\ Branches(n, d, L) /\ Shape(n) /\ Fit(n)
      /\ \A l \in L : l.key \in Key /\ d + p < Len(l.key)
      /\ \A l, o \in L : \A i \in 1 .. d + p : l.key[i] = o.key[i]
      /\ \A l \in L : n.partial = SubSeq(l.key, d + 1, d + Stored(n))
  BY <1>1, TreeFacts DEF Fork
<1>3. Good(y, z, C) /\ y # Nil /\ C # {} /\ \A a \in C : a.key \in Key /\ z <= Len(a.key)
  BY <1>1, TreeFacts
<1>4. /\ Shape(u) /\ u.plen = p /\ u.partial = n.partial /\ Fit(u)
      /\ \A b \in Byte : Child(u, b) = IF b = c THEN y ELSE Child(n, b)
  BY <1>1, <1>2, <1>3, ReplacedOK
<1>5. Stored(u) = Stored(n)
  BY <1>1, <1>4 DEF Stored
<1>6. PICK m \in M : m \in L /\ m.key[z] = c
  BY DEF Share
<1>7. z \in Nat /\ z = d + p + 1 /\ \A i \in 1 .. d + p : i \in 1 .. z /\ z \in 1 .. z
  BY <1>1, <1>2
<1>8. \A a \in K : a.key \in Key /\ z <= Len(a.key) /\ \A i \in 1 .. z : a.key[i] = m.key[i]
  BY <1>1, <1>3 DEF Stands
<1>9. \A a \in K : a.key[z] = c
  <2>1. z \in 1 .. z
    BY <1>2, <1>7
  <2> QED
    BY <1>6, <1>8, <2>1
<1>10. \A a \in N : \A i \in 1 .. d + p : a.key[i] = m.key[i]
  BY <1>1, <1>2, <1>6, <1>7, <1>8
<1>11. ASSUME NEW a \in N PROVE a.key \in Key /\ d + p < Len(a.key)
  <2>1. CASE a \in L
    BY <1>2, <2>1
  <2>2. CASE a \in K
    <3>1. a.key \in Key /\ z <= Len(a.key)
      BY <1>8, <2>2
    <3>2. Len(a.key) \in Nat
      BY <3>1, KeyFacts
    <3> QED
      BY <1>2, <1>7, <3>1, <3>2
  <2> QED
    BY <1>1, <2>1, <2>2
<1>12. PICK t \in Nat : t = Stored(n) /\ t <= p
  BY <1>1, <1>2, StoredIs
<1>13. ASSUME NEW a \in N PROVE u.partial = SubSeq(a.key, d + 1, d + Stored(u))
  <2>1. a.key \in Key /\ d + p < Len(a.key) /\ m.key \in Key /\ d + p < Len(m.key)
    BY <1>2, <1>6, <1>11
  <2>2. a.key \in Seq(Byte) /\ m.key \in Seq(Byte) /\ Len(a.key) \in Nat /\ Len(m.key) \in Nat
    BY <2>1, KeyFacts
  <2>3. d + t <= Len(a.key) /\ d + t <= Len(m.key) /\ \A i \in 1 .. d + t : i \in 1 .. d + p
    BY <1>2, <1>12, <2>1, <2>2
  <2>4. Common(a.key, m.key, d + t)
    BY <1>10, <2>3 DEF Common
  <2>5. SubSeq(a.key, d + 1, d + t) = SubSeq(m.key, d + 1, d + t)
    <3>1. Alike(a.key, m.key, d, t)
      BY <1>2, <1>12, <2>2, <2>4 DEF Alike
    <3>2. PartSame(a.key, m.key, d, t)
      BY <3>1, SamePart
    <3> QED
      BY <3>2 DEF PartSame
  <2>6. n.partial = SubSeq(m.key, d + 1, d + t)
    BY <1>2, <1>6, <1>12
  <2> QED
    BY <1>4, <1>5, <1>12, <2>5, <2>6
<1>14. N # {}
  BY <1>1, <1>3 DEF Share
<1>15. Fork(u, d, N)
  <2>1. \A a, b \in N : \A i \in 1 .. d + p : a.key[i] = b.key[i]
    BY <1>10
  <2> QED
    BY <1>2, <1>4, <1>11, <1>13, <1>14, <2>1 DEF Fork
<1>16. Share(N, c, z) = C
  BY <1>1, <1>9 DEF Share
<1>17. \A b \in Byte : b # c => Share(N, b, z) = Share(L, b, z)
  <2>1. \A l \in M : l.key[z] = c
    BY DEF Share
  <2> QED
    BY <1>1, <1>9, <2>1 DEF Share
<1>18. \A b \in Byte : IF Share(L, b, z) = {} THEN Child(n, b) = Nil ELSE Good(Child(n, b), z, Share(L, b, z))
  BY <1>1, <1>2, <1>7 DEF Branches
<1>19. \A b \in Byte : IF Share(N, b, z) = {} THEN Child(u, b) = Nil ELSE Good(Child(u, b), z, Share(N, b, z))
  <2> SUFFICES ASSUME NEW b \in Byte
               PROVE  IF Share(N, b, z) = {} THEN Child(u, b) = Nil ELSE Good(Child(u, b), z, Share(N, b, z))
    OBVIOUS
  <2>1. CASE b = c
    BY <1>3, <1>4, <1>16, <2>1
  <2>2. CASE b # c
    BY <1>4, <1>17, <1>18, <2>2
  <2> QED
    BY <2>1, <2>2
<1>20. Branches(u, d, N)
  BY <1>4, <1>7, <1>19 DEF Branches
<1>21. Good(u, d, N)
  BY <1>2, <1>15, <1>20, FoldFork
<1> QED
  BY <1>1, <1>21

(* The reference at the end of a way is replaced.                          *)
LEMMA UpdatedGood ==
  ASSUME NEW n, NEW L, NEW k \in Seq(Byte), NEW junk \in Byte, NEW w, NEW S, Chain(w, S, n, L, k, junk),
         NEW M, M = S[Len(w)], NEW K, NEW y, Good(y, Last(w).depth, K),
         Stands(K, M, Last(w).depth)
  PROVE  Good(Updated(w, y), 0, (L \ M) \cup K)
<1>1. PICK m \in Nat : m = Len(w) /\ 1 <= m
  BY ChainEnd
<1>2. Last(w) = w[m] /\ Good(w[m].ref, w[m].depth, M)
  BY <1>1, ChainEnd
<1>3. w[m].depth \in Nat /\ M # {}
  BY <1>2, TreeFacts
<1>4. PICK g : Renews(g, w, y) /\ Updated(w, y) = g[1]
  BY <1>1, UpdatedIs
<1> DEFINE P(j) == /\ w[j].depth <= w[m].depth /\ M \subseteq S[j]
                   /\ Good(g[j], w[j].depth, (S[j] \ M) \cup K)
           T == {i \in 0 .. m - 1 : P(m - i)}
<1>5. 0 \in T
  <2>1. m - 0 = m /\ 0 \in 0 .. m - 1
    BY <1>1
  <2>2. (S[m] \ M) \cup K = K
    BY <1>1
  <2>3. g[m] = y
    BY <1>1, <1>4 DEF Renews
  <2>4. P(m)
    <3>1. w[m].depth <= w[m].depth /\ M \subseteq S[m]
      BY <1>1, <1>3
    <3>2. Good(g[m], w[m].depth, (S[m] \ M) \cup K)
      BY <1>2, <2>2, <2>3, Zenon
    <3> QED
      BY <3>1, <3>2
  <2> HIDE DEF P
  <2> QED
    BY <2>1, <2>4
<1>6. ASSUME NEW j \in 1 .. m - 1, P(j + 1) PROVE P(j)
  <2>1. PICK x, b, A, B : x = w[j] /\ b = w[j + 1] /\ A = S[j] /\ B = S[j + 1]
    OBVIOUS
  <2>2. j \in 1 .. Len(w) - 1 /\ j \in 1 .. Len(w)
    BY <1>1
  <2>3. Chained(x, A, b, B, k, junk) /\ Good(x.ref, x.depth, A)
    BY <2>1, <2>2 DEF Chain
  <2>4. b.depth <= w[m].depth /\ M \subseteq B /\ Good(g[j + 1], b.depth, (B \ M) \cup K)
    BY <1>6, <2>1
  <2>5. PICK c, s : c = Ahead(x, k, junk) /\ s = b.slot
    OBVIOUS
  <2>6. IsInner(x.ref) /\ s \in FindChild(x.ref, c) /\ b.depth = x.depth + x.ref.plen + 1 /\ B = Share(A, c, b.depth)
    BY <2>3, <2>5 DEF Chained
  <2>7. x.depth \in Nat /\ x.ref.plen \in Nat
    BY <2>3, <2>6, TreeFacts DEF Fork
  <2>8. c \in Byte
    <3>1. PICK e \in Nat : e = x.depth + x.ref.plen
      BY <2>7
    <3>2. c = KeyAt(k, e, junk)
      BY <2>5, <3>1 DEF Ahead
    <3> QED
      BY <3>2, KeyAtByte
  <2>9. x.depth <= w[m].depth /\ \A i \in 1 .. b.depth : i \in 1 .. w[m].depth
    BY <1>3, <2>4, <2>6, <2>7, SMTT(30)
  <2>10. Stands(K, M, b.depth)
    BY <1>2, <2>9 DEF Stands
  <2>11. g[j] = Replaced(x.ref, s, g[j + 1])
    BY <1>4, <2>1, <2>2, <2>5 DEF Renews
  <2>12. M \subseteq A
    BY <2>4, <2>6 DEF Share
  <2>13. Good(g[j], x.depth, (A \ M) \cup K)
    <3>1. PICK h, f, z : h = g[j + 1] /\ f = g[j] /\ z = b.depth
      OBVIOUS
    <3>2. /\ z = x.depth + x.ref.plen + 1 /\ M \subseteq Share(A, c, z)
          /\ Good(h, z, (Share(A, c, z) \ M) \cup K) /\ f = Replaced(x.ref, s, h)
          /\ Stands(K, M, z)
      BY <2>4, <2>6, <2>10, <2>11, <3>1
    <3>3. PICK r, e : r = x.ref /\ e = x.depth
      OBVIOUS
    <3>4. /\ Good(r, e, A) /\ IsInner(r) /\ s \in FindChild(r, c)
          /\ z = e + r.plen + 1 /\ f = Replaced(r, s, h)
      BY <2>3, <2>6, <3>2, <3>3
    <3>5. Good(f, e, (A \ M) \cup K)
      BY <1>3, <2>8, <3>2, <3>4, ReplaceGood
    <3> QED
      BY <3>1, <3>3, <3>5
  <2> QED
    BY <2>1, <2>9, <2>12, <2>13
<1>7. ASSUME NEW i \in T, i < m - 1 PROVE i + 1 \in T
  <2>1. i \in 0 .. m - 1 /\ P(m - i)
    OBVIOUS
  <2> HIDE DEF P
  <2>2. PICK j \in 1 .. m - 1 : j = m - (i + 1) /\ j + 1 = m - i /\ i + 1 \in 0 .. m - 1
    <3>1. m - (i + 1) \in 1 .. m - 1 /\ (m - (i + 1)) + 1 = m - i /\ i + 1 \in 0 .. m - 1
      BY <1>1, <1>7, <2>1
    <3> QED
      BY <3>1
  <2>3. P(j)
    BY <1>6, <2>1, <2>2
  <2> QED
    BY <2>2, <2>3
<1>8. T = 0 .. m - 1
  <2>1. T \in SUBSET (0 .. m - 1)
    OBVIOUS
  <2>2. PICK z \in Nat : z = m - 1
    BY <1>1
  <2> HIDE DEF T
  <2> QED
    BY <1>5, <1>7, <2>1, <2>2, Induction
<1>9. P(1)
  <2>1. m - 1 \in 0 .. m - 1 /\ m - (m - 1) = 1
    BY <1>1
  <2>2. m - 1 \in T
    <3> HIDE DEF T
    <3> QED
      BY <1>8, <2>1
  <2> HIDE DEF P
  <2> QED
    BY <2>1, <2>2
<1>10. w[1].depth = 0 /\ S[1] = L
  BY <1>1 DEF Chain, Top
<1> QED
  BY <1>4, <1>9, <1>10

(* recursive_insert does not misread the key where it ends.                *)
Clear(n, k, junk) ==
  LET x == Last(InsertWay(n, k, junk)) IN IsInner(x.ref) => Reads(x.ref, k, x.depth)

(* recursive_insert of a key into a tree.                                  *)
LEMMA InsertOK ==
  ASSUME NEW n, NEW L, Good(n, 0, L), NEW k \in Key, NEW v, NEW junk \in Byte, Clear(n, k, junk)
  PROVE  Good(Insert(n, k, v, junk).ref, 0, Without(L, k) \cup {Leaf(k, v)})
<1>1. k \in Seq(Byte)
  BY KeyFacts
<1>2. PICK w : w = InsertWay(n, k, junk)
  OBVIOUS
<1>3. /\ \E S : Chain(w, S, n, L, k, junk)
      /\ InsertSlot(Last(w), k, junk) = {}
      /\ \A j \in 1 .. Len(w) - 1 : InsertSlot(w[j], k, junk) # {}
  <2>1. InsertEnds(w, n, L, k, junk)
    BY <1>1, <1>2, InsertWayOK
  <2> QED
    BY <2>1 DEF InsertEnds
<1>4. PICK S : Chain(w, S, n, L, k, junk)
  BY <1>3
<1>5. PICK x, M : x = Last(w) /\ M = S[Len(w)]
  OBVIOUS
<1>6. Len(w) \in 1 .. Len(w) /\ x = w[Len(w)] /\ Good(x.ref, x.depth, M)
  BY <1>4, <1>5, ChainEnd
<1>7. \A l \in M : Common(k, l.key, x.depth)
  <2>1. \A j \in 1 .. Len(w) : \A l \in S[j] : Common(k, l.key, w[j].depth)
    BY <1>3, <1>4, InsertAgrees
  <2> QED
    BY <1>5, <1>6, <2>1
<1>8. PICK y, K, b : y = InsertHere(x, k, v, junk) /\ K = Without(M, k) \cup {b} /\ b = Leaf(k, v)
  OBVIOUS
<1>9. Good(y, x.depth, K)
  <2>1. IsInner(x.ref) => Reads(x.ref, k, x.depth)
    BY <1>2, <1>5 DEF Clear
  <2> QED
    BY <1>3, <1>5, <1>6, <1>7, <1>8, <2>1, InsertHereOK
<1>10. Stands(K, M, x.depth)
  <2>1. \A a, l \in M : \A i \in 1 .. x.depth : a.key[i] = l.key[i]
    BY <1>6, TreeFacts
  <2>2. b.key = k
    BY <1>8 DEF Leaf
  <2>3. \A l \in M : \A i \in 1 .. x.depth : b.key[i] = l.key[i]
    BY <1>7, <2>2 DEF Common
  <2>4. \A a \in K : a \in M \/ a = b
    BY <1>8 DEF Without
  <2> QED
    BY <2>1, <2>3, <2>4 DEF Stands
<1>11. Good(Updated(w, y), 0, (L \ M) \cup K)
  BY <1>1, <1>4, <1>5, <1>9, <1>10, UpdatedGood
<1>12. M \subseteq L /\ \A l \in L : l.key = k => l \in M
  BY <1>4, <1>5, <1>6, LeafStays
<1>13. (L \ M) \cup K = Without(L, k) \cup {b}
  BY <1>8, <1>12 DEF Without
<1>14. Insert(n, k, v, junk).ref = Updated(w, y)
  BY <1>2, <1>5, <1>8 DEF Insert
<1> QED
  BY <1>8, <1>11, <1>13, <1>14

-----------------------------------------------------------------------------
(* recursive_delete.                                                       *)

Capped(s, p) == s = IF MaxPrefix <= p THEN MaxPrefix ELSE p
(* The path of a node, the byte of a child and its path, in a row.         *)
InRow(P, l, d, s, z, t) == P = SubSeq(l, d + 1, d + s) \o <<l[z]>> \o SubSeq(l, z + 1, z + t)

Appended(f, g, t) ==
  /\ t \in Seq(Byte) /\ Len(t) = Len(f) + Len(g)
  /\ \A i \in 1 .. Len(f) : t[i] = f[i]
  /\ \A i \in 1 .. Len(g) : t[Len(f) + i] = g[i]

(* One sequence of bytes after another.                                    *)
LEMMA AppendedIs ==
  ASSUME NEW f \in Seq(Byte), NEW g \in Seq(Byte)
  PROVE  Appended(f, g, f \o g)
BY Joined DEF Appended

Cropped(P) == SubSeq(P, 1, Min({MaxPrefix, Len(P)}))
Rows(P, l, d, p, r, z, s, t, e, h) ==
  /\ l \in Seq(Byte) /\ d \in Nat /\ p \in Nat /\ r \in Nat /\ z \in Nat /\ z = d + p + 1
  /\ z + r < Len(l) /\ s \in Nat /\ Capped(s, p) /\ t \in Nat /\ Capped(t, r)
  /\ e \in Nat /\ e = r + p + 1 /\ h \in Nat /\ Capped(h, e) /\ InRow(P, l, d, s, z, t)

(* What a node and its child store of their paths, with the byte between   *)
(* them, is what a node with both paths stores.                            *)
LEMMA JoinedPath ==
  ASSUME NEW P, NEW l, NEW d, NEW p, NEW r, NEW z, NEW s, NEW t, NEW e, NEW h,
         Rows(P, l, d, p, r, z, s, t, e, h)
  PROVE  Cropped(P) = SubSeq(l, d + 1, d + h)
<1>1. /\ l \in Seq(Byte) /\ d \in Nat /\ p \in Nat /\ r \in Nat /\ z \in Nat /\ z = d + p + 1
      /\ z + r < Len(l) /\ s \in Nat /\ Capped(s, p) /\ t \in Nat /\ Capped(t, r)
      /\ e \in Nat /\ e = r + p + 1 /\ h \in Nat /\ Capped(h, e) /\ InRow(P, l, d, s, z, t)
  BY DEF Rows
<1> USE <1>1
<1>2. MaxPrefix \in Nat /\ Len(l) \in Nat
  BY Sizes
<1>3. d + s <= Len(l) /\ z + t <= Len(l) /\ d + h <= Len(l) /\ z \in 1 .. Len(l)
  BY <1>2 DEF Capped
<1>4. PICK N : N = SubSeq(l, d + 1, d + s)
  OBVIOUS
<1>5. N \in Seq(Byte) /\ Len(N) = s /\ \A i \in 1 .. s : N[i] = l[d + i]
  <2>1. SliceOf(SubSeq(l, d + 1, d + s), l, d, s)
    BY <1>3, SliceIs
  <2> QED
    BY <1>4, <2>1 DEF SliceOf
<1>6. PICK X : X = SubSeq(l, z + 1, z + t)
  OBVIOUS
<1>7. X \in Seq(Byte) /\ Len(X) = t /\ \A i \in 1 .. t : X[i] = l[z + i]
  <2>1. SliceOf(SubSeq(l, z + 1, z + t), l, z, t)
    BY <1>3, SliceIs
  <2> QED
    BY <1>6, <2>1 DEF SliceOf
<1>8. PICK C : C = <<l[z]>>
  OBVIOUS
<1>9. C \in Seq(Byte) /\ Len(C) = 1 /\ C[1] = l[z] /\ 1 \in 1 .. Len(C)
  <2>1. l[z] \in Byte
    BY <1>3
  <2> QED
    BY <1>8, <2>1
<1>10. PICK A : A = N \o C
  OBVIOUS
<1>11. /\ A \in Seq(Byte) /\ Len(A) = s + 1
       /\ \A i \in 1 .. s : A[i] = N[i]
       /\ A[s + 1] = l[z]
  <2>1. Appended(N, C, A)
    BY <1>5, <1>9, <1>10, AppendedIs
  <2> QED
    BY <1>5, <1>9, <2>1 DEF Appended
<1>12. /\ P \in Seq(Byte) /\ Len(P) = s + 1 + t
       /\ \A i \in 1 .. s + 1 : P[i] = A[i]
       /\ \A i \in 1 .. t : P[s + 1 + i] = X[i]
  <2>1. P = A \o X
    BY <1>4, <1>6, <1>8, <1>10 DEF InRow
  <2>2. Appended(A, X, A \o X)
    BY <1>7, <1>11, AppendedIs
  <2>3. Appended(A, X, P)
    BY <2>1, <2>2
  <2> QED
    BY <1>7, <1>11, <2>3 DEF Appended
<1>13. PICK f : f = Min({MaxPrefix, Len(P)})
  OBVIOUS
<1>14. f = h
  <2>1. PICK y \in Nat : y = s + 1 + t
    OBVIOUS
  <2>2. f = IF MaxPrefix <= y THEN MaxPrefix ELSE y
    BY <1>2, <1>12, <1>13, <2>1, MinTwo
  <2> QED
    BY <1>2, <2>1, <2>2 DEF Capped
<1>15. h <= s + 1 + t /\ h <= MaxPrefix
  BY <1>2 DEF Capped
<1>16. PICK q : q = SubSeq(P, 1, f)
  OBVIOUS
<1>17. q \in Seq(Byte) /\ Len(q) = h /\ \A i \in 1 .. h : q[i] = P[i]
  <2>1. 0 \in Nat /\ 0 + h <= Len(P) /\ 0 + 1 = 1 /\ 0 + h = h /\ \A i \in 1 .. h : 0 + i = i
    BY <1>12, <1>15
  <2>2. q = SubSeq(P, 0 + 1, 0 + h)
    BY <1>14, <1>16, <2>1
  <2>3. q \in Seq(Byte) /\ Len(q) = h /\ \A i \in 1 .. h : q[i] = P[0 + i]
    BY <1>12, <2>1, <2>2, Slice
  <2> QED
    BY <2>1, <2>3
<1>18. ASSUME NEW i \in 1 .. h PROVE P[i] = l[d + i]
  <2>1. CASE i <= s
    <3>1. i \in 1 .. s /\ i \in 1 .. s + 1
      BY <2>1
    <3> QED
      BY <1>5, <1>11, <1>12, <3>1
  <2>2. CASE i = s + 1
    <3>1. s = p /\ i \in 1 .. s + 1
      BY <1>2, <1>15, <2>2 DEF Capped
    <3>2. d + i = z
      BY <2>2, <3>1
    <3> QED
      BY <1>11, <1>12, <2>2, <3>1, <3>2
  <2>3. CASE i > s + 1
    <3>1. s = p
      BY <1>2, <1>15, <2>3 DEF Capped
    <3>2. PICK j \in 1 .. t : j = i - (s + 1) /\ i = s + 1 + j
      <4>1. i - (s + 1) \in 1 .. t /\ i = s + 1 + (i - (s + 1))
        BY <1>15, <2>3
      <4> QED
        BY <4>1
    <3>3. d + i = z + j
      BY <3>1, <3>2
    <3>4. P[i] = X[j] /\ X[j] = l[z + j]
      BY <1>7, <1>12, <3>2
    <3> QED
      BY <3>3, <3>4
  <2> QED
    <3>1. i \in Nat
      OBVIOUS
    <3> QED
      BY <2>1, <2>2, <2>3, <3>1
<1>19. PICK o : o = SubSeq(l, d + 1, d + h)
  OBVIOUS
<1>20. o \in Seq(Byte) /\ Len(o) = h /\ \A i \in 1 .. h : o[i] = l[d + i]
  <2>1. SliceOf(SubSeq(l, d + 1, d + h), l, d, h)
    BY <1>3, SliceIs
  <2> QED
    BY <1>19, <2>1 DEF SliceOf
<1>21. \A i \in 1 .. h : q[i] = o[i]
  BY <1>17, <1>18, <1>20
<1>22. q = o
  BY <1>17, <1>20, <1>21
<1> QED
  BY <1>13, <1>16, <1>19, <1>22 DEF Cropped

(* The leaves of a node with one of two children left.                     *)
LEMMA MergedGood ==
  ASSUME NEW n, NEW d, NEW L, Good(n, d, L), IsInner(n), NEW c \in Byte, Child(n, c) # Nil,
         NEW x, x = Child(n, c), IsInner(x), NEW B, B = Share(L, c, d + n.plen + 1)
  PROVE  Good(Merged(n, c, x), d, B)
<1>1. d \in Nat /\ n.plen \in Nat
  BY TreeFacts DEF Fork
<1>2. PICK p \in Nat : p = n.plen
  BY <1>1
<1>3. PICK z \in Nat : z = d + p + 1
  BY <1>1
<1>4. Good(x, z, B)
  BY <1>2, <1>3, ChildOf
<1>5. Fork(x, z, B) /\ Branches(x, z, B) /\ x.plen \in Nat /\ Shape(x) /\ Fit(x)
  BY <1>4, TreeFacts, SMTT(30) DEF Fork
<1>6. PICK r \in Nat : r = x.plen
  BY <1>5
<1>7. \A l \in B : l \in L /\ l.key[z] = c
  BY <1>2, <1>3 DEF Share
<1>8. PICK s \in Nat : s = Stored(n) /\ Capped(s, p)
  BY <1>2, StoredIs DEF Capped
<1>9. PICK t \in Nat : t = Stored(x) /\ Capped(t, r)
  BY <1>6, StoredIs DEF Capped
<1>10. \A l \in B : /\ l.key \in Key /\ z + r < Len(l.key)
                     /\ n.partial = SubSeq(l.key, d + 1, d + s)
                     /\ x.partial = SubSeq(l.key, z + 1, z + t)
  <2>1. \A l \in L : n.partial = SubSeq(l.key, d + 1, d + Stored(n))
    BY TreeFacts DEF Fork
  <2>2. \A l \in B : /\ l.key \in Key /\ z + x.plen < Len(l.key)
                     /\ x.partial = SubSeq(l.key, z + 1, z + Stored(x))
    BY <1>5 DEF Fork
  <2> QED
    BY <1>6, <1>7, <1>8, <1>9, <2>1, <2>2
<1>11. PICK P, q : /\ P = n.partial \o <<c>> \o x.partial
                   /\ q = SubSeq(P, 1, Min({MaxPrefix, Len(P)}))
  OBVIOUS
<1>12. PICK g \in Nat : g = r + p + 1
  OBVIOUS
<1>13. PICK u : u = WithPath(x, g, q)
  OBVIOUS
<1>14. u = Merged(n, c, x)
  BY <1>2, <1>6, <1>11, <1>12, <1>13 DEF Merged
<1>15. Shape(u) /\ u.plen = g /\ u.partial = q /\ Fit(u) /\ \A b : Child(u, b) = Child(x, b)
  BY <1>5, <1>13, WithPathOK
<1>16. d + g = z + r /\ d + g + 1 = z + r + 1
  BY <1>1, <1>3, <1>12
<1>17. PICK h \in Nat : h = Stored(u) /\ Capped(h, g)
  BY <1>12, <1>15, StoredIs DEF Capped
<1>18. ASSUME NEW o \in B PROVE q = SubSeq(o.key, d + 1, d + h)
  <2>1. PICK l : l = o.key
    OBVIOUS
  <2>2. /\ l \in Key /\ z + r < Len(l) /\ l[z] = c
        /\ InRow(P, l, d, s, z, t)
    BY <1>7, <1>10, <1>11, <2>1 DEF InRow
  <2>3. l \in Seq(Byte)
    BY <2>2, KeyFacts
  <2>4. Cropped(P) = SubSeq(l, d + 1, d + h)
    <3>1. Rows(P, l, d, p, r, z, s, t, g, h)
      BY <1>1, <1>3, <1>8, <1>9, <1>12, <1>17, <2>2, <2>3 DEF Rows
    <3> QED
      BY <3>1, JoinedPath
  <2> QED
    BY <1>11, <2>1, <2>4 DEF Cropped
<1>19. Fork(u, d, B)
  <2>1. \A l \in B : l.key \in Key /\ d + u.plen < Len(l.key)
    BY <1>10, <1>15, <1>16
  <2>2. \A l, o \in B : \A i \in 1 .. d + u.plen : l.key[i] = o.key[i]
    BY <1>5, <1>6, <1>15, <1>16 DEF Fork
  <2>3. \A l \in B : u.partial = SubSeq(l.key, d + 1, d + Stored(u))
    BY <1>15, <1>17, <1>18
  <2>4. B # {}
    BY <1>5 DEF Fork
  <2> QED
    BY <1>12, <1>15, <2>1, <2>2, <2>3, <2>4 DEF Fork
<1>20. Branches(u, d, B)
  BY <1>5, <1>6, <1>15, <1>16 DEF Branches
<1>21. Good(u, d, B)
  BY <1>1, <1>19, <1>20, FoldFork
<1> QED
  BY <1>14, <1>21

(* A node that is left has a child.                                        *)
LEMMA SomeChild ==
  ASSUME NEW n, Shape(n), Fit(n)
  PROVE  \E c \in Byte : Child(n, c) # Nil
<1>1. Indexed(n) /\ n.kind \in Kind
  BY ShapeIndexed DEF Shape, Record
<1>2. Count(n) \in Nat /\ Count(n) # 0
  <2>1. Count(n) \in Nat
    BY <1>1 DEF Indexed
  <2> QED
    BY <1>1, <2>1, Sizes DEF Kind, Fit
<1>3. Used(n) # {}
  BY <1>2, FS_EmptySet DEF Count
<1>4. PICK s \in Used(n) : TRUE
  BY <1>3
<1>5. PICK c \in Byte : s \in FindChild(n, c)
  BY <1>1, <1>4 DEF Indexed
<1>6. Child(n, c) # Nil
  BY <1>1, <1>5 DEF Indexed
<1> QED
  BY <1>6

(* A leaf is taken out of a node ...                                       *)
LEMMA RemovedGood ==
  ASSUME NEW n, NEW d, NEW L, Good(n, d, L), IsInner(n), NEW c \in Byte,
         NEW a, a = Child(n, c), IsLeaf(a), Child(n, c) # Nil, NEW y, Removed(n, c, y)
  PROVE  Good(y, d, L \ {a})
<1>1. PICK p, K : p = n.plen /\ K = L \ {a}
  OBVIOUS
<1>2. d \in Nat /\ p \in Nat /\ Fork(n, d, L) /\ Branches(n, d, L)
  BY <1>1, TreeFacts DEF Fork
<1>3. PICK z \in Nat : z = d + p + 1
  BY <1>2
<1>4. Good(a, z, Share(L, c, z))
  BY <1>1, <1>3, ChildOf
<1>5. Share(L, c, z) = {a}
  BY <1>4, TreeFacts DEF Tip
<1>6. a \in L /\ a.key[z] = c
  BY <1>5 DEF Share
<1>7. Share(K, c, z) = {} /\ \A b \in Byte : b # c => Share(K, b, z) = Share(L, b, z)
  BY <1>1, <1>5, <1>6 DEF Share
<1>8. y.plen = p /\ y.partial = n.partial /\ Shape(y) /\ Fit(y)
      /\ \A b \in Byte : Child(y, b) = IF b = c THEN Nil ELSE Child(n, b)
  BY <1>1 DEF Removed
<1>9. K # {}
  <2>1. PICK b \in Byte : Child(y, b) # Nil
    BY <1>8, SomeChild
  <2>2. b # c /\ Child(n, b) # Nil
    BY <1>8, <2>1
  <2>3. Share(L, b, z) # {}
    BY <1>1, <1>3, <2>2, ChildOf
  <2> QED
    BY <1>7, <2>2, <2>3 DEF Share
<1>10. Stored(y) = Stored(n)
  BY <1>1, <1>8 DEF Stored
<1>11. Fork(y, d, K)
  <2>1. \A l \in K : l \in L
    BY <1>1
  <2> QED
    BY <1>1, <1>2, <1>8, <1>9, <1>10, <2>1 DEF Fork
<1>12. Branches(y, d, K)
  <2>1. \A b \in Byte : IF Share(L, b, z) = {} THEN Child(n, b) = Nil ELSE Good(Child(n, b), z, Share(L, b, z))
    BY <1>1, <1>2, <1>3 DEF Branches
  <2>2. \A b \in Byte : IF Share(K, b, z) = {} THEN Child(y, b) = Nil ELSE Good(Child(y, b), z, Share(K, b, z))
    BY <1>7, <1>8, <2>1
  <2> QED
    BY <1>3, <1>8, <2>2 DEF Branches
<1>13. Good(y, d, K)
  BY <1>2, <1>11, <1>12, FoldFork
<1> QED
  BY <1>1, <1>13

(* ... by remove_child.                                                    *)
LEMMA RemoveGood ==
  ASSUME NEW n, NEW d, NEW L, Good(n, d, L), IsInner(n), NEW c \in Byte,
         NEW a, a = Child(n, c), IsLeaf(a), Child(n, c) # Nil
  PROVE  Good(RemoveChild(n, c), d, L \ {a})
<1>1. d \in Nat /\ n.plen \in Nat /\ Shape(n) /\ Fit(n) /\ Fork(n, d, L) /\ Branches(n, d, L)
  BY TreeFacts DEF Fork
<1>2. CASE n.kind = "node4" => 2 < Count(n)
  <2>1. Removed(n, c, RemoveChild(n, c))
    BY <1>1, <1>2, RemoveChildOK
  <2> QED
    BY <2>1, RemovedGood
<1>3. CASE ~(n.kind = "node4" => 2 < Count(n))
  <2>1. n.kind = "node4" /\ Count(n) = 2
    <3>1. Count(n) \in Nat
      BY <1>1, ShapeIndexed DEF Indexed
    <3> QED
      BY <1>1, <1>3, <3>1 DEF Fit
  <2>2. PICK e \in Byte :
           /\ e # c /\ Child(n, e) # Nil /\ \A b \in Byte : b # c /\ b # e => Child(n, b) = Nil
           /\ IsLeaf(Child(n, e)) => RemoveChild(n, c) = Child(n, e)
           /\ ~IsLeaf(Child(n, e)) => RemoveChild(n, c) = Merged(n, e, Child(n, e))
    BY <1>1, <2>1, RemoveLastOK
  <2>3. PICK x, B : x = Child(n, e) /\ B = Share(L, e, d + n.plen + 1)
    OBVIOUS
  <2>4. Good(x, d + n.plen + 1, B)
    BY <2>2, <2>3, ChildOf
  <2>5. Good(a, d + n.plen + 1, Share(L, c, d + n.plen + 1))
    BY ChildOf
  <2>6. Share(L, c, d + n.plen + 1) = {a}
    BY <2>5, TreeFacts DEF Tip
  <2>7. PICK z \in Nat : z = d + n.plen + 1
    BY <1>1
  <2>8. \A b \in Byte : b # c /\ b # e => Share(L, b, z) = {}
    BY <2>2, <2>7, ChildOf
  <2>9. \A l \in L : l.key[z] \in Byte
    <3>1. \A l \in L : l.key \in Key /\ d + n.plen < Len(l.key)
      BY <1>1 DEF Fork
    <3>2. \A l \in L : Len(l.key) \in Nat /\ \A i \in 1 .. Len(l.key) : l.key[i] \in Byte
      BY <3>1, KeyFacts
    <3>3. \A l \in L : z \in 1 .. Len(l.key)
      BY <1>1, <2>7, <3>1, <3>2
    <3> QED
      BY <3>2, <3>3
  <2>10. L \ {a} = B
    <3>1. \A l \in L : l.key[z] = c => l = a
      BY <2>6, <2>7 DEF Share
    <3>2. \A l \in L : l.key[z] = c \/ l.key[z] = e
      BY <2>8, <2>9 DEF Share
    <3>3. a.key[z] = c
      BY <2>6, <2>7 DEF Share
    <3> QED
      BY <2>2, <2>3, <2>7, <3>1, <3>2, <3>3 DEF Share
  <2>11. CASE IsLeaf(x)
    <3>1. Tip(x, z, B)
      BY <2>4, <2>7, <2>11, TreeFacts
    <3>2. d <= z
      BY <1>1, <2>7
    <3>3. Len(x.key) \in Nat
      BY <3>1, KeyFacts DEF Tip
    <3>4. Tip(x, d, B)
      BY <1>1, <3>1, <3>2, <3>3 DEF Tip
    <3>5. Good(x, d, B)
      BY <1>1, <3>4, FoldTip
    <3> QED
      BY <2>2, <2>3, <2>10, <2>11, <3>5
  <2>12. CASE ~IsLeaf(x)
    <3>1. IsInner(x)
      BY <2>4, <2>12, TreeFacts
    <3>2. Good(Merged(n, e, x), d, B)
      BY <2>2, <2>3, <3>1, MergedGood
    <3> QED
      BY <2>2, <2>3, <2>10, <2>12, <3>2
  <2> QED
    BY <2>11, <2>12
<1> QED
  BY <1>2, <1>3

(* What recursive_delete does where it ends: the root is a leaf that goes, *)
(* or a tree stays without the key; the leaf it cuts off is that of the    *)
(* key.                                                                    *)
Deletes(x, M, k, junk, y) ==
  /\ Cut(x, k, junk) = Nil <=> \A l \in M : l.key # k
  /\ (IsLeaf(x.ref) /\ x.ref.key = k) => y = Nil /\ Without(M, k) = {}
  /\ ~(IsLeaf(x.ref) /\ x.ref.key = k) => Good(y, x.depth, Without(M, k))

(* The way of recursive_delete ends at a leaf ...                          *)
LEMMA DeleteHereLeaf ==
  ASSUME NEW x, NEW M, Good(x.ref, x.depth, M), NEW k, NEW junk, IsLeaf(x.ref)
  PROVE  Deletes(x, M, k, junk, DeleteHere(x, k, junk))
<1>1. PICK r, y : r = x.ref /\ y = DeleteHere(x, k, junk)
  OBVIOUS
<1>2. M = {r} /\ r # Nil
  BY <1>1, TreeFacts DEF Tip
<1>3. Cut(x, k, junk) = IF r.key = k THEN r ELSE Nil
  BY <1>1 DEF Cut
<1>4. CASE r.key = k
  <2>1. Cut(x, k, junk) # Nil
    BY <1>2, <1>3, <1>4
  <2>2. y = Nil
    BY <1>1, <2>1 DEF DeleteHere
  <2>3. Without(M, k) = {}
    BY <1>2, <1>4 DEF Without
  <2> QED
    BY <1>1, <1>2, <1>4, <2>1, <2>2, <2>3 DEF Deletes
<1>5. CASE r.key # k
  <2>1. Cut(x, k, junk) = Nil
    BY <1>3, <1>5
  <2>2. y = r
    BY <1>1, <2>1 DEF DeleteHere
  <2>3. Without(M, k) = M
    BY <1>2, <1>5 DEF Without
  <2> QED
    BY <1>1, <1>2, <1>5, <2>1, <2>2, <2>3 DEF Deletes
<1> QED
  BY <1>4, <1>5

(* ... or at a node, with the leaf to delete below it or with none.        *)
LEMMA DeleteHereInner ==
  ASSUME NEW x, NEW M, Good(x.ref, x.depth, M), NEW k \in Seq(Byte), NEW junk \in Byte,
         IsInner(x.ref), DeleteSlot(x, k, junk) = {}
  PROVE  Deletes(x, M, k, junk, DeleteHere(x, k, junk))
<1>1. PICK r, d : r = x.ref /\ d = x.depth
  OBVIOUS
<1>2. Good(r, d, M) /\ IsInner(r) /\ ~IsLeaf(r) /\ d \in Nat /\ r.plen \in Nat /\ Fork(r, d, M)
  BY <1>1, TreeFacts DEF Fork
<1>3. PICK e \in Nat : e = d + r.plen
  BY <1>2
<1>4. PICK c \in Byte : c = KeyAt(k, e, junk)
  BY <1>3, KeyAtByte
<1>5. PICK q : q = IF PathMatches(r, k, d) THEN Child(r, c) ELSE Nil
  OBVIOUS
<1>6. q = DeleteChild(x, k, junk)
  BY <1>1, <1>2, <1>3, <1>4, <1>5 DEF DeleteChild
<1>7. ~IsInner(Nil) /\ ~IsLeaf(Nil)
  BY DEF Nil, IsInner, IsLeaf
<1>8. ~IsInner(q)
  <2> SUFFICES ASSUME IsInner(q) PROVE FALSE
    OBVIOUS
  <2>1. FindChild(r, c) = {}
    BY <1>1, <1>3, <1>4, <1>6 DEF DeleteSlot
  <2>2. q = Child(r, c) /\ q # Nil
    BY <1>5, <1>7
  <2> QED
    BY <1>2, <2>1, <2>2, ChildOf
<1>9. q # Nil => q = Child(r, c) /\ IsLeaf(q) /\ Share(M, c, e + 1) = {q}
  <2> SUFFICES ASSUME q # Nil PROVE q = Child(r, c) /\ IsLeaf(q) /\ Share(M, c, e + 1) = {q}
    OBVIOUS
  <2>1. q = Child(r, c)
    BY <1>5
  <2>2. Good(q, d + r.plen + 1, Share(M, c, d + r.plen + 1))
    BY <1>2, <2>1, ChildOf
  <2>3. Good(q, e + 1, Share(M, c, e + 1))
    BY <1>3, <2>2
  <2> QED
    BY <1>8, <2>1, <2>3, TreeFacts DEF Tip
<1>10. ASSUME NEW l \in M, l.key = k PROVE l = q /\ q # Nil
  <2>1. PathMatches(r, k, d)
    BY <1>2, <1>10, CheckPrefixSame
  <2>2. e < Len(k)
    BY <1>2, <1>3, <1>10 DEF Fork
  <2>3. c = k[e + 1]
    BY <1>4, <2>2 DEF KeyAt
  <2>4. l \in Share(M, c, e + 1)
    BY <1>10, <2>3 DEF Share
  <2>5. Share(M, c, d + r.plen + 1) # {}
    BY <1>3, <2>4
  <2>6. Child(r, c) # Nil
    BY <1>2, <2>5, ChildOf
  <2> QED
    BY <1>5, <1>9, <2>1, <2>4, <2>6
<1>11. Cut(x, k, junk) = IF IsLeaf(q) /\ q.key = k THEN q ELSE Nil
  BY <1>1, <1>2, <1>6 DEF Cut
<1>12. CASE IsLeaf(q) /\ q.key = k
  <2>1. q # Nil /\ Cut(x, k, junk) # Nil
    BY <1>7, <1>11, <1>12
  <2>2. q = Child(r, c) /\ Child(r, c) # Nil /\ q \in M
    BY <1>9, <2>1 DEF Share
  <2>3. DeleteHere(x, k, junk) = RemoveChild(r, c)
    BY <1>1, <1>2, <1>3, <1>4, <2>1 DEF DeleteHere
  <2>4. Good(RemoveChild(r, c), d, M \ {q})
    BY <1>2, <1>12, <2>2, RemoveGood
  <2>5. M \ {q} = Without(M, k)
    BY <1>10, <1>12 DEF Without
  <2>6. ~(\A l \in M : l.key # k)
    BY <1>12, <2>2
  <2> QED
    BY <1>1, <1>2, <2>1, <2>3, <2>4, <2>5, <2>6 DEF Deletes
<1>13. CASE ~(IsLeaf(q) /\ q.key = k)
  <2>1. Cut(x, k, junk) = Nil
    BY <1>11, <1>13
  <2>2. \A l \in M : l.key # k
    BY <1>9, <1>10, <1>13
  <2>3. Without(M, k) = M
    BY <2>2 DEF Without
  <2>4. DeleteHere(x, k, junk) = r
    BY <1>1, <2>1 DEF DeleteHere
  <2> QED
    BY <1>1, <1>2, <2>1, <2>2, <2>3, <2>4 DEF Deletes
<1> QED
  BY <1>12, <1>13

(* recursive_delete goes on in inner nodes only.                           *)
LEMMA DeleteStaysInner ==
  ASSUME NEW n, NEW L, NEW k \in Seq(Byte), NEW junk \in Byte, NEW w, NEW S, Chain(w, S, n, L, k, junk),
         NEW j \in 1 .. Len(w) - 1, DeleteSlot(w[j], k, junk) # {}
  PROVE  IsInner(w[j + 1].ref)
<1>1. PICK x, y, K, M : x = w[j] /\ y = w[j + 1] /\ K = S[j] /\ M = S[j + 1]
  OBVIOUS
<1>2. Len(w) \in Nat /\ j \in 1 .. Len(w)
  BY ChainEnd
<1>3. Good(x.ref, x.depth, K) /\ Chained(x, K, y, M, k, junk)
  BY <1>1, <1>2 DEF Chain
<1>4. PICK r, d, c : r = x.ref /\ d = x.depth /\ c = Ahead(x, k, junk)
  OBVIOUS
<1>5. Good(r, d, K) /\ IsInner(r) /\ y.slot \in FindChild(r, c) /\ y.ref = r.children[y.slot]
  BY <1>3, <1>4 DEF Chained
<1>6. c \in Byte
  <2>1. d \in Nat /\ r.plen \in Nat
    BY <1>5, TreeFacts DEF Fork
  <2>2. d + r.plen \in Nat
    BY <2>1
  <2> QED
    BY <1>4, <2>2, KeyAtByte DEF Ahead
<1>7. y.ref = Child(r, c)
  BY <1>5, <1>6, GoodChild
<1>8. IsInner(DeleteChild(x, k, junk))
  BY <1>1 DEF DeleteSlot
<1>9. ~IsInner(Nil)
  BY DEF Nil, IsInner
<1>10. DeleteChild(x, k, junk) = Child(r, c)
  BY <1>4, <1>8, <1>9 DEF DeleteChild, Ahead
<1> QED
  BY <1>1, <1>7, <1>8, <1>10

(* recursive_delete of a key from a tree.                                  *)
LEMMA DeleteOK ==
  ASSUME NEW n, NEW L, Good(n, 0, L), NEW k \in Seq(Byte), NEW junk \in Byte
  PROVE  /\ \/ Good(Delete(n, k, junk).ref, 0, Without(L, k))
            \/ Delete(n, k, junk).ref = Nil /\ Without(L, k) = {}
         /\ Delete(n, k, junk).leaf = Nil <=> \A l \in L : l.key # k
<1>2. PICK w : w = DeleteWay(n, k, junk)
  OBVIOUS
<1>3. /\ \E S : Chain(w, S, n, L, k, junk)
      /\ DeleteSlot(Last(w), k, junk) = {}
      /\ \A j \in 1 .. Len(w) - 1 : DeleteSlot(w[j], k, junk) # {}
  <2>1. DeleteEnds(w, n, L, k, junk)
    BY <1>2, DeleteWayOK
  <2> QED
    BY <2>1 DEF DeleteEnds
<1>4. PICK S : Chain(w, S, n, L, k, junk)
  BY <1>3
<1>5. PICK x, M : x = Last(w) /\ M = S[Len(w)]
  OBVIOUS
<1>6. Len(w) \in 1 .. Len(w) /\ x = w[Len(w)] /\ Good(x.ref, x.depth, M) /\ Len(w) \in Nat /\ 1 <= Len(w)
  BY <1>4, <1>5, ChainEnd
<1>7. PICK y : y = DeleteHere(x, k, junk)
  OBVIOUS
<1>8. Deletes(x, M, k, junk, y)
  <2>1. DeleteSlot(x, k, junk) = {} /\ (IsLeaf(x.ref) \/ IsInner(x.ref))
    BY <1>3, <1>5, <1>6, TreeFacts
  <2> QED
    BY <1>6, <1>7, <2>1, DeleteHereLeaf, DeleteHereInner
<1>9. M \subseteq L /\ \A l \in L : l.key = k => l \in M
  BY <1>4, <1>5, <1>6, LeafStays
<1>10. Delete(n, k, junk).ref = Updated(w, y) /\ Delete(n, k, junk).leaf = Cut(x, k, junk)
  BY <1>2, <1>5, <1>7 DEF Delete
<1>11. Delete(n, k, junk).leaf = Nil <=> \A l \in L : l.key # k
  BY <1>8, <1>9, <1>10 DEF Deletes
<1>12. CASE ~(IsLeaf(x.ref) /\ x.ref.key = k)
  <2>1. PICK K : K = Without(M, k)
    OBVIOUS
  <2>2. Good(y, x.depth, K)
    BY <1>8, <1>12, <2>1 DEF Deletes
  <2>3. Stands(K, M, x.depth)
    <3>1. \A a, l \in M : \A i \in 1 .. x.depth : a.key[i] = l.key[i]
      BY <1>6, TreeFacts
    <3>2. \A a \in K : a \in M
      BY <2>1 DEF Without
    <3> QED
      BY <3>1, <3>2 DEF Stands
  <2>4. Good(Updated(w, y), 0, (L \ M) \cup K)
    BY <1>4, <1>5, <2>2, <2>3, UpdatedGood
  <2>5. (L \ M) \cup K = Without(L, k)
    BY <1>9, <2>1 DEF Without
  <2> QED
    BY <1>10, <1>11, <2>4, <2>5
<1>13. CASE IsLeaf(x.ref) /\ x.ref.key = k
  <2>1. y = Nil /\ Without(M, k) = {}
    BY <1>8, <1>13 DEF Deletes
  <2>2. Len(w) = 1
    <3> SUFFICES ASSUME Len(w) # 1 PROVE FALSE
      OBVIOUS
    <3>1. PICK j \in 1 .. Len(w) - 1 : j + 1 = Len(w)
      <4>1. PICK m \in Nat : m = Len(w) /\ 1 <= m /\ m # 1
        BY <1>6
      <4>2. m - 1 \in 1 .. m - 1 /\ (m - 1) + 1 = m
        BY <4>1
      <4> QED
        BY <4>1, <4>2
    <3>2. IsInner(w[j + 1].ref)
      BY <1>3, <1>4, <3>1, DeleteStaysInner
    <3>3. IsInner(x.ref)
      BY <1>6, <3>1, <3>2
    <3> QED
      BY <1>6, <1>13, <3>3, TreeFacts
  <2>3. M = L
    BY <1>4, <1>5, <2>2 DEF Chain
  <2>4. PICK g : Renews(g, w, y) /\ Updated(w, y) = g[1]
    BY <1>6, UpdatedIs
  <2>5. Updated(w, y) = y
    BY <2>2, <2>4 DEF Renews
  <2> QED
    BY <1>10, <1>11, <2>1, <2>3, <2>5
<1> QED
  BY <1>12, <1>13

-----------------------------------------------------------------------------
(* The nodes and leaves of a tree.                                         *)

(* Induction over the steps of a loop.                                     *)
LEMMA StepInduction ==
  ASSUME NEW T, 0 \in T, \A i \in T : i \in Steps /\ i < MaxLen => i + 1 \in T
  PROVE  \A i \in Steps : i \in T
<1>1. MaxLen \in Nat
  BY Sizes
<1>2. PICK D : D = T \cap (0 .. MaxLen)
  OBVIOUS
<1>3. D \in SUBSET (0 .. MaxLen) /\ 0 \in D
  BY <1>1, <1>2
<1>4. \A i \in D : i < MaxLen => i + 1 \in D
  BY <1>1, <1>2 DEF Steps
<1>5. D = 0 .. MaxLen
  BY <1>1, <1>3, <1>4, Induction
<1> QED
  BY <1>2, <1>5 DEF Steps

(* A loop that starts and stays in a state.                                *)
LEMMA StaysSo ==
  ASSUME NEW f, NEW a, f[0] = a, \A i \in Steps : i < MaxLen /\ f[i] = a => f[i + 1] = a
  PROVE  f[MaxLen] = a
<1>1. PICK T : T = {i \in Steps : f[i] = a}
  OBVIOUS
<1>2. MaxLen \in Steps /\ 0 \in Steps /\ \A i \in Steps : i < MaxLen => i + 1 \in Steps
  BY Sizes DEF Steps
<1>3. 0 \in T /\ \A i \in T : i \in Steps /\ i < MaxLen => i + 1 \in T
  BY <1>1, <1>2
<1>4. \A i \in Steps : i \in T
  BY <1>3, StepInduction
<1> QED
  BY <1>1, <1>2, <1>4

(* The place of the root of an empty tree.                                 *)
LEMMA NilTop ==
  /\ Last(<<Top(Nil)>>) = Top(Nil) /\ Top(Nil).ref = Nil
  /\ ~IsInner(Nil) /\ ~IsLeaf(Nil) /\ Nil.kind = "null"
  /\ \A w : Longer(w, {}) = w
<1>1. Len(<<Top(Nil)>>) = 1 /\ <<Top(Nil)>>[1] = Top(Nil)
  OBVIOUS
<1>2. Last(<<Top(Nil)>>) = Top(Nil)
  BY <1>1 DEF Last
<1>3. Top(Nil).ref = Nil
  BY DEF Top
<1>4. ~IsInner(Nil) /\ ~IsLeaf(Nil) /\ Nil.kind = "null"
  BY DEF Nil, IsInner, IsLeaf
<1>5. \A w : Longer(w, {}) = w
  BY DEF Longer
<1> QED
  BY <1>2, <1>3, <1>4, <1>5

(* A reference that is the root is updated.                                *)
LEMMA UpdatedTop ==
  ASSUME NEW n, NEW y
  PROVE  Updated(<<Top(n)>>, y) = y
<1>1. PICK w : w = <<Top(n)>>
  OBVIOUS
<1>2. Len(w) = 1
  BY <1>1
<1>3. PICK g : Renews(g, w, y) /\ Updated(w, y) = g[1]
  BY <1>2, UpdatedIs
<1> QED
  BY <1>1, <1>2, <1>3 DEF Renews

(* art_search of an empty tree stays at the root.                         *)
LEMMA SearchNil ==
  ASSUME NEW k, NEW junk
  PROVE  SearchWay(Nil, k, junk) = <<Top(Nil)>>
<1>1. PICK f : SearchRun(f, Nil, k, junk)
  BY SearchWayIs
<1>2. PICK a : a = <<Top(Nil)>>
  OBVIOUS
<1>3. SearchSlot(Top(Nil), k, junk) = {}
  BY NilTop DEF SearchSlot
<1>4. Longer(a, SearchSlot(Last(a), k, junk)) = a
  BY <1>2, <1>3, NilTop
<1>5. \A i \in Steps : i < MaxLen /\ f[i] = a => f[i + 1] = a
  BY <1>1, <1>4 DEF SearchRun
<1>6. f[0] = a /\ SearchWay(Nil, k, junk) = f[MaxLen]
  BY <1>1, <1>2 DEF SearchRun
<1> QED
  BY <1>2, <1>5, <1>6, StaysSo

(* recursive_insert of an empty tree stays at the root.                   *)
LEMMA InsertNil ==
  ASSUME NEW k, NEW junk
  PROVE  InsertWay(Nil, k, junk) = <<Top(Nil)>>
<1>1. PICK f : InsertRun(f, Nil, k, junk)
  BY InsertWayIs
<1>2. PICK a : a = <<Top(Nil)>>
  OBVIOUS
<1>3. InsertSlot(Top(Nil), k, junk) = {}
  BY NilTop DEF InsertSlot
<1>4. Longer(a, InsertSlot(Last(a), k, junk)) = a
  BY <1>2, <1>3, NilTop
<1>5. \A i \in Steps : i < MaxLen /\ f[i] = a => f[i + 1] = a
  BY <1>1, <1>4 DEF InsertRun
<1>6. f[0] = a /\ InsertWay(Nil, k, junk) = f[MaxLen]
  BY <1>1, <1>2 DEF InsertRun
<1> QED
  BY <1>2, <1>5, <1>6, StaysSo

(* recursive_delete of an empty tree stays at the root.                   *)
LEMMA DeleteNil ==
  ASSUME NEW k, NEW junk
  PROVE  DeleteWay(Nil, k, junk) = <<Top(Nil)>>
<1>1. PICK f : DeleteRun(f, Nil, k, junk)
  BY DeleteWayIs
<1>2. PICK a : a = <<Top(Nil)>>
  OBVIOUS
<1>3. DeleteSlot(Top(Nil), k, junk) = {}
  BY NilTop DEF DeleteSlot, DeleteChild
<1>4. Longer(a, DeleteSlot(Last(a), k, junk)) = a
  BY <1>2, <1>3, NilTop
<1>5. \A i \in Steps : i < MaxLen /\ f[i] = a => f[i + 1] = a
  BY <1>1, <1>4 DEF DeleteRun
<1>6. f[0] = a /\ DeleteWay(Nil, k, junk) = f[MaxLen]
  BY <1>1, <1>2 DEF DeleteRun
<1> QED
  BY <1>2, <1>5, <1>6, StaysSo

(* What the functions do with an empty tree.                               *)
LEMMA NilOK ==
  ASSUME NEW k, NEW v, NEW junk
  PROVE  /\ Search(Nil, k, junk) = NULL
         /\ Insert(Nil, k, v, junk).ref = Leaf(k, v)
         /\ Delete(Nil, k, junk).ref = Nil
<1>1. PICK x : x = Top(Nil)
  OBVIOUS
<1>2. Last(<<x>>) = x /\ x.ref = Nil /\ ~IsInner(Nil) /\ ~IsLeaf(Nil) /\ Nil.kind = "null"
  BY <1>1, NilTop
<1>3. Search(Nil, k, junk) = NULL
  BY <1>1, <1>2, SearchNil DEF Search
<1>4. InsertHere(x, k, v, junk) = Leaf(k, v)
  BY <1>2 DEF InsertHere
<1>5. Insert(Nil, k, v, junk).ref = Updated(<<x>>, Leaf(k, v))
  BY <1>1, <1>2, <1>4, InsertNil DEF Insert
<1>6. DeleteChild(x, k, junk) = Nil
  BY <1>2 DEF DeleteChild
<1>7. Cut(x, k, junk) = Nil
  BY <1>2, <1>6 DEF Cut
<1>8. DeleteHere(x, k, junk) = Nil
  BY <1>2, <1>7 DEF DeleteHere
<1>9. Delete(Nil, k, junk).ref = Updated(<<x>>, Nil)
  BY <1>1, <1>2, <1>8, DeleteNil DEF Delete
<1> QED
  BY <1>1, <1>3, <1>5, <1>9, UpdatedTop

InnerRun(f, n) ==
  /\ DOMAIN f = Steps /\ f[0] = (IF IsInner(n) THEN {[Top(n) EXCEPT !.depth = 0]} ELSE {})
  /\ \A i \in Steps : i < MaxLen => f[i + 1] = WithBelow(f[i])
  /\ Inner(n, 0) = f[MaxLen]

(* The nodes of a tree, step by step.                                     *)
LEMMA InnerIs ==
  ASSUME NEW n
  PROVE  \E f : InnerRun(f, n)
<1> DEFINE G(x) == WithBelow(x)
           A == (IF IsInner(n) THEN {[Top(n) EXCEPT !.depth = 0]} ELSE {})
           Runs(m, f) == f = [i \in 0 .. m |-> IF i = 0 THEN A ELSE G(f[i - 1])]
           D == {m \in 0 .. MaxLen : \E f : Runs(m, f)}
<1>1. MaxLen \in Nat
  BY Sizes
<1>2. Inner(n, 0) = (CHOOSE f : Runs(MaxLen, f))[MaxLen]
  BY Zenon DEF Inner, Steps
<1> HIDE DEF G, A
<1>3. 0 \in D
  <2>1. PICK f : f = [i \in 0 .. 0 |-> A]
    OBVIOUS
  <2>2. \A i \in 0 .. 0 : i = 0
    OBVIOUS
  <2>3. Runs(0, f)
    BY <2>1, <2>2
  <2> QED
    BY <1>1, <2>3
<1>4. ASSUME NEW m \in D, m < MaxLen PROVE m + 1 \in D
  <2>1. PICK f : Runs(m, f)
    OBVIOUS
  <2>2. m + 1 \in 0 .. MaxLen /\ m \in Nat
    BY <1>1, <1>4
  <2>3. PICK x : x = G(f[m])
    OBVIOUS
  <2>4. PICK g : g = [i \in 0 .. m + 1 |-> IF i = m + 1 THEN x ELSE f[i]]
    OBVIOUS
  <2>5. ASSUME NEW i \in 0 .. m + 1
        PROVE  g[i] = IF i = 0 THEN A ELSE G(g[i - 1])
    <3>1. CASE i = m + 1
      <4>1. g[i] = x /\ i # 0 /\ i - 1 = m /\ i - 1 \in 0 .. m + 1 /\ i - 1 # m + 1
        BY <2>2, <2>4, <3>1
      <4>2. g[i - 1] = f[m]
        BY <2>4, <4>1
      <4> QED
        BY <2>3, <3>1, <4>1, <4>2
    <3>2. CASE i = 0
      <4>1. i \in 0 .. m /\ i # m + 1
        BY <2>2, <3>2
      <4> QED
        BY <2>1, <2>4, <3>2, <4>1
    <3>3. CASE i # m + 1 /\ i # 0
      <4>1. i \in 0 .. m /\ i - 1 \in 0 .. m + 1 /\ i - 1 # m + 1
        BY <2>2, <3>3
      <4>2. f[i] = G(f[i - 1])
        BY <2>1, <3>3, <4>1
      <4>3. g[i] = f[i] /\ g[i - 1] = f[i - 1]
        BY <2>4, <3>3, <4>1
      <4> QED
        BY <3>3, <4>2, <4>3
    <3> QED
      BY <3>1, <3>2, <3>3
  <2>6. Runs(m + 1, g)
    BY <2>4, <2>5
  <2> HIDE DEF Runs
  <2> QED
    BY <2>2, <2>6
<1>5. D = 0 .. MaxLen
  <2>1. D \in SUBSET (0 .. MaxLen)
    OBVIOUS
  <2> HIDE DEF D
  <2> QED
    BY <1>1, <1>3, <1>4, <2>1, Induction
<1>6. \E f : Runs(MaxLen, f)
  <2>1. MaxLen \in D
    <3> HIDE DEF D
    <3> QED
      BY <1>1, <1>5
  <2> HIDE DEF Runs
  <2> QED
    BY <2>1
<1>7. PICK s : s = CHOOSE f : Runs(MaxLen, f)
  OBVIOUS
<1>8. Runs(MaxLen, s)
  <2> HIDE DEF Runs
  <2> QED
    BY <1>6, <1>7, Zenon
<1>9. s[0] = A /\ DOMAIN s = Steps
  BY <1>1, <1>8 DEF Steps
<1>10. ASSUME NEW i \in Steps, i < MaxLen PROVE s[i + 1] = G(s[i])
  <2>1. i + 1 \in 0 .. MaxLen /\ i + 1 # 0 /\ (i + 1) - 1 = i
    BY <1>1, <1>10 DEF Steps
  <2> QED
    BY <1>8, <2>1
<1>11. Inner(n, 0) = s[MaxLen]
  BY <1>2, <1>7
<1>12. \A i \in Steps : i < MaxLen => s[i + 1] = G(s[i])
  BY <1>10
<1> QED
  BY <1>9, <1>11, <1>12, Zenon DEF G, A, InnerRun

(* The start.                                                              *)
LEMMA InnerStart ==
  ASSUME NEW n, NEW f, InnerRun(f, n)
  PROVE  /\ f[0] = IF IsInner(n) THEN {Top(n)} ELSE {}
         /\ Top(n).ref = n /\ Top(n).depth = 0
<1>1. [Top(n) EXCEPT !.depth = 0] = Top(n)
  BY DEF Top
<1>2. Top(n).ref = n /\ Top(n).depth = 0
  BY DEF Top
<1> QED
  BY <1>1, <1>2 DEF InnerRun

(* A step from one node to a child.                                        *)
LEMMA BelowIs ==
  ASSUME NEW x, NEW s
  PROVE  Below(x, s).ref = x.ref.children[s] /\ Below(x, s).depth = x.depth + x.ref.plen + 1
BY DEF Below

(* Where there are no inner nodes.                                         *)
LEMMA NoInner ==
  ASSUME NEW n, ~IsInner(n)
  PROVE  Inner(n, 0) = {} /\ Leaves(n) = {l \in {n} : IsLeaf(l)}
<1>1. PICK f : InnerRun(f, n)
  BY InnerIs
<1>2. f[0] = {} /\ WithBelow({}) = {} /\ Inner(n, 0) = f[MaxLen]
  BY <1>1 DEF InnerRun, WithBelow
<1>3. \A i \in Steps : i < MaxLen /\ f[i] = {} => f[i + 1] = {}
  BY <1>1, <1>2 DEF InnerRun
<1>4. Inner(n, 0) = {}
  BY <1>2, <1>3, StaysSo
<1>5. Leaves(n) = {l \in {n} : IsLeaf(l)}
  BY <1>4 DEF Leaves
<1> QED
  BY <1>4, <1>5

(* An inner node below a tree at depth d is a tree, with some of the       *)
(* leaves.                                                                 *)
Part(x, d, L) ==
  x.depth \in Nat /\ IsInner(x.ref) /\ \E M : M \subseteq L /\ Good(x.ref, d + x.depth, M)

(* A child of it, in a slot that is in use.                                *)
LEMMA UsedChild ==
  ASSUME NEW n, NEW d, NEW L, Good(n, d, L), IsInner(n), NEW s \in Used(n)
  PROVE  \E M : M \subseteq L /\ Good(n.children[s], d + n.plen + 1, M)
<1>1. Indexed(n)
  BY TreeFacts, ShapeIndexed DEF Fork
<1>2. PICK c \in Byte : s \in FindChild(n, c)
  BY <1>1 DEF Indexed
<1>3. Good(n.children[s], d + n.plen + 1, Share(L, c, d + n.plen + 1))
  BY <1>2, GoodChild
<1>4. Share(L, c, d + n.plen + 1) \subseteq L
  BY DEF Share
<1> QED
  BY <1>3, <1>4

(* A child that is a node is part of the tree as well.                     *)
LEMMA PartBelow ==
  ASSUME NEW d \in Nat, NEW L, NEW x, Part(x, d, L), NEW s \in Used(x.ref), IsInner(x.ref.children[s])
  PROVE  Part(Below(x, s), d, L)
<1>1. PICK n, e : n = x.ref /\ e = x.depth
  OBVIOUS
<1>2. PICK M : M \subseteq L /\ Good(n, d + e, M)
  BY <1>1 DEF Part
<1>3. e \in Nat /\ IsInner(n) /\ n.plen \in Nat /\ IsInner(n.children[s]) /\ s \in Used(n)
  BY <1>1, <1>2, TreeFacts DEF Fork, Part
<1>4. PICK K : K \subseteq M /\ Good(n.children[s], (d + e) + n.plen + 1, K)
  BY <1>2, <1>3, UsedChild
<1>5. PICK g \in Nat : g = e + n.plen + 1
  BY <1>3
<1>6. (d + e) + n.plen + 1 = d + g
  BY <1>3, <1>5
<1>7. Below(x, s).ref = n.children[s] /\ Below(x, s).depth = g
  BY <1>1, <1>5, BelowIs
<1>8. Good(n.children[s], d + g, K) /\ K \subseteq L
  BY <1>2, <1>4, <1>6
<1> QED
  BY <1>3, <1>5, <1>7, <1>8 DEF Part

(* All nodes of a tree, at each step.                                      *)
LEMMA InnerParts ==
  ASSUME NEW n, NEW d, NEW L, Good(n, d, L), NEW f, InnerRun(f, n)
  PROVE  \A i \in Steps : \A x \in f[i] : Part(x, d, L)
<1>1. d \in Nat
  BY TreeFacts
<1>2. PICK T : T = {i \in Steps : \A x \in f[i] : Part(x, d, L)}
  OBVIOUS
<1>3. \A x \in f[0] : Part(x, d, L)
  <2> SUFFICES ASSUME NEW x \in f[0] PROVE Part(x, d, L)
    OBVIOUS
  <2>1. IsInner(n) /\ x.ref = n /\ x.depth = 0
    <3>1. f[0] = (IF IsInner(n) THEN {Top(n)} ELSE {}) /\ Top(n).ref = n /\ Top(n).depth = 0
      BY InnerStart
    <3>2. IsInner(n)
      BY <3>1
    <3>3. x = Top(n)
      BY <3>1, <3>2
    <3> QED
      BY <3>1, <3>2, <3>3
  <2>2. d + 0 = d
    BY <1>1
  <2> QED
    BY <2>1, <2>2 DEF Part
<1>4. ASSUME NEW i \in T, i < MaxLen PROVE \A x \in f[i + 1] : Part(x, d, L)
  <2> SUFFICES ASSUME NEW x \in f[i + 1] PROVE Part(x, d, L)
    OBVIOUS
  <2>1. x \in WithBelow(f[i])
    BY <1>2, <1>4 DEF InnerRun
  <2>2. CASE x \in f[i]
    BY <1>2, <2>2
  <2>3. CASE x \notin f[i]
    <3>1. PICK y \in f[i] : \E s \in Used(y.ref) : IsInner(y.ref.children[s]) /\ x = Below(y, s)
      BY <2>1, <2>3 DEF WithBelow
    <3>2. PICK s \in Used(y.ref) : IsInner(y.ref.children[s]) /\ x = Below(y, s)
      BY <3>1
    <3>3. Part(y, d, L)
      BY <1>2
    <3> QED
      BY <1>1, <3>2, <3>3, PartBelow
  <2> QED
    BY <2>2, <2>3
<1>5. 0 \in T /\ \A i \in T : i \in Steps /\ i < MaxLen => i + 1 \in T
  <2>1. 0 \in Steps /\ \A i \in Steps : i < MaxLen => i + 1 \in Steps
    BY Sizes DEF Steps
  <2> QED
    BY <1>2, <1>3, <1>4, <2>1
<1>6. \A i \in Steps : i \in T
  BY <1>5, StepInduction
<1> QED
  BY <1>2, <1>6

(* The nodes Inner lists are trees with some of the leaves.                *)
LEMMA InnerGood ==
  ASSUME NEW n, NEW d, NEW L, Good(n, d, L), NEW x \in Inner(n, 0)
  PROVE  Part(x, d, L)
<1>1. PICK f : InnerRun(f, n)
  BY InnerIs
<1>2. x \in f[MaxLen] /\ MaxLen \in Steps
  BY <1>1, Sizes DEF InnerRun, Steps
<1> QED
  BY <1>1, <1>2, InnerParts

(* A leaf of a tree is in a slot of a node that has been met, or below one *)
(* that is i steps down.                                                   *)
Met(X, l) == IsLeaf(l) /\ \E x \in X : \E s \in Used(x.ref) : x.ref.children[s] = l
Near(X, d, i, l) == \E x \in X : x.depth \in Nat /\ i <= x.depth /\ IsInner(x.ref)
                                  /\ \E M : l \in M /\ Good(x.ref, d + x.depth, M)

(* The child of a node above leaf l.                                       *)
LEMMA ChildAbove ==
  ASSUME NEW n, NEW d, NEW L, Good(n, d, L), IsInner(n), NEW l \in L
  PROVE  \E s \in Used(n) : \E M : l \in M /\ Good(n.children[s], d + n.plen + 1, M)
<1>1. d \in Nat /\ n.plen \in Nat /\ Fork(n, d, L) /\ Indexed(n)
  BY TreeFacts, ShapeIndexed DEF Fork
<1>2. PICK z \in Nat : z = d + n.plen + 1
  BY <1>1
<1>3. l.key[z] \in Byte
  <2>1. l.key \in Key /\ d + n.plen < Len(l.key)
    BY <1>1 DEF Fork
  <2>2. Len(l.key) \in Nat /\ \A i \in 1 .. Len(l.key) : l.key[i] \in Byte
    BY <2>1, KeyFacts
  <2>3. z \in 1 .. Len(l.key)
    BY <1>1, <1>2, <2>1, <2>2
  <2> QED
    BY <2>2, <2>3
<1>4. PICK c \in Byte : c = l.key[z]
  BY <1>3
<1>5. PICK M : M = Share(L, c, d + n.plen + 1)
  OBVIOUS
<1>6. l \in M
  BY <1>2, <1>4, <1>5 DEF Share
<1>7. PICK s : s \in FindChild(n, c)
  BY <1>5, <1>6, ChildOf
<1>8. s \in Used(n)
  BY <1>1, <1>7 DEF Indexed
<1>9. Good(n.children[s], d + n.plen + 1, M)
  BY <1>5, <1>7, GoodChild
<1> QED
  BY <1>6, <1>8, <1>9

(* One step further.                                                       *)
LEMMA NearBelow ==
  ASSUME NEW d \in Nat, NEW X, NEW i \in Nat, NEW l, Near(X, d, i, l)
  PROVE  Met(X, l) \/ Near(WithBelow(X), d, i + 1, l)
<1>1. PICK x \in X : x.depth \in Nat /\ i <= x.depth /\ IsInner(x.ref)
                     /\ \E M : l \in M /\ Good(x.ref, d + x.depth, M)
  BY DEF Near
<1>2. PICK M : l \in M /\ Good(x.ref, d + x.depth, M)
  BY <1>1
<1>3. PICK n, e : n = x.ref /\ e = x.depth
  OBVIOUS
<1>4. Good(n, d + e, M) /\ IsInner(n) /\ e \in Nat /\ i <= e /\ n.plen \in Nat
  BY <1>1, <1>2, <1>3, TreeFacts DEF Fork
<1>5. PICK s \in Used(n) : \E K : l \in K /\ Good(n.children[s], (d + e) + n.plen + 1, K)
  BY <1>2, <1>4, ChildAbove
<1>6. PICK K : l \in K /\ Good(n.children[s], (d + e) + n.plen + 1, K)
  BY <1>5
<1>7. PICK g \in Nat : g = e + n.plen + 1
  BY <1>4
<1>8. (d + e) + n.plen + 1 = d + g /\ i + 1 <= g
  BY <1>4, <1>7
<1>9. Good(n.children[s], d + g, K)
  BY <1>6, <1>8
<1>10. CASE IsLeaf(n.children[s])
  <2>1. n.children[s] = l
    BY <1>6, <1>9, <1>10, TreeFacts DEF Tip
  <2> QED
    BY <1>3, <1>5, <1>10, <2>1 DEF Met
<1>11. CASE ~IsLeaf(n.children[s])
  <2>1. IsInner(n.children[s])
    BY <1>9, <1>11, TreeFacts
  <2>2. PICK y : y = Below(x, s)
    OBVIOUS
  <2>3. y \in WithBelow(X)
    BY <1>3, <1>5, <2>1, <2>2 DEF WithBelow
  <2>4. y.ref = n.children[s] /\ y.depth = g
    BY <1>3, <1>7, <2>2, BelowIs
  <2>5. Good(y.ref, d + y.depth, K) /\ y.depth \in Nat /\ i + 1 <= y.depth /\ IsInner(y.ref)
    BY <1>7, <1>8, <1>9, <2>1, <2>4
  <2> QED
    BY <1>6, <2>3, <2>5 DEF Near
<1> QED
  BY <1>10, <1>11

(* After MaxLen steps no leaf is further down.                             *)
LEMMA NotNear ==
  ASSUME NEW X, NEW d \in Nat, NEW l
  PROVE  ~Near(X, d, MaxLen, l)
<1> SUFFICES ASSUME Near(X, d, MaxLen, l) PROVE FALSE
  OBVIOUS
<1>1. PICK x \in X : x.depth \in Nat /\ MaxLen <= x.depth /\ IsInner(x.ref)
                     /\ \E M : l \in M /\ Good(x.ref, d + x.depth, M)
  BY DEF Near
<1>2. PICK M : l \in M /\ Good(x.ref, d + x.depth, M)
  BY <1>1
<1>3. PICK n, e : n = x.ref /\ e = x.depth
  OBVIOUS
<1>4. Fork(n, d + e, M) /\ e \in Nat /\ MaxLen <= e
  BY <1>1, <1>2, <1>3, TreeFacts
<1>5. l.key \in Key /\ (d + e) + n.plen < Len(l.key) /\ n.plen \in Nat
  BY <1>2, <1>4 DEF Fork
<1>6. Len(l.key) \in Nat /\ Len(l.key) <= MaxLen /\ MaxLen \in Nat
  BY <1>5, KeyFacts, Sizes
<1> QED
  BY <1>4, <1>5, <1>6

(* Every leaf of a tree is met.                                            *)
LEMMA LeafMet ==
  ASSUME NEW n, NEW d, NEW L, Good(n, d, L), IsInner(n), NEW l \in L
  PROVE  Met(Inner(n, 0), l)
<1>1. d \in Nat /\ MaxLen \in Nat
  BY TreeFacts, Sizes
<1>2. PICK f : InnerRun(f, n)
  BY InnerIs
<1>3. PICK T : T = {i \in Steps : Met(f[i], l) \/ Near(f[i], d, i, l)}
  OBVIOUS
<1>4. Near(f[0], d, 0, l)
  <2>1. f[0] = {Top(n)} /\ Top(n).ref = n /\ Top(n).depth = 0
    BY <1>2, InnerStart
  <2>2. d + 0 = d /\ 0 \in Nat /\ 0 <= 0
    BY <1>1
  <2>3. Top(n) \in f[0]
    BY <2>1
  <2> QED
    BY <2>1, <2>2, <2>3 DEF Near
<1>5. ASSUME NEW i \in T, i < MaxLen PROVE Met(f[i + 1], l) \/ Near(f[i + 1], d, i + 1, l)
  <2>1. f[i + 1] = WithBelow(f[i]) /\ i \in Nat
    BY <1>2, <1>3, <1>5 DEF InnerRun, Steps
  <2>2. f[i] \subseteq f[i + 1]
    BY <2>1 DEF WithBelow
  <2>3. Met(f[i], l) => Met(f[i + 1], l)
    BY <2>2 DEF Met
  <2>4. Near(f[i], d, i, l) => Met(f[i], l) \/ Near(f[i + 1], d, i + 1, l)
    BY <1>1, <2>1, NearBelow
  <2> QED
    BY <1>3, <2>3, <2>4
<1>6. 0 \in T /\ \A i \in T : i \in Steps /\ i < MaxLen => i + 1 \in T
  <2>1. 0 \in Steps /\ \A i \in Steps : i < MaxLen => i + 1 \in Steps
    BY Sizes DEF Steps
  <2> QED
    BY <1>3, <1>4, <1>5, <2>1
<1>7. \A i \in Steps : i \in T
  BY <1>6, StepInduction
<1>8. MaxLen \in Steps
  BY <1>1 DEF Steps
<1>9. Met(f[MaxLen], l) \/ Near(f[MaxLen], d, MaxLen, l)
  BY <1>3, <1>7, <1>8
<1> QED
  BY <1>1, <1>2, <1>9, NotNear DEF InnerRun

(* The leaves of a tree.                                                   *)
LEMMA LeavesAre ==
  ASSUME NEW n, NEW d, NEW L, Good(n, d, L)
  PROVE  Leaves(n) = L
<1>1. CASE IsLeaf(n)
  <2>1. ~IsInner(n) /\ L = {n}
    BY <1>1, TreeFacts DEF Tip
  <2> QED
    BY <1>1, <2>1, NoInner
<1>2. CASE ~IsLeaf(n)
  <2>1. IsInner(n) /\ d \in Nat
    BY <1>2, TreeFacts
  <2>2. ASSUME NEW l \in L PROVE l \in Leaves(n)
    <3>1. IsLeaf(l) /\ \E x \in Inner(n, 0) : \E s \in Used(x.ref) : x.ref.children[s] = l
      BY <2>1, LeafMet DEF Met
    <3> QED
      BY <3>1 DEF Leaves
  <2>3. ASSUME NEW l \in Leaves(n) PROVE l \in L
    <3>1. IsLeaf(l) /\ l # n
      BY <1>2 DEF Leaves
    <3>2. PICK x \in Inner(n, 0) : \E s \in Used(x.ref) : x.ref.children[s] = l
      BY <3>1 DEF Leaves
    <3>3. PICK s \in Used(x.ref) : x.ref.children[s] = l
      BY <3>2
    <3>4. IsInner(x.ref) /\ \E M : M \subseteq L /\ Good(x.ref, d + x.depth, M)
      BY InnerGood DEF Part
    <3>5. PICK M : M \subseteq L /\ Good(x.ref, d + x.depth, M)
      BY <3>4
    <3>6. PICK r, e : r = x.ref /\ e = d + x.depth
      OBVIOUS
    <3>7. PICK K : K \subseteq M /\ Good(r.children[s], e + r.plen + 1, K)
      BY <3>3, <3>4, <3>5, <3>6, UsedChild
    <3>8. K = {l}
      BY <3>1, <3>3, <3>6, <3>7, TreeFacts DEF Tip
    <3> QED
      BY <3>5, <3>7, <3>8
  <2> QED
    BY <2>2, <2>3
<1> QED
  BY <1>1, <1>2

-----------------------------------------------------------------------------
(* The theorems.                                                           *)

(* The leaves that stand for the map m.                                    *)
LeavesOf(m) == {Leaf(k, m[k]) : k \in {j \in Key : m[j] # NULL}}

(* The inductive invariant: the tree is empty, or a tree with exactly the  *)
(* leaves that the history of the calls asks for.                          *)
Represents(n, m) == (n = Nil /\ LeavesOf(m) = {}) \/ Good(n, 0, LeavesOf(m))
ArtInv == map \in [Key -> Val \cup {NULL}] /\ Represents(root, map)

(* What is in the leaves.                                                  *)
LEMMA LeavesOfIs ==
  ASSUME NEW m
  PROVE  /\ \A l \in LeavesOf(m) : l.key \in Key /\ m[l.key] # NULL /\ l = Leaf(l.key, m[l.key])
                                   /\ l.value = m[l.key]
         /\ \A k \in Key : m[k] # NULL => Leaf(k, m[k]) \in LeavesOf(m) /\ Leaf(k, m[k]).key = k
<1>1. \A k, v : Leaf(k, v).key = k /\ Leaf(k, v).value = v
  BY DEF Leaf
<1>2. \A l \in LeavesOf(m) : \E k \in Key : m[k] # NULL /\ l = Leaf(k, m[k])
  BY DEF LeavesOf
<1>3. \A k \in Key : m[k] # NULL => Leaf(k, m[k]) \in LeavesOf(m)
  BY DEF LeavesOf
<1> QED
  BY <1>1, <1>2, <1>3

Binds(m, k, v, u) == m \in [Key -> Val \cup {NULL}] /\ k \in Key /\ v \in Val /\ u = [m EXCEPT ![k] = v]
Rebound(L, k, v) == Without(L, k) \cup {Leaf(k, v)}

(* A key is bound, or no longer.                                           *)
LEMMA LeavesAdd ==
  ASSUME NEW m, NEW k, NEW v, NEW u, Binds(m, k, v, u)
  PROVE  LeavesOf(u) = Rebound(LeavesOf(m), k, v)
<1>1. /\ k \in Key /\ v \in Val /\ u \in [Key -> Val \cup {NULL}]
      /\ u[k] = v /\ \A j \in Key : j # k => u[j] = m[j]
  BY DEF Binds
<1>2. v # NULL
  BY <1>1, ArtAssumption
<1>3. ASSUME NEW l \in LeavesOf(u) PROVE l \in Without(LeavesOf(m), k) \cup {Leaf(k, v)}
  <2>1. l.key \in Key /\ u[l.key] # NULL /\ l = Leaf(l.key, u[l.key])
    BY LeavesOfIs
  <2>2. CASE l.key = k
    BY <1>1, <2>1, <2>2
  <2>3. CASE l.key # k
    <3>1. u[l.key] = m[l.key]
      BY <1>1, <2>1, <2>3
    <3>2. Leaf(l.key, m[l.key]) \in LeavesOf(m)
      BY <2>1, <3>1, LeavesOfIs
    <3> QED
      BY <2>1, <2>3, <3>1, <3>2 DEF Without
  <2> QED
    BY <2>2, <2>3
<1>4. ASSUME NEW l \in LeavesOf(m), l.key # k PROVE l \in LeavesOf(u)
  <2>1. l.key \in Key /\ m[l.key] # NULL /\ l = Leaf(l.key, m[l.key])
    BY LeavesOfIs
  <2>2. u[l.key] = m[l.key]
    BY <1>1, <1>4, <2>1
  <2>3. Leaf(l.key, u[l.key]) \in LeavesOf(u)
    BY <2>1, <2>2, LeavesOfIs
  <2> QED
    BY <2>1, <2>2, <2>3
<1>5. Leaf(k, v) \in LeavesOf(u)
  BY <1>1, <1>2, LeavesOfIs
<1> QED
  BY <1>1, <1>3, <1>4, <1>5 DEF Without, Rebound

(* A deletion takes away the leaf of its key.                              *)
LEMMA LeavesDrop ==
  ASSUME NEW m \in [Key -> Val \cup {NULL}], NEW k, NEW u,
         u = IF k \in Key THEN [m EXCEPT ![k] = NULL] ELSE m
  PROVE  LeavesOf(u) = Without(LeavesOf(m), k) /\ u \in [Key -> Val \cup {NULL}]
<1>1. u \in [Key -> Val \cup {NULL}] /\ (k \in Key => u[k] = NULL) /\ \A j \in Key : j # k => u[j] = m[j]
  OBVIOUS
<1>2. ASSUME NEW l \in LeavesOf(u) PROVE l \in LeavesOf(m) /\ l.key # k
  <2>1. l.key \in Key /\ u[l.key] # NULL /\ l = Leaf(l.key, u[l.key])
    BY LeavesOfIs
  <2>2. l.key # k
    BY <1>1, <2>1
  <2>3. u[l.key] = m[l.key]
    BY <1>1, <2>1, <2>2
  <2>4. Leaf(l.key, m[l.key]) \in LeavesOf(m)
    BY <2>1, <2>3, LeavesOfIs
  <2> QED
    BY <2>1, <2>2, <2>3, <2>4
<1>3. ASSUME NEW l \in LeavesOf(m), l.key # k PROVE l \in LeavesOf(u)
  <2>1. l.key \in Key /\ m[l.key] # NULL /\ l = Leaf(l.key, m[l.key])
    BY LeavesOfIs
  <2>2. u[l.key] = m[l.key]
    BY <1>1, <1>3, <2>1
  <2> QED
    BY <2>1, <2>2, LeavesOfIs
<1> QED
  BY <1>1, <1>2, <1>3 DEF Without

(* A tree without keys.                                                    *)
LEMMA LeavesNone == LeavesOf([k \in Key |-> NULL]) = {} /\ [k \in Key |-> NULL] \in [Key -> Val \cup {NULL}]
<1>1. \A j \in Key : [k \in Key |-> NULL][j] = NULL
  OBVIOUS
<1>2. \A l \in LeavesOf([k \in Key |-> NULL]) : FALSE
  BY <1>1 DEF LeavesOf
<1> QED
  BY <1>2

(* art_insert.                                                             *)
LEMMA InsertStands ==
  ASSUME NEW n, NEW m \in [Key -> Val \cup {NULL}], Represents(n, m),
         NEW k \in Key, NEW v \in Val, NEW junk \in Byte, NEW u, u = [m EXCEPT ![k] = v],
         n # Nil => Clear(n, k, junk)
  PROVE  Represents(Insert(n, k, v, junk).ref, u)
<1>1. LeavesOf(u) = Rebound(LeavesOf(m), k, v)
  <2>1. Binds(m, k, v, u)
    BY DEF Binds
  <2> QED
    BY <2>1, LeavesAdd
<1>2. CASE Good(n, 0, LeavesOf(m))
  <2>1. PICK L : L = LeavesOf(m)
    OBVIOUS
  <2>2. Good(n, 0, L)
    BY <1>2, <2>1
  <2>3. n # Nil
    BY <2>2, TreeFacts
  <2>4. Good(Insert(n, k, v, junk).ref, 0, Rebound(L, k, v))
    BY <2>2, <2>3, InsertOK DEF Rebound
  <2> QED
    BY <1>1, <2>1, <2>4 DEF Represents
<1>3. CASE n = Nil /\ LeavesOf(m) = {}
  <2>1. LeavesOf(u) = {Leaf(k, v)}
    BY <1>1, <1>3 DEF Without, Rebound
  <2>2. Insert(n, k, v, junk).ref = Leaf(k, v)
    BY <1>3, NilOK
  <2>3. 0 \in Nat /\ 0 <= Len(k)
    BY KeyFacts
  <2>4. Good(Leaf(k, v), 0, {Leaf(k, v)})
    BY <2>3, NewLeaf
  <2> QED
    BY <2>1, <2>2, <2>4 DEF Represents
<1> QED
  BY <1>2, <1>3 DEF Represents

(* art_delete.                                                             *)
LEMMA DeleteStands ==
  ASSUME NEW n, NEW m \in [Key -> Val \cup {NULL}], Represents(n, m),
         NEW k \in Seq(Byte), NEW junk \in Byte, NEW u, u = IF k \in Key THEN [m EXCEPT ![k] = NULL] ELSE m
  PROVE  Represents(Delete(n, k, junk).ref, u)
<1>1. LeavesOf(u) = Without(LeavesOf(m), k)
  BY LeavesDrop
<1>2. CASE Good(n, 0, LeavesOf(m))
  BY <1>1, <1>2, DeleteOK DEF Represents
<1>3. CASE n = Nil /\ LeavesOf(m) = {}
  <2>1. LeavesOf(u) = {}
    BY <1>1, <1>3 DEF Without
  <2>2. Delete(n, k, junk).ref = Nil
    BY <1>3, NilOK
  <2> QED
    BY <2>1, <2>2 DEF Represents
<1> QED
  BY <1>2, <1>3 DEF Represents

(* The nodes met at a step stay.                                           *)
LEMMA InnerGrows ==
  ASSUME NEW n, NEW f, InnerRun(f, n)
  PROVE  \A i \in Steps : f[i] \subseteq Inner(n, 0)
<1>1. MaxLen \in Nat
  BY Sizes
<1>2. PICK T : T = {i \in Steps : \A j \in Steps : j <= i => f[j] \subseteq f[i]}
  OBVIOUS
<1>3. 0 \in T
  <2>1. \A j \in Steps : j <= 0 => j = 0
    BY DEF Steps
  <2> QED
    BY <1>1, <1>2, <2>1 DEF Steps
<1>4. ASSUME NEW i \in T, i < MaxLen PROVE i + 1 \in T
  <2>1. i \in Steps /\ i + 1 \in Steps /\ \A j \in Steps : j <= i + 1 => j <= i \/ j = i + 1
    BY <1>1, <1>2, <1>4 DEF Steps
  <2>2. f[i] \subseteq f[i + 1]
    BY <1>4, <2>1 DEF InnerRun, WithBelow
  <2>3. \A j \in Steps : j <= i + 1 => f[j] \subseteq f[i + 1]
    BY <1>2, <2>1, <2>2
  <2> QED
    BY <1>2, <2>1, <2>3
<1>5. \A i \in Steps : i \in T
  BY <1>3, <1>4, StepInduction
<1>6. MaxLen \in Steps /\ \A j \in Steps : j <= MaxLen
  BY <1>1 DEF Steps
<1>7. \A j \in Steps : f[j] \subseteq f[MaxLen]
  BY <1>2, <1>5, <1>6
<1> QED
  BY <1>7 DEF InnerRun

(* The nodes of a way are among those that Inner lists.                    *)
LEMMA WayInner ==
  ASSUME NEW n, NEW L, NEW k \in Seq(Byte), NEW junk \in Byte, NEW w, NEW S, Chain(w, S, n, L, k, junk),
         NEW j \in 1 .. Len(w), IsInner(w[j].ref)
  PROVE  \E x \in Inner(n, 0) : x.ref = w[j].ref /\ x.depth = w[j].depth
<1>1. PICK m \in Nat : m = Len(w) /\ 1 <= m
  BY ChainEnd
<1>2. PICK f : InnerRun(f, n)
  BY InnerIs
<1>3. MaxLen \in Nat
  BY Sizes
<1>4. ASSUME NEW i \in 1 .. m, IsInner(w[i].ref)
      PROVE  w[i].depth \in Nat /\ w[i].ref.plen \in Nat /\ w[i].depth + w[i].ref.plen < MaxLen
  <2>1. PICK r, d, M : r = w[i].ref /\ d = w[i].depth /\ M = S[i]
    OBVIOUS
  <2>2. Good(r, d, M) /\ IsInner(r)
    BY <1>1, <1>4, <2>1 DEF Chain
  <2>3. Fork(r, d, M) /\ d \in Nat
    BY <2>2, TreeFacts
  <2>4. r.plen \in Nat /\ M # {} /\ \A l \in M : l.key \in Key /\ d + r.plen < Len(l.key)
    BY <2>3 DEF Fork
  <2>5. PICK l \in M : l.key \in Key /\ d + r.plen < Len(l.key)
    BY <2>4
  <2>6. Len(l.key) \in Nat /\ Len(l.key) <= MaxLen
    BY <2>5, KeyFacts
  <2>7. d + r.plen < MaxLen
    BY <1>3, <2>3, <2>4, <2>5, <2>6
  <2> QED
    BY <2>1, <2>3, <2>4, <2>7
<1> DEFINE At(i) == /\ w[i].depth \in Nat /\ i - 1 <= w[i].depth
                    /\ IsInner(w[i].ref) => \E x \in f[i - 1] : x.ref = w[i].ref /\ x.depth = w[i].depth
           T == {i \in 1 .. m : At(i)}
<1>5. 1 \in T
  <2>1. w[1].ref = n /\ w[1].depth = 0
    BY DEF Chain, Top
  <2>2. f[0] = (IF IsInner(n) THEN {Top(n)} ELSE {}) /\ Top(n).ref = n /\ Top(n).depth = 0
    BY <1>2, InnerStart
  <2>3. IsInner(n) => \E x \in f[0] : x.ref = n /\ x.depth = 0
    BY <2>2
  <2>4. 1 - 1 = 0 /\ 1 \in 1 .. m /\ 0 \in Nat /\ 0 <= 0
    BY <1>1
  <2> QED
    BY <2>1, <2>3, <2>4
<1>6. ASSUME NEW i \in T, i < m PROVE i + 1 \in T
  <2>1. i \in 1 .. m /\ i + 1 \in 1 .. m /\ i \in 1 .. Len(w) - 1 /\ i \in 1 .. Len(w)
    BY <1>1, <1>6
  <2>2. PICK x, y : x = w[i] /\ y = w[i + 1]
    OBVIOUS
  <2>3. Chained(x, S[i], y, S[i + 1], k, junk) /\ Good(x.ref, x.depth, S[i])
    BY <2>1, <2>2 DEF Chain
  <2>4. PICK c, s : c = Ahead(x, k, junk) /\ s = y.slot
    OBVIOUS
  <2>5. /\ IsInner(x.ref) /\ s \in FindChild(x.ref, c) /\ y.ref = x.ref.children[s]
        /\ y.depth = x.depth + x.ref.plen + 1
    BY <2>3, <2>4 DEF Chained
  <2>6. x.depth \in Nat /\ x.ref.plen \in Nat /\ x.depth + x.ref.plen < MaxLen
    BY <1>4, <2>1, <2>2, <2>5
  <2>7. c \in Byte
    <3>1. PICK e \in Nat : e = x.depth + x.ref.plen
      BY <2>6
    <3>2. c = KeyAt(k, e, junk)
      BY <2>4, <3>1 DEF Ahead
    <3> QED
      BY <3>2, KeyAtByte
  <2>8. s \in Used(x.ref)
    <3>1. Indexed(x.ref)
      BY <2>3, <2>5, TreeFacts, ShapeIndexed DEF Fork
    <3> QED
      BY <2>5, <2>7, <3>1 DEF Indexed
  <2>9. i - 1 <= x.depth /\ \E z \in f[i - 1] : z.ref = x.ref /\ z.depth = x.depth
    BY <2>2, <2>5
  <2>10. PICK z \in f[i - 1] : z.ref = x.ref /\ z.depth = x.depth
    BY <2>9
  <2>11. i - 1 \in Steps /\ i - 1 < MaxLen /\ (i - 1) + 1 = i
    <3>1. PICK a, e, q : a = i - 1 /\ e = x.depth /\ q = x.ref.plen
      OBVIOUS
    <3>2. a \in Nat /\ e \in Nat /\ q \in Nat /\ a <= e /\ e + q < MaxLen /\ a + 1 = i
      BY <1>1, <2>1, <2>6, <2>9, <3>1
    <3>3. a \in 0 .. MaxLen /\ a < MaxLen
      BY <1>3, <3>2
    <3> QED
      BY <3>1, <3>2, <3>3 DEF Steps
  <2>12. f[i] = WithBelow(f[i - 1])
    BY <1>2, <2>11 DEF InnerRun
  <2>13. IsInner(y.ref) => \E q \in f[i] : q.ref = y.ref /\ q.depth = y.depth
    <3> SUFFICES ASSUME IsInner(y.ref) PROVE \E q \in f[i] : q.ref = y.ref /\ q.depth = y.depth
      OBVIOUS
    <3>1. Below(z, s).ref = y.ref /\ Below(z, s).depth = y.depth
      BY <2>5, <2>10, BelowIs
    <3>2. s \in Used(z.ref) /\ IsInner(z.ref.children[s])
      BY <2>5, <2>8, <2>10
    <3>3. Below(z, s) \in f[i]
      BY <2>12, <3>2 DEF WithBelow
    <3> QED
      BY <3>1, <3>3
  <2>14. y.depth \in Nat /\ (i + 1) - 1 <= y.depth /\ (i + 1) - 1 = i
    BY <2>1, <2>5, <2>6, <2>9
  <2> QED
    BY <2>1, <2>2, <2>13, <2>14
<1>7. T = 1 .. m
  <2>1. T \in SUBSET (1 .. m)
    OBVIOUS
  <2> HIDE DEF T
  <2> QED
    BY <1>1, <1>5, <1>6, <2>1, ChainInduction
<1>8. j - 1 <= w[j].depth /\ w[j].depth \in Nat /\ j \in 1 .. m /\ \E x \in f[j - 1] : x.ref = w[j].ref /\ x.depth = w[j].depth
  BY <1>1, <1>7
<1>9. j - 1 \in Steps
  <2>1. w[j].depth + w[j].ref.plen < MaxLen /\ w[j].ref.plen \in Nat
    BY <1>4, <1>8
  <2> QED
    BY <1>3, <1>8, <2>1 DEF Steps
<1>10. f[j - 1] \subseteq Inner(n, 0)
  BY <1>2, <1>9, InnerGrows
<1> QED
  BY <1>8, <1>10

(* A key that no node misreads is read right where it comes to.            *)
LEMMA ClearIs ==
  ASSUME NEW n, NEW m, Represents(n, m), NEW k \in Key, NEW junk \in Byte,
         \A x \in Inner(n, 0) : ~Misreads(x, k)
  PROVE  n # Nil => Clear(n, k, junk)
<1> SUFFICES ASSUME n # Nil PROVE Clear(n, k, junk)
  OBVIOUS
<1>1. PICK L : Good(n, 0, L)
  BY DEF Represents
<1>2. k \in Seq(Byte)
  BY KeyFacts
<1>3. PICK w : w = InsertWay(n, k, junk)
  OBVIOUS
<1>4. /\ \E S : Chain(w, S, n, L, k, junk)
      /\ \A j \in 1 .. Len(w) - 1 : InsertSlot(w[j], k, junk) # {}
  <2>1. InsertEnds(w, n, L, k, junk)
    BY <1>1, <1>2, <1>3, InsertWayOK
  <2> QED
    BY <2>1 DEF InsertEnds
<1>5. PICK S : Chain(w, S, n, L, k, junk)
  BY <1>4
<1>6. PICK x, M : x = Last(w) /\ M = S[Len(w)]
  OBVIOUS
<1>7. Len(w) \in 1 .. Len(w) /\ x = w[Len(w)] /\ Good(x.ref, x.depth, M)
  BY <1>5, <1>6, ChainEnd
<1>8. \A l \in M : Common(k, l.key, x.depth)
  <2>1. \A j \in 1 .. Len(w) : \A l \in S[j] : Common(k, l.key, w[j].depth)
    BY <1>4, <1>5, InsertAgrees
  <2> QED
    BY <1>6, <1>7, <2>1
<1> SUFFICES ASSUME IsInner(x.ref) PROVE Reads(x.ref, k, x.depth)
  BY <1>3, <1>6 DEF Clear
<1>9. PICK y \in Inner(n, 0) : y.ref = x.ref /\ y.depth = x.depth
  BY <1>2, <1>5, <1>7, WayInner
<1>10. ~Misreads(y, k)
  BY <1>9
<1>11. Reads(y.ref, k, y.depth)
  BY <1>2, <1>7, <1>8, <1>9, <1>10, NotMisread
<1> QED
  BY <1>9, <1>11

(* The keys of the queries.                                                *)
LEMMA Queries ==
  /\ \A k \in Key \cup Query : k \in Seq(Byte)
  /\ \A a \in Adds : a[1] \in Key /\ a[2] \in Val
  /\ \A junk \in Junk : junk \in Byte
<1>1. \A k \in Key \cup Query : k \in Seq(Byte \ {0})
  BY ArtAssumption
<1>2. \A k \in Seq(Byte \ {0}) : k \in Seq(Byte)
  OBVIOUS
<1>3. Adds \subseteq Key \X Val /\ Junk \subseteq Byte
  BY ArtAssumption
<1> QED
  BY <1>1, <1>2, <1>3

(* The empty tree stands for the empty map.                                *)
LEMMA InitStands == ASSUME Init PROVE ArtInv
BY LeavesNone DEF Init, ArtInv, Represents

(* Every step that tears nothing keeps the tree what the map says.         *)
LEMMA StepStands == ASSUME ArtInv, [Next]_vars, ~torn' PROVE ArtInv'
<1>1. map \in [Key -> Val \cup {NULL}] /\ Represents(root, map)
  BY DEF ArtInv
<1>2. CASE \E a \in Adds, junk \in Junk : ArtInsert(a[1], a[2], junk)
  <2>1. PICK a \in Adds, junk \in Junk : ArtInsert(a[1], a[2], junk)
    BY <1>2
  <2>2. PICK k \in Key, v \in Val : k = a[1] /\ v = a[2]
    BY <2>1, Queries
  <2>3. junk \in Byte
    BY <2>1, Queries
  <2>4. root' = Insert(root, k, v, junk).ref /\ map' = [map EXCEPT ![k] = v]
    BY <2>1, <2>2 DEF ArtInsert
  <2>5. Represents(root', map')
    <3>1. \A x \in Inner(root, 0) : ~Misreads(x, k)
      BY <2>1, <2>2 DEF ArtInsert
    <3>2. root # Nil => Clear(root, k, junk)
      BY <1>1, <2>3, <3>1, ClearIs
    <3> QED
      BY <1>1, <2>3, <2>4, <3>2, InsertStands
  <2>6. map' \in [Key -> Val \cup {NULL}]
    BY <1>1, <2>4
  <2> QED
    BY <2>5, <2>6 DEF ArtInv
<1>3. CASE \E k \in Query, junk \in Junk : ArtDelete(k, junk)
  <2>1. PICK k \in Query, junk \in Junk : ArtDelete(k, junk)
    BY <1>3
  <2>2. k \in Seq(Byte) /\ junk \in Byte
    BY <2>1, Queries
  <2>3. root' = Delete(root, k, junk).ref /\ map' = IF k \in Key THEN [map EXCEPT ![k] = NULL] ELSE map
    BY <2>1 DEF ArtDelete
  <2>4. Represents(root', map')
    BY <1>1, <2>2, <2>3, DeleteStands
  <2>5. map' \in [Key -> Val \cup {NULL}]
    BY <1>1, <2>3, LeavesDrop
  <2> QED
    BY <2>4, <2>5 DEF ArtInv
<1>4. CASE DestroyArtTree
  BY <1>4, LeavesNone DEF DestroyArtTree, ArtInv, Represents
<1>5. CASE UNCHANGED vars
  BY <1>1, <1>5 DEF vars, ArtInv
<1> QED
  BY <1>2, <1>3, <1>4, <1>5 DEF Next

(* A tree that is torn is only destroyed.                                  *)
LEMMA TornStays == ASSUME torn, [Next]_vars PROVE torn' \/ ArtInv'
<1>1. CASE DestroyArtTree
  BY <1>1, LeavesNone DEF DestroyArtTree, ArtInv, Represents
<1>2. CASE UNCHANGED vars
  BY <1>2 DEF vars
<1>3. ASSUME NEW k, NEW v, NEW junk PROVE ~ArtInsert(k, v, junk) /\ ~ArtDelete(k, junk)
  BY DEF ArtInsert, ArtDelete
<1> QED
  BY <1>1, <1>2, <1>3 DEF Next

(* So the tree is what the map says unless it is torn.                     *)
LEMMA StepSound == ASSUME torn \/ ArtInv, [Next]_vars PROVE torn' \/ ArtInv'
BY StepStands, TornStays

(* Every inner node of the root is a tree, with some of the leaves.        *)
LEMMA NodeGood ==
  ASSUME ArtInv, NEW x \in Inner(root, 0)
  PROVE  x.depth \in Nat /\ IsInner(x.ref) /\ \E M : Good(x.ref, x.depth, M)
<1>1. root # Nil
  <2> SUFFICES ASSUME root = Nil PROVE FALSE
    OBVIOUS
  <2>1. Inner(root, 0) = {}
    BY NilTop, NoInner
  <2> QED
    BY <2>1
<1>2. Good(root, 0, LeavesOf(map))
  BY <1>1 DEF ArtInv, Represents
<1>3. Part(x, 0, LeavesOf(map))
  BY <1>2, InnerGood
<1>4. x.depth \in Nat /\ IsInner(x.ref) /\ \E M : Good(x.ref, 0 + x.depth, M)
  BY <1>3 DEF Part
<1>5. 0 + x.depth = x.depth
  BY <1>4
<1> QED
  BY <1>4, <1>5

(* The size of a node fits its children.                                   *)
LEMMA NodeFits ==
  ASSUME NEW n, Shape(n), Fit(n)
  PROVE  /\ n.num = Count(n) % NByte /\ Len(Slots(n)) = Count(n)
         /\ n.kind = "node4" => Count(n) \in 2 .. Size4
         /\ n.kind = "node16" => Count(n) \in Shrink16 + 1 .. Size16
         /\ n.kind = "node48" => Count(n) \in Shrink48 + 1 .. Size48
                                 /\ Used(n) = {i \in 1 .. Size48 : n.children[i] # Nil}
         /\ n.kind = "node256" => Count(n) > Shrink256
<1>1. Count(n) \in Nat /\ n.num = Count(n) % NByte
  BY ShapeIndexed DEF Indexed
<1>2. Len(Slots(n)) = Count(n)
  BY SlotsAre
<1>3. CASE n.kind = "node4"
  <2>1. Count(n) = n.num /\ n.num <= Size4
    BY <1>3, Sizes, SmallIndexed DEF Shape, Small
  <2> QED
    BY <1>1, <1>2, <1>3, <2>1, Sizes DEF Fit
<1>4. CASE n.kind = "node16"
  <2>1. Count(n) = n.num /\ n.num <= Size16
    BY <1>4, Sizes, SmallIndexed DEF Shape, Small
  <2> QED
    BY <1>1, <1>2, <1>4, <2>1, Sizes DEF Fit
<1>5. CASE n.kind = "node48"
  <2>1. Mapped(n)
    BY <1>5 DEF Shape
  <2>2. \A c \in Byte : n.keys[c] \in 0 .. Size48
    BY <2>1 DEF Mapped
  <2>3. \A i \in 1 .. Size48 : n.children[i] # Nil <=> \E c \in Byte : n.keys[c] = i
    BY <2>1 DEF Mapped
  <2>4. Used(n) = {n.keys[c] : c \in Byte} \ {0}
    BY <1>5 DEF Used
  <2>5. Size48 \in Nat /\ \A i \in 0 .. Size48 : i # 0 <=> i \in 1 .. Size48
    BY Sizes
  <2>6. Used(n) = {i \in 1 .. Size48 : n.children[i] # Nil}
    BY <2>2, <2>3, <2>4, <2>5
  <2>7. Used(n) \subseteq 1 .. Size48
    BY <2>6
  <2>8. IsFiniteSet(1 .. Size48) /\ Cardinality(1 .. Size48) = Size48
    BY SMTT(40), <2>5, FS_Interval
  <2>9. Count(n) <= Size48
    BY <2>7, <2>8, FS_Subset DEF Count
  <2> QED
    BY <1>1, <1>2, <1>5, <2>6, <2>9, Sizes DEF Fit
<1>6. CASE n.kind = "node256"
  BY <1>1, <1>2, <1>6, Sizes DEF Fit
<1> QED
  <2>1. n.kind \in Kind
    BY DEF Shape, Record
  <2> QED
    BY <1>3, <1>4, <1>5, <1>6, <2>1 DEF Kind

(* The nodes of such a tree have the sizes they need.                      *)
LEMMA InvNodesFit == ASSUME ArtInv PROVE NodesFit
<1> SUFFICES ASSUME NEW x \in Inner(root, 0)
             PROVE  LET n == x.ref
                        used == Used(n)
                        count == Cardinality(used)
                    IN /\ n.num = count % NByte
                       /\ n.kind = "node4"   => count \in 2 .. Size4
                       /\ n.kind = "node16"  => count \in Shrink16 + 1 .. Size16
                       /\ n.kind = "node48"  => /\ count \in Shrink48 + 1 .. Size48
                                                /\ used = {i \in 1 .. Size48 : n.children[i] # Nil}
                                                /\ Len(Slots(n)) = count
                       /\ n.kind = "node256" => count > Shrink256
  BY Zenon DEF NodesFit
<1>1. PICK n : n = x.ref
  OBVIOUS
<1>2. Shape(n) /\ Fit(n)
  BY <1>1, NodeGood, TreeFacts DEF Fork
<1> QED
  BY <1>1, <1>2, NodeFits DEF Count

(* art_search finds exactly what is in the map.                            *)
LEMMA InvSearchExact == ASSUME ArtInv PROVE SearchExact
<1> SUFFICES ASSUME NEW k \in Key \cup Query, NEW junk \in Junk
             PROVE  Search(root, k, junk) = IF k \in Bound THEN map[k] ELSE NULL
  BY DEF SearchExact
<1>1. k \in Seq(Byte) /\ junk \in Byte
  BY Queries
<1>2. PICK L : L = LeavesOf(map)
  OBVIOUS
<1>3. Represents(root, map)
  BY DEF ArtInv
<1>4. CASE root = Nil /\ L = {}
  <2>1. Search(root, k, junk) = NULL
    BY <1>4, NilOK
  <2>2. k \notin Bound
    BY <1>2, <1>4, LeavesOfIs DEF Bound
  <2> QED
    BY <2>1, <2>2
<1>5. CASE Good(root, 0, L)
  <2>1. CASE k \in Bound
    <3>1. k \in Key /\ map[k] # NULL
      BY <2>1 DEF Bound
    <3>2. Leaf(k, map[k]) \in L /\ Leaf(k, map[k]).key = k
      BY <1>2, <3>1, LeavesOfIs
    <3>3. Leaf(k, map[k]).value = map[k]
      BY DEF Leaf
    <3>4. Search(root, k, junk) = Leaf(k, map[k]).value
      BY <1>1, <1>5, <3>2, SearchOK
    <3> QED
      BY <2>1, <3>3, <3>4
  <2>2. CASE k \notin Bound
    <3>1. \A l \in L : l.key # k
      BY <1>2, <2>2, LeavesOfIs DEF Bound
    <3>2. Search(root, k, junk) = NULL
      BY <1>1, <1>5, <3>1, SearchOK
    <3> QED
      BY <2>2, <3>2
  <2> QED
    BY <2>1, <2>2
<1> QED
  BY <1>2, <1>3, <1>4, <1>5 DEF Represents

(* Every inner node stands for what its leaves have in common.             *)
LEMMA InvPathsAgree == ASSUME ArtInv PROVE PathsAgree
<1> SUFFICES ASSUME NEW x \in Inner(root, 0)
             PROVE  LET n == x.ref
                        deep == x.depth + n.plen
                        Keys(m) == {l.key : l \in Leaves(m)}
                        l == Minimum(n).key
                    IN /\ \A k \in Keys(n) : Len(k) > deep /\ SubSeq(k, 1, deep) = SubSeq(l, 1, deep)
                       /\ n.partial = SubSeq(l, x.depth + 1, x.depth + Stored(n))
                       /\ \A c \in Byte : Keys(Child(n, c)) = {k \in Keys(n) : k[deep + 1] = c}
  BY DEF PathsAgree
<1>1. PICK n, d, o : n = x.ref /\ d = x.depth /\ o = Minimum(n)
  OBVIOUS
<1>2. PICK M : Good(n, d, M)
  BY <1>1, NodeGood
<1>3. IsInner(n) /\ d \in Nat /\ Fork(n, d, M) /\ n.plen \in Nat
  BY <1>1, <1>2, NodeGood, TreeFacts DEF Fork
<1>4. PICK e \in Nat : e = d + n.plen
  BY <1>3
<1>5. o \in M /\ Leaves(n) = M
  BY <1>1, <1>2, MinimumIn, LeavesAre
<1>6. \A l \in M : l.key \in Key /\ e < Len(l.key) /\ n.partial = SubSeq(l.key, d + 1, d + Stored(n))
  BY <1>3, <1>4 DEF Fork
<1>7. ASSUME NEW l \in M PROVE Len(l.key) > e /\ SubSeq(l.key, 1, e) = SubSeq(o.key, 1, e)
  <2>1. PICK a, b : a = l.key /\ b = o.key
    OBVIOUS
  <2>2. a \in Seq(Byte) /\ b \in Seq(Byte) /\ Len(a) \in Nat /\ Len(b) \in Nat
    BY <1>5, <1>6, <1>7, <2>1, KeyFacts
  <2>3. e < Len(a) /\ e < Len(b)
    BY <1>5, <1>6, <1>7, <2>1
  <2>4. \A i \in 1 .. e : a[i] = b[i]
    BY <1>3, <1>4, <1>5, <1>7, <2>1 DEF Fork
  <2>5. e <= Len(a) /\ e <= Len(b) /\ Len(a) > e
    BY <2>2, <2>3
  <2>6. SubSeq(a, 1, e) = SubSeq(b, 1, e)
    BY <2>2, <2>4, <2>5, SameStart
  <2> QED
    BY <2>1, <2>5, <2>6
<1>8. ASSUME NEW c \in Byte PROVE Leaves(Child(n, c)) = {l \in M : l.key[e + 1] = c}
  <2>1. PICK B : B = Share(M, c, d + n.plen + 1)
    OBVIOUS
  <2>2. B = {l \in M : l.key[e + 1] = c}
    BY <1>4, <2>1 DEF Share
  <2>3. CASE Child(n, c) = Nil
    <3>1. B = {}
      BY <1>2, <1>3, <2>1, <2>3, ChildOf
    <3>2. Leaves(Nil) = {}
      BY NilTop, NoInner
    <3> QED
      BY <2>2, <2>3, <3>1, <3>2
  <2>4. CASE Child(n, c) # Nil
    <3>1. Good(Child(n, c), d + n.plen + 1, B)
      BY <1>2, <1>3, <2>1, <2>4, ChildOf
    <3>2. Leaves(Child(n, c)) = B
      BY <3>1, LeavesAre
    <3> QED
      BY <2>2, <3>2
  <2> QED
    BY <2>3, <2>4
<1>9. \A k \in {l.key : l \in Leaves(n)} : Len(k) > e /\ SubSeq(k, 1, e) = SubSeq(o.key, 1, e)
  BY <1>5, <1>7
<1>10. n.partial = SubSeq(o.key, d + 1, d + Stored(n))
  BY <1>5, <1>6
<1>11. ASSUME NEW c \in Byte
       PROVE  {l.key : l \in Leaves(Child(n, c))} = {k \in {l.key : l \in Leaves(n)} : k[e + 1] = c}
  <2>1. PICK A : A = Leaves(Child(n, c))
    OBVIOUS
  <2>2. \A l : l \in A <=> l \in M /\ l.key[e + 1] = c
    BY <1>8, <2>1
  <2>3. {l.key : l \in A} = {k \in {l.key : l \in M} : k[e + 1] = c}
    BY <2>2
  <2> QED
    BY <1>5, <2>1, <2>3
<1> QED
  BY <1>1, <1>4, <1>9, <1>10, <1>11

(* NodesFit: nodes grow and shrink at the thresholds of add_child and      *)
(* remove_child, and count their children, in every tree that is not torn. *)
THEOREM NodesAlwaysFit == Spec => []NodesFit
<1>1. Init => torn \/ ArtInv
  BY InitStands
<1>2. (torn \/ ArtInv) /\ [Next]_vars => (torn \/ ArtInv)'
  BY StepSound
<1>3. torn \/ ArtInv => NodesFit
  BY InvNodesFit DEF NodesFit
<1> QED
  BY <1>1, <1>2, <1>3, PTL DEF Spec

(* SearchExact: art_search finds a key exactly if it has been inserted and *)
(* not deleted since, for every set of keys none of which is a prefix of   *)
(* another, in every tree that is not torn.                                *)
THEOREM SearchAlwaysExact == Spec => []SearchExact
<1>1. Init => torn \/ ArtInv
  BY InitStands
<1>2. (torn \/ ArtInv) /\ [Next]_vars => (torn \/ ArtInv)'
  BY StepSound
<1>3. torn \/ ArtInv => SearchExact
  BY InvSearchExact DEF SearchExact
<1> QED
  BY <1>1, <1>2, <1>3, PTL DEF Spec

(* PathsAgree: the compressed path of every inner node is what its leaves  *)
(* have in common, after every split of recursive_insert and every merge   *)
(* of remove_child4, unless a misread key has torn the tree.               *)
THEOREM PathsAlwaysAgree == Spec => []PathsAgree
<1>1. Init => torn \/ ArtInv
  BY InitStands
<1>2. (torn \/ ArtInv) /\ [Next]_vars => (torn \/ ArtInv)'
  BY StepSound
<1>3. torn \/ ArtInv => PathsAgree
  BY InvPathsAgree DEF PathsAgree
<1> QED
  BY <1>1, <1>2, <1>3, PTL DEF Spec

(* No key has a byte above 127 after its first MAX_PREFIX_LEN.             *)
PlainKeys == \A k \in Key : \A i \in MaxPrefix + 1 .. Len(k) : Signed(k[i]) >= 0

(* Such a key is not misread.                                              *)
LEMMA PlainNotMisread ==
  ASSUME PlainKeys, ArtInv, NEW x \in Inner(root, 0), NEW k \in Key
  PROVE  ~Misreads(x, k)
<1>1. PICK n, d : n = x.ref /\ d = x.depth
  OBVIOUS
<1>2. d \in Nat /\ n.plen \in Nat
  BY <1>1, NodeGood, TreeFacts DEF Fork
<1>3. PICK p \in Nat, e \in Nat : p = n.plen /\ e = Len(k)
  BY <1>2, KeyFacts
<1>4. Min({e, d + p}) = IF e <= d + p THEN e ELSE d + p
  BY <1>2, MinTwo
<1>5. \A i \in d + MaxPrefix + 1 .. Min({e, d + p}) : i \in MaxPrefix + 1 .. e
  BY <1>2, <1>4, Sizes
<1>6. \A i \in MaxPrefix + 1 .. e : k[i] \in Byte /\ Signed(k[i]) \in Int /\ ~(Signed(k[i]) < 0)
  <2>1. ASSUME NEW i \in MaxPrefix + 1 .. e PROVE k[i] \in Byte
    <3>1. k \in Seq(Byte) /\ i \in 1 .. Len(k)
      BY <1>3, <2>1, KeyFacts, Sizes
    <3> QED
      BY <3>1
  <2>2. ASSUME NEW c \in Byte PROVE Signed(c) \in Int
    BY <2>2, Sizes DEF Byte, Signed
  <2> QED
    BY <1>3, <2>1, <2>2 DEF PlainKeys
<1> QED
  BY <1>1, <1>3, <1>5, <1>6 DEF Misreads

(* A tree of keys that have no byte above 127 after their first            *)
(* MAX_PREFIX_LEN is never torn: of such keys the theorems hold as they    *)
(* would without the exception.  The keys of helper.c are of this kind:    *)
(* its random ones are all bytes above 127, but no more than ten.          *)
THEOREM PlainKeysNeverTear ==
  ASSUME PlainKeys
  PROVE  Spec => []~torn
<1>1. Init => ~torn /\ ArtInv
  BY InitStands DEF Init
<1>2. ArtInv /\ ~torn /\ [Next]_vars => ~torn'
  <2> SUFFICES ASSUME ArtInv, ~torn, [Next]_vars PROVE ~torn'
    OBVIOUS
  <2>1. CASE \E a \in Adds, junk \in Junk : ArtInsert(a[1], a[2], junk)
    <3>1. PICK a \in Adds, junk \in Junk : ArtInsert(a[1], a[2], junk)
      BY <2>1
    <3>2. a[1] \in Key
      BY <3>1, Queries
    <3> QED
      BY <3>1, <3>2, PlainNotMisread DEF ArtInsert
  <2>2. CASE \E k \in Query, junk \in Junk : ArtDelete(k, junk)
    BY <2>2 DEF ArtDelete
  <2>3. CASE DestroyArtTree \/ UNCHANGED vars
    BY <2>3 DEF DestroyArtTree, vars
  <2> QED
    BY <2>1, <2>2, <2>3 DEF Next
<1>3. ArtInv /\ ~torn /\ [Next]_vars => ArtInv'
  BY <1>2, StepStands
<1> QED
  BY <1>1, <1>2, <1>3, PTL DEF Spec

-----------------------------------------------------------------------------
(* destroy_node.                                                           *)

DestroyRun(f, n) ==
  /\ DOMAIN f = Steps /\ f[0] = {n}
  /\ \A i \in Steps : i < MaxLen => f[i + 1] = Freed(f[i])
  /\ Destroyed(n) = {l.key : l \in {y \in f[MaxLen] : IsLeaf(y)}}

(* The nodes and leaves that are freed, step by step.                     *)
LEMMA DestroyedIs ==
  ASSUME NEW n
  PROVE  \E f : DestroyRun(f, n)
<1> DEFINE G(x) == Freed(x)
           A == {n}
           Runs(m, f) == f = [i \in 0 .. m |-> IF i = 0 THEN A ELSE G(f[i - 1])]
           D == {m \in 0 .. MaxLen : \E f : Runs(m, f)}
<1>1. MaxLen \in Nat
  BY Sizes
<1>2. Destroyed(n) = {l.key : l \in {y \in (CHOOSE f : Runs(MaxLen, f))[MaxLen] : IsLeaf(y)}}
  BY Zenon DEF Destroyed, Steps
<1> HIDE DEF G, A
<1>3. 0 \in D
  <2>1. PICK f : f = [i \in 0 .. 0 |-> A]
    OBVIOUS
  <2>2. \A i \in 0 .. 0 : i = 0
    OBVIOUS
  <2>3. Runs(0, f)
    BY <2>1, <2>2
  <2> QED
    BY <1>1, <2>3
<1>4. ASSUME NEW m \in D, m < MaxLen PROVE m + 1 \in D
  <2>1. PICK f : Runs(m, f)
    OBVIOUS
  <2>2. m + 1 \in 0 .. MaxLen /\ m \in Nat
    BY <1>1, <1>4
  <2>3. PICK x : x = G(f[m])
    OBVIOUS
  <2>4. PICK g : g = [i \in 0 .. m + 1 |-> IF i = m + 1 THEN x ELSE f[i]]
    OBVIOUS
  <2>5. ASSUME NEW i \in 0 .. m + 1
        PROVE  g[i] = IF i = 0 THEN A ELSE G(g[i - 1])
    <3>1. CASE i = m + 1
      <4>1. g[i] = x /\ i # 0 /\ i - 1 = m /\ i - 1 \in 0 .. m + 1 /\ i - 1 # m + 1
        BY <2>2, <2>4, <3>1
      <4>2. g[i - 1] = f[m]
        BY <2>4, <4>1
      <4> QED
        BY <2>3, <3>1, <4>1, <4>2
    <3>2. CASE i = 0
      <4>1. i \in 0 .. m /\ i # m + 1
        BY <2>2, <3>2
      <4> QED
        BY <2>1, <2>4, <3>2, <4>1
    <3>3. CASE i # m + 1 /\ i # 0
      <4>1. i \in 0 .. m /\ i - 1 \in 0 .. m + 1 /\ i - 1 # m + 1
        BY <2>2, <3>3
      <4>2. f[i] = G(f[i - 1])
        BY <2>1, <3>3, <4>1
      <4>3. g[i] = f[i] /\ g[i - 1] = f[i - 1]
        BY <2>4, <3>3, <4>1
      <4> QED
        BY <3>3, <4>2, <4>3
    <3> QED
      BY <3>1, <3>2, <3>3
  <2>6. Runs(m + 1, g)
    BY <2>4, <2>5
  <2> HIDE DEF Runs
  <2> QED
    BY <2>2, <2>6
<1>5. D = 0 .. MaxLen
  <2>1. D \in SUBSET (0 .. MaxLen)
    OBVIOUS
  <2> HIDE DEF D
  <2> QED
    BY <1>1, <1>3, <1>4, <2>1, Induction
<1>6. \E f : Runs(MaxLen, f)
  <2>1. MaxLen \in D
    <3> HIDE DEF D
    <3> QED
      BY <1>1, <1>5
  <2> HIDE DEF Runs
  <2> QED
    BY <2>1
<1>7. PICK s : s = CHOOSE f : Runs(MaxLen, f)
  OBVIOUS
<1>8. Runs(MaxLen, s)
  <2> HIDE DEF Runs
  <2> QED
    BY <1>6, <1>7, Zenon
<1>9. s[0] = A /\ DOMAIN s = Steps
  BY <1>1, <1>8 DEF Steps
<1>10. ASSUME NEW i \in Steps, i < MaxLen PROVE s[i + 1] = G(s[i])
  <2>1. i + 1 \in 0 .. MaxLen /\ i + 1 # 0 /\ (i + 1) - 1 = i
    BY <1>1, <1>10 DEF Steps
  <2> QED
    BY <1>8, <2>1
<1>11. Destroyed(n) = {l.key : l \in {y \in s[MaxLen] : IsLeaf(y)}}
  BY <1>2, <1>7
<1>12. \A i \in Steps : i < MaxLen => s[i + 1] = G(s[i])
  BY <1>10
<1> QED
  BY <1>9, <1>11, <1>12, Zenon DEF G, A, DestroyRun

(* The slots it goes through.                                              *)
Swept(n) == IF n.kind = "node256" THEN Byte ELSE 1 .. n.num

(* A node of 48 children with a hole among its first slots.                *)
Holed(n) == n.kind = "node48" /\ \E i \in 1 .. n.num : n.children[i] = Nil

(* The slots destroy_node goes through are those in use, if there is no    *)
(* hole.                                                                   *)
LEMMA SweptIs ==
  ASSUME NEW n, Shape(n), Fit(n)
  PROVE  /\ \A s \in Swept(n) : n.children[s] = Nil \/ s \in Used(n)
         /\ ~Holed(n) => Used(n) \subseteq Swept(n)
<1>1. n.kind \in Kind
  BY DEF Shape, Record
<1>2. CASE n.kind \in {"node4", "node16"}
  <2>1. Used(n) = 1 .. n.num /\ Swept(n) = 1 .. n.num
    BY <1>2 DEF Used, Swept
  <2> QED
    BY <2>1
<1>3. CASE n.kind = "node256"
  <2>1. Used(n) = {c \in Byte : n.children[c] # Nil} /\ Swept(n) = Byte
    BY <1>3 DEF Used, Swept
  <2> QED
    BY <2>1
<1>4. CASE n.kind = "node48"
  <2>1. /\ Count(n) \in Nat /\ Count(n) <= Size48 /\ n.num = Count(n) /\ Size48 \in Nat
        /\ Used(n) = {i \in 1 .. Size48 : n.children[i] # Nil}
    <3>1. Mapped(n) /\ Indexed(n)
      BY <1>4, ShapeIndexed DEF Shape
    <3>2. Count(n) \in Nat /\ n.num = Count(n)
      BY <3>1 DEF Mapped, Indexed
    <3>3. Count(n) \in Shrink48 + 1 .. Size48 /\ Used(n) = {i \in 1 .. Size48 : n.children[i] # Nil}
      BY <1>4, NodeFits
    <3> QED
      BY <3>2, <3>3, Sizes
  <2>2. Swept(n) = 1 .. n.num /\ \A i \in 1 .. n.num : i \in 1 .. Size48
    BY <1>4, <2>1 DEF Swept
  <2>3. \A s \in Swept(n) : n.children[s] = Nil \/ s \in Used(n)
    BY <2>1, <2>2
  <2>4. ASSUME ~Holed(n) PROVE Used(n) = 1 .. n.num
    <3>1. PICK A, B : A = 1 .. n.num /\ B = Used(n)
      OBVIOUS
    <3>2. A \in SUBSET B
      BY <1>4, <2>1, <2>2, <2>4, <3>1 DEF Holed
    <3>3. IsFiniteSet(B)
      BY <3>1, ShapeIndexed DEF Indexed
    <3>4. Cardinality(A) = n.num
      <4>1. PICK c \in Nat : c = n.num
        BY <2>1
      <4>2. Cardinality(1 .. c) = c
        BY SMTT(40), FS_Interval
      <4> QED
        BY <3>1, <4>1, <4>2
    <3>5. Cardinality(B) = n.num
      BY <2>1, <3>1 DEF Count
    <3>6. B = A
      BY <3>2, <3>3, <3>4, <3>5, FS_Subset
    <3> QED
      BY <3>1, <3>6
  <2> QED
    BY <2>2, <2>3, <2>4
<1> QED
  BY <1>1, <1>2, <1>3, <1>4 DEF Kind

(* A step of it.                                                           *)
LEMMA FreedIs ==
  ASSUME NEW S
  PROVE  /\ S \subseteq Freed(S)
         /\ \A x \in S : IsInner(x) => \A s \in Swept(x) : x.children[s] \in Freed(S)
         /\ \A y \in Freed(S) : y \in S \/ \E x \in S : IsInner(x) /\ \E s \in Swept(x) : y = x.children[s]
BY DEF Freed, Swept

(* What it frees is in the tree ...                                        *)
Parted(y, L) == y = Nil \/ \E e, M : M \subseteq L /\ Good(y, e, M)

(* All that is freed is part of the tree.                                  *)
LEMMA FreedParts ==
  ASSUME NEW n, NEW d, NEW L, Good(n, d, L), NEW g, DestroyRun(g, n)
  PROVE  \A y \in g[MaxLen] : Parted(y, L)
<1>1. PICK T : T = {i \in Steps : \A y \in g[i] : Parted(y, L)}
  OBVIOUS
<1>2. \A y \in g[0] : Parted(y, L)
  BY DEF DestroyRun, Parted
<1>3. ASSUME NEW i \in T, i < MaxLen PROVE \A y \in g[i + 1] : Parted(y, L)
  <2> SUFFICES ASSUME NEW y \in g[i + 1] PROVE Parted(y, L)
    OBVIOUS
  <2>1. y \in Freed(g[i]) /\ \A x \in g[i] : Parted(x, L)
    BY <1>1, <1>3 DEF DestroyRun
  <2>2. CASE y \in g[i]
    BY <2>1, <2>2
  <2>3. CASE y \notin g[i]
    <3>1. PICK x \in g[i] : IsInner(x) /\ \E s \in Swept(x) : y = x.children[s]
      BY <2>1, <2>3, FreedIs
    <3>2. PICK s \in Swept(x) : y = x.children[s]
      BY <3>1
    <3>3. x # Nil
      BY <3>1, NilTop
    <3>4. PICK e, M : M \subseteq L /\ Good(x, e, M)
      BY <2>1, <3>1, <3>3 DEF Parted
    <3>5. Shape(x) /\ Fit(x)
      BY <3>1, <3>4, TreeFacts DEF Fork
    <3>6. y = Nil \/ s \in Used(x)
      BY <3>2, <3>5, SweptIs
    <3>7. CASE s \in Used(x)
      <4>1. PICK K : K \subseteq M /\ Good(x.children[s], e + x.plen + 1, K)
        BY <3>1, <3>4, <3>7, UsedChild
      <4>2. K \subseteq L
        BY <3>4, <4>1
      <4> QED
        BY <3>2, <4>1, <4>2 DEF Parted
    <3> QED
      BY <3>6, <3>7 DEF Parted
  <2> QED
    BY <2>2, <2>3
<1>4. 0 \in T /\ \A i \in T : i \in Steps /\ i < MaxLen => i + 1 \in T
  <2>1. 0 \in Steps /\ \A i \in Steps : i < MaxLen => i + 1 \in Steps
    BY Sizes DEF Steps
  <2> QED
    BY <1>1, <1>2, <1>3, <2>1
<1>5. \A i \in Steps : i \in T
  BY <1>4, StepInduction
<1>6. MaxLen \in Steps
  BY Sizes DEF Steps
<1> QED
  BY <1>1, <1>5, <1>6

(* ... and every leaf is freed, unless there is a hole.                    *)
Reached(X, Y, d, i, l) ==
  \E x \in X : /\ x.ref \in Y /\ x.depth \in Nat /\ i <= x.depth /\ IsInner(x.ref)
               /\ \E M : l \in M /\ Good(x.ref, d + x.depth, M)

(* A leaf that is not freed in a step is below a node that is freed then.  *)
LEMMA ReachedBelow ==
  ASSUME NEW d \in Nat, NEW X, \A x \in X : ~Holed(x.ref), NEW Y, NEW i \in Nat, NEW l, Reached(X, Y, d, i, l)
  PROVE  l \in Freed(Y) \/ Reached(WithBelow(X), Freed(Y), d, i + 1, l)
<1>1. PICK x \in X : /\ x.ref \in Y /\ x.depth \in Nat /\ i <= x.depth /\ IsInner(x.ref)
                     /\ \E M : l \in M /\ Good(x.ref, d + x.depth, M)
  BY DEF Reached
<1>2. PICK M : l \in M /\ Good(x.ref, d + x.depth, M)
  BY <1>1
<1>3. PICK n, e : n = x.ref /\ e = x.depth
  OBVIOUS
<1>4. Good(n, d + e, M) /\ IsInner(n) /\ e \in Nat /\ i <= e /\ n.plen \in Nat /\ Shape(n) /\ Fit(n) /\ n \in Y
  BY <1>1, <1>2, <1>3, TreeFacts DEF Fork
<1>5. PICK s \in Used(n) : \E K : l \in K /\ Good(n.children[s], (d + e) + n.plen + 1, K)
  BY <1>2, <1>4, ChildAbove
<1>6. PICK K : l \in K /\ Good(n.children[s], (d + e) + n.plen + 1, K)
  BY <1>5
<1>7. PICK h \in Nat : h = e + n.plen + 1
  BY <1>4
<1>8. (d + e) + n.plen + 1 = d + h /\ i + 1 <= h
  BY <1>4, <1>7
<1>9. Good(n.children[s], d + h, K)
  BY <1>6, <1>8
<1>10. n.children[s] \in Freed(Y)
  <2>1. ~Holed(n)
    BY <1>1, <1>3
  <2>2. s \in Swept(n)
    BY <1>4, <1>5, <2>1, SweptIs
  <2> QED
    BY <1>4, <2>2, FreedIs
<1>11. CASE IsLeaf(n.children[s])
  <2>1. n.children[s] = l
    BY <1>6, <1>9, <1>11, TreeFacts DEF Tip
  <2> QED
    BY <1>10, <2>1
<1>12. CASE ~IsLeaf(n.children[s])
  <2>1. IsInner(n.children[s])
    BY <1>9, <1>12, TreeFacts
  <2>2. PICK y : y = Below(x, s)
    OBVIOUS
  <2>3. y \in WithBelow(X)
    BY <1>3, <1>5, <2>1, <2>2 DEF WithBelow
  <2>4. y.ref = n.children[s] /\ y.depth = h
    BY <1>3, <1>7, <2>2, BelowIs
  <2>5. /\ Good(y.ref, d + y.depth, K) /\ y.depth \in Nat /\ i + 1 <= y.depth /\ IsInner(y.ref)
        /\ y.ref \in Freed(Y)
    BY <1>7, <1>8, <1>9, <1>10, <2>1, <2>4
  <2> QED
    BY <1>6, <2>3, <2>5 DEF Reached
<1> QED
  BY <1>11, <1>12

(* MaxLen steps reach every leaf.                                          *)
LEMMA LeafFreed ==
  ASSUME NEW n, NEW d, NEW L, Good(n, d, L), NEW g, DestroyRun(g, n), NEW l \in L,
         \A x \in Inner(n, 0) : ~Holed(x.ref)
  PROVE  l \in g[MaxLen]
<1>1. d \in Nat /\ MaxLen \in Nat
  BY TreeFacts, Sizes
<1>2. PICK f : InnerRun(f, n)
  BY InnerIs
<1>3. PICK T : T = {i \in Steps : l \in g[i] \/ Reached(f[i], g[i], d, i, l)}
  OBVIOUS
<1>4. l \in g[0] \/ Reached(f[0], g[0], d, 0, l)
  <2>1. g[0] = {n}
    BY DEF DestroyRun
  <2>2. CASE IsLeaf(n)
    BY <2>1, <2>2, TreeFacts DEF Tip
  <2>3. CASE ~IsLeaf(n)
    <3>1. IsInner(n)
      BY <2>3, TreeFacts
    <3>2. f[0] = {Top(n)} /\ Top(n).ref = n /\ Top(n).depth = 0
      BY <1>2, <3>1, InnerStart
    <3>3. d + 0 = d /\ 0 \in Nat /\ 0 <= 0
      BY <1>1
    <3>4. Top(n) \in f[0]
      BY <3>2
    <3> QED
      BY <2>1, <3>1, <3>2, <3>3, <3>4 DEF Reached
  <2> QED
    BY <2>2, <2>3
<1>5. ASSUME NEW i \in T, i < MaxLen PROVE l \in g[i + 1] \/ Reached(f[i + 1], g[i + 1], d, i + 1, l)
  <2>1. f[i + 1] = WithBelow(f[i]) /\ g[i + 1] = Freed(g[i]) /\ i \in Nat /\ i \in Steps
    BY <1>2, <1>3, <1>5 DEF InnerRun, DestroyRun, Steps
  <2>2. g[i] \subseteq g[i + 1]
    BY <2>1, FreedIs
  <2>3. \A x \in f[i] : ~Holed(x.ref)
    BY <1>2, <2>1, InnerGrows
  <2>4. Reached(f[i], g[i], d, i, l) => l \in g[i + 1] \/ Reached(f[i + 1], g[i + 1], d, i + 1, l)
    BY <1>1, <2>1, <2>3, ReachedBelow
  <2> QED
    BY <1>3, <2>2, <2>4
<1>6. 0 \in T /\ \A i \in T : i \in Steps /\ i < MaxLen => i + 1 \in T
  <2>1. 0 \in Steps /\ \A i \in Steps : i < MaxLen => i + 1 \in Steps
    BY Sizes DEF Steps
  <2> QED
    BY <1>3, <1>4, <1>5, <2>1
<1>7. \A i \in Steps : i \in T
  BY <1>6, StepInduction
<1>8. MaxLen \in Steps
  BY <1>1 DEF Steps
<1>9. l \in g[MaxLen] \/ Reached(f[MaxLen], g[MaxLen], d, MaxLen, l)
  BY <1>3, <1>7, <1>8
<1>10. Reached(f[MaxLen], g[MaxLen], d, MaxLen, l) => Near(f[MaxLen], d, MaxLen, l)
  BY DEF Reached, Near
<1> QED
  BY <1>1, <1>9, <1>10, NotNear

(* destroy_node frees leaves of the tree, and all of them if there is no   *)
(* hole.                                                                   *)
LEMMA DestroyedOK ==
  ASSUME NEW n, NEW L, Good(n, 0, L)
  PROVE  /\ Destroyed(n) \subseteq {l.key : l \in L}
         /\ (\A x \in Inner(n, 0) : ~Holed(x.ref)) => {l.key : l \in L} \subseteq Destroyed(n)
<1>1. PICK g : DestroyRun(g, n)
  BY DestroyedIs
<1>2. ASSUME \A x \in Inner(n, 0) : ~Holed(x.ref) PROVE \A l \in L : l \in g[MaxLen]
  BY <1>1, <1>2, LeafFreed
<1>3. \A l \in L : IsLeaf(l)
  <2>1. Leaves(n) = L
    BY LeavesAre
  <2> QED
    BY <2>1 DEF Leaves
<1>4. \A y \in g[MaxLen] : IsLeaf(y) => y \in L
  <2> SUFFICES ASSUME NEW y \in g[MaxLen], IsLeaf(y) PROVE y \in L
    OBVIOUS
  <2>1. Parted(y, L)
    BY <1>1, FreedParts
  <2>2. y # Nil
    BY NilTop
  <2>3. PICK e, M : M \subseteq L /\ Good(y, e, M)
    BY <2>1, <2>2 DEF Parted
  <2> QED
    BY <2>3, TreeFacts DEF Tip
<1>5. Destroyed(n) = {y.key : y \in {z \in g[MaxLen] : IsLeaf(z)}}
  BY <1>1 DEF DestroyRun
<1>6. \A k \in Destroyed(n) : \E y \in L : k = y.key
  BY <1>4, <1>5
<1>7. ASSUME \A x \in Inner(n, 0) : ~Holed(x.ref), NEW l \in L PROVE l.key \in Destroyed(n)
  BY <1>2, <1>3, <1>5, <1>7
<1> QED
  BY <1>6, <1>7

(* destroy_node of an empty tree.                                          *)
LEMMA DestroyedNil == Destroyed(Nil) = {}
<1>1. PICK g : DestroyRun(g, Nil)
  BY DestroyedIs
<1>2. PICK a : a = {Nil}
  OBVIOUS
<1>3. Freed(a) = a
  <2>1. \A x \in a : ~IsInner(x)
    BY <1>2, NilTop
  <2> QED
    BY <2>1, FreedIs
<1>4. \A i \in Steps : i < MaxLen /\ g[i] = a => g[i + 1] = a
  BY <1>1, <1>3 DEF DestroyRun
<1>5. g[0] = a
  BY <1>1, <1>2 DEF DestroyRun
<1>6. g[MaxLen] = a
  BY <1>4, <1>5, StaysSo
<1>7. {y \in g[MaxLen] : IsLeaf(y)} = {}
  BY <1>2, <1>6, NilTop
<1> QED
  BY <1>1, <1>7 DEF DestroyRun

(* destroy_art_tree of such a tree frees its leaves, and all of them       *)
(* unless there is a hole.                                                 *)
LEMMA InvDestroyFreesAll == ASSUME ArtInv PROVE DestroyFreesAll
<1>1. PICK L : L = LeavesOf(map)
  OBVIOUS
<1>2. {l.key : l \in L} = Bound
  BY <1>1, LeavesOfIs DEF Bound
<1>3. Represents(root, map)
  BY DEF ArtInv
<1>4. CASE root = Nil /\ L = {}
  BY <1>2, <1>4, DestroyedNil DEF DestroyFreesAll
<1>5. CASE Good(root, 0, L)
  <2>1. Destroyed(root) \subseteq Bound
    BY <1>2, <1>5, DestroyedOK
  <2>2. (\A x \in Inner(root, 0) : ~Holed(x.ref)) => Bound \subseteq Destroyed(root)
    BY <1>2, <1>5, DestroyedOK
  <2>3. (\E x \in Inner(root, 0) : Holed(x.ref)) => Hole
    BY DEF Hole, Holed
  <2> QED
    BY <2>1, <2>2, <2>3 DEF DestroyFreesAll
<1> QED
  BY <1>1, <1>3, <1>4, <1>5 DEF Represents

(* DestroyFreesAll: destroy_node frees leaves of the tree only, and all of *)
(* them unless a node of 48 children has a hole among its first            *)
(* num_children slots: for every tree that is not torn.                    *)
THEOREM DestroyAlwaysFreesAll == Spec => []DestroyFreesAll
<1>1. Init => torn \/ ArtInv
  BY InitStands
<1>2. (torn \/ ArtInv) /\ [Next]_vars => (torn \/ ArtInv)'
  BY StepSound
<1>3. torn \/ ArtInv => DestroyFreesAll
  BY InvDestroyFreesAll DEF DestroyFreesAll
<1> QED
  BY <1>1, <1>2, <1>3, PTL DEF Spec


-----------------------------------------------------------------------------
(* Sequences of sequences.                                                 *)

(* F is what FlattenSeq makes of the first m sequences of Q.               *)
Flat(Q, m, f) == f = [i \in 1 .. m |-> IF i = 1 THEN Q[i] ELSE f[i - 1] \o Q[i]]

(* There is a function such as FlattenSeq chooses.                         *)
LEMMA FlatExists ==
  ASSUME NEW Q, NEW m \in Nat, 1 <= m
  PROVE  \E f : Flat(Q, m, f)
<1> DEFINE D == {j \in 0 .. m - 1 : \E f : Flat(Q, j + 1, f)}
<1>1. 0 \in D
  <2>1. PICK f : f = [i \in 1 .. 1 |-> Q[i]]
    OBVIOUS
  <2>2. \A i \in 1 .. 1 : i = 1
    OBVIOUS
  <2>3. f = [i \in 1 .. 1 |-> IF i = 1 THEN Q[i] ELSE f[i - 1] \o Q[i]]
    BY <2>1, <2>2
  <2>4. 0 + 1 = 1 /\ 0 \in 0 .. m - 1
    OBVIOUS
  <2> QED
    BY <2>3, <2>4 DEF Flat
<1>2. ASSUME NEW j \in D, j < m - 1 PROVE j + 1 \in D
  <2>1. PICK f : Flat(Q, j + 1, f)
    OBVIOUS
  <2>2. PICK k \in Nat : k = j + 1 /\ 1 <= k /\ k \in 0 .. m - 1
    BY <1>2
  <2>3. PICK x : x = f[k] \o Q[k + 1]
    OBVIOUS
  <2>4. PICK g : g = [i \in 1 .. k + 1 |-> IF i = k + 1 THEN x ELSE f[i]]
    OBVIOUS
  <2>5. ASSUME NEW i \in 1 .. k + 1 PROVE g[i] = IF i = 1 THEN Q[i] ELSE g[i - 1] \o Q[i]
    <3>1. CASE i = k + 1
      <4>1. g[i] = x /\ i # 1 /\ i - 1 = k /\ k \in 1 .. k + 1 /\ k # k + 1
        BY <2>2, <2>4, <3>1
      <4>2. g[i - 1] = f[k]
        BY <2>4, <4>1
      <4> QED
        BY <2>3, <3>1, <4>1, <4>2
    <3>2. CASE i # k + 1
      <4>1. i \in 1 .. k /\ (i # 1 => i - 1 \in 1 .. k + 1 /\ i - 1 # k + 1)
        BY <2>2, <3>2
      <4>2. f[i] = IF i = 1 THEN Q[i] ELSE f[i - 1] \o Q[i]
        BY <2>1, <2>2, <4>1 DEF Flat
      <4>3. g[i] = f[i] /\ (i # 1 => g[i - 1] = f[i - 1])
        BY <2>4, <3>2, <4>1
      <4> QED
        BY <4>2, <4>3
    <3> QED
      BY <3>1, <3>2
  <2>6. DOMAIN g = 1 .. k + 1 /\ g = [i \in 1 .. k + 1 |-> g[i]]
    BY <2>4
  <2>7. g = [i \in 1 .. k + 1 |-> IF i = 1 THEN Q[i] ELSE g[i - 1] \o Q[i]]
    BY <2>5, <2>6
  <2> QED
    BY <2>2, <2>7 DEF Flat
<1>3. D \in SUBSET (0 .. m - 1) /\ m - 1 \in Nat
  OBVIOUS
<1> HIDE DEF D
<1>4. D = 0 .. m - 1
  BY <1>1, <1>2, <1>3, Induction
<1>5. m - 1 \in D /\ m - 1 + 1 = m
  BY <1>3, <1>4
<1> QED
  BY <1>5 DEF D

(* Two elements of the sequences, the first before the second, are in S.   *)
Follow(Q, m, S) ==
  /\ \A i \in 1 .. m : \A u, v \in 1 .. Len(Q[i]) : u < v => <<Q[i][u], Q[i][v]>> \in S
  /\ \A i, j \in 1 .. m : i < j => \A u \in 1 .. Len(Q[i]), v \in 1 .. Len(Q[j]) : <<Q[i][u], Q[j][v]>> \in S

(* t has the elements of the first m sequences and no others.              *)
Holds(t, Q, m) ==
  /\ \A p \in 1 .. Len(t) : \E i \in 1 .. m : \E u \in 1 .. Len(Q[i]) : t[p] = Q[i][u]
  /\ \A i \in 1 .. m : \A u \in 1 .. Len(Q[i]) : \E p \in 1 .. Len(t) : t[p] = Q[i][u]

(* Only these sequences matter.                                            *)
LEMMA HoldsSame ==
  ASSUME NEW t, NEW Q, NEW R, NEW m, \A i \in 1 .. m : R[i] = Q[i], Holds(t, R, m)
  PROVE  Holds(t, Q, m)
<1>1. ASSUME NEW p \in 1 .. Len(t) PROVE \E i \in 1 .. m : \E u \in 1 .. Len(Q[i]) : t[p] = Q[i][u]
  <2>1. PICK i \in 1 .. m : \E u \in 1 .. Len(R[i]) : t[p] = R[i][u]
    BY Zenon DEF Holds
  <2>2. R[i] = Q[i]
    OBVIOUS
  <2> QED
    BY <2>1, <2>2
<1>2. ASSUME NEW i \in 1 .. m, NEW u \in 1 .. Len(Q[i]) PROVE \E p \in 1 .. Len(t) : t[p] = Q[i][u]
  <2>1. R[i] = Q[i]
    OBVIOUS
  <2>2. \A v \in 1 .. Len(R[i]) : \E p \in 1 .. Len(t) : t[p] = R[i][v]
    BY Zenon DEF Holds
  <2> QED
    BY <2>1, <2>2
<1> QED
  BY <1>1, <1>2, Zenon DEF Holds

(* Of two elements of t the first and the second are in S.                 *)
Ordered(t, S) == \A p, r \in 1 .. Len(t) : p < r => <<t[p], t[r]>> \in S

(* One more sequence.                                                      *)
LEMMA FlatMore ==
  ASSUME NEW T, NEW m \in Nat, NEW Q \in [1 .. m + 1 -> Seq(T)], NEW S, Follow(Q, m + 1, S),
         NEW t \in Seq(T), Holds(t, Q, m), Ordered(t, S), NEW y, y = t \o Q[m + 1]
  PROVE  y \in Seq(T) /\ Holds(y, Q, m + 1) /\ Ordered(y, S)
<1>1. PICK k : k = m + 1 /\ k \in 1 .. m + 1 /\ k \in Nat
  OBVIOUS
<1>2. PICK g : g = Q[k]
  OBVIOUS
<1>3. g \in Seq(T)
  BY <1>1, <1>2
<1>4. PICK a, b : a = Len(t) /\ b = Len(g)
  OBVIOUS
<1>5. a \in Nat /\ b \in Nat
  BY <1>3, <1>4
<1>6. /\ y \in Seq(T) /\ Len(y) = a + b
      /\ \A p \in 1 .. a : y[p] = t[p]
      /\ \A u \in 1 .. b : y[a + u] = g[u]
  BY <1>1, <1>2, <1>3, <1>4, Joined
<1>7. ASSUME NEW p \in 1 .. a + b, ~(p \in 1 .. a) PROVE \E u \in 1 .. b : p = a + u
  <2>1. p - a \in 1 .. b /\ p = a + (p - a)
    BY <1>5, <1>7
  <2> QED
    BY <2>1
<1>8. \A p \in 1 .. a : p \in 1 .. a + b
  BY <1>5
<1>9. \A u \in 1 .. b : a + u \in 1 .. a + b
  BY <1>5
<1>10. \A i \in 1 .. m : i \in 1 .. k /\ i < k
  BY <1>1
<1>11. \A i \in 1 .. k : i \in 1 .. m \/ i = k
  BY <1>1
<1>12. Holds(y, Q, k)
  <2>1. ASSUME NEW p \in 1 .. Len(y) PROVE \E i \in 1 .. k : \E u \in 1 .. Len(Q[i]) : y[p] = Q[i][u]
    <3>1. CASE p \in 1 .. a
      <4>1. PICK i \in 1 .. m : \E u \in 1 .. Len(Q[i]) : t[p] = Q[i][u]
        BY <1>4, <3>1 DEF Holds
      <4> QED
        BY <1>6, <1>10, <3>1, <4>1
    <3>2. CASE ~(p \in 1 .. a)
      <4>1. PICK u \in 1 .. b : p = a + u
        BY <1>6, <1>7, <3>2
      <4>2. y[p] = Q[k][u] /\ u \in 1 .. Len(Q[k]) /\ k \in 1 .. k
        BY <1>1, <1>2, <1>4, <1>6, <4>1
      <4> QED
        BY <4>2
    <3> QED
      BY <3>1, <3>2
  <2>2. ASSUME NEW i \in 1 .. k, NEW u \in 1 .. Len(Q[i]) PROVE \E p \in 1 .. Len(y) : y[p] = Q[i][u]
    <3>1. CASE i \in 1 .. m
      <4>1. PICK p \in 1 .. a : t[p] = Q[i][u]
        BY <1>4, <3>1 DEF Holds
      <4> QED
        BY <1>6, <1>8, <4>1
    <3>2. CASE i = k
      <4>1. u \in 1 .. b /\ Q[i][u] = g[u]
        BY <1>2, <1>4, <3>2
      <4>2. a + u \in 1 .. Len(y) /\ y[a + u] = g[u]
        BY <1>6, <1>9, <4>1
      <4> QED
        BY <4>1, <4>2
    <3> QED
      BY <1>11, <3>1, <3>2
  <2> QED
    BY <2>1, <2>2 DEF Holds
<1>13. Ordered(y, S)
  <2> SUFFICES ASSUME NEW p \in 1 .. a + b, NEW r \in 1 .. a + b, p < r PROVE <<y[p], y[r]>> \in S
    BY <1>6 DEF Ordered
  <2>1. CASE p \in 1 .. a /\ r \in 1 .. a
    BY <1>4, <1>6, <2>1 DEF Ordered
  <2>2. CASE p \in 1 .. a /\ ~(r \in 1 .. a)
    <3>1. PICK v \in 1 .. b : r = a + v
      BY <1>7, <2>2
    <3>2. PICK i \in 1 .. m : \E u \in 1 .. Len(Q[i]) : t[p] = Q[i][u]
      BY <1>4, <2>2 DEF Holds
    <3>3. PICK u \in 1 .. Len(Q[i]) : t[p] = Q[i][u]
      BY <3>2
    <3>4. y[p] = Q[i][u] /\ y[r] = Q[k][v] /\ v \in 1 .. Len(Q[k])
      BY <1>2, <1>4, <1>6, <2>2, <3>1, <3>3
    <3>5. i \in 1 .. m + 1 /\ k \in 1 .. m + 1 /\ i < k
      BY <1>1, <1>10
    <3> QED
      BY <3>4, <3>5 DEF Follow
  <2>3. CASE ~(p \in 1 .. a) /\ ~(r \in 1 .. a)
    <3>1. PICK u \in 1 .. b : p = a + u
      BY <1>7, <2>3
    <3>2. PICK v \in 1 .. b : r = a + v
      BY <1>7, <2>3
    <3>3. u < v
      BY <1>5, <3>1, <3>2
    <3>4. y[p] = Q[k][u] /\ y[r] = Q[k][v] /\ u \in 1 .. Len(Q[k]) /\ v \in 1 .. Len(Q[k])
      BY <1>2, <1>4, <1>6, <3>1, <3>2
    <3> QED
      BY <1>1, <3>3, <3>4 DEF Follow
  <2>4. ~(~(p \in 1 .. a) /\ r \in 1 .. a)
    BY <1>5
  <2> QED
    BY <2>1, <2>2, <2>3, <2>4
<1> QED
  BY <1>1, <1>6, <1>12, <1>13

(* FlattenSeq has the elements of the sequences in their order.            *)
LEMMA FlattenIs ==
  ASSUME NEW T, NEW m \in Nat, NEW Q \in [1 .. m -> Seq(T)], NEW S, Follow(Q, m, S),
         NEW y, y = FlattenSeq(Q)
  PROVE  y \in Seq(T) /\ Holds(y, Q, m) /\ Ordered(y, S)
<1>1. Len(Q) = m
  OBVIOUS
<1>2. CASE m = 0
  <2>1. y = Q
    BY <1>1, <1>2 DEF FlattenSeq
  <2>2. y \in Seq(T) /\ Len(y) = 0
    BY <1>1, <1>2, <2>1
  <2>3. \A i \in 1 .. m : FALSE
    BY <1>2
  <2>4. \A i \in 1 .. Len(y) : FALSE
    BY <2>2
  <2>5. Holds(y, Q, m)
    BY <2>3, <2>4, Zenon DEF Holds
  <2>6. Ordered(y, S)
    BY <2>4, Zenon DEF Ordered
  <2> QED
    BY <2>2, <2>5, <2>6
<1>3. CASE 1 <= m
  <2>0. Len(Q) # 0
    BY <1>1, <1>3
  <2>1. y = (CHOOSE f : Flat(Q, m, f))[m]
    BY <1>1, <2>0, Zenon DEF FlattenSeq, Flat
  <2>2. PICK f : Flat(Q, m, f) /\ y = f[m]
    BY <1>3, <2>1, FlatExists
  <2> DEFINE D == {j \in 0 .. m - 1 : f[j + 1] \in Seq(T) /\ Holds(f[j + 1], Q, j + 1) /\ Ordered(f[j + 1], S)}
  <2>3. f[1] = Q[1] /\ \A j \in 1 .. m - 1 : f[j + 1] = f[j] \o Q[j + 1]
    <3>1. 1 \in 1 .. m /\ \A j \in 1 .. m - 1 : j + 1 \in 1 .. m /\ j + 1 # 1 /\ (j + 1) - 1 = j
      BY <1>3
    <3> QED
      BY <2>2, <3>1 DEF Flat
  <2>4. 0 \in D
    <3>1. Q[1] \in Seq(T) /\ 0 + 1 = 1 /\ 0 \in 0 .. m - 1
      BY <1>3
    <3>2. Holds(Q[1], Q, 1)
      <4>1. \A i \in 1 .. 1 : i = 1
        OBVIOUS
      <4> QED
        BY <4>1 DEF Holds
    <3>3. Ordered(Q[1], S)
      BY <1>3 DEF Ordered, Follow
    <3> QED
      BY <2>3, <3>1, <3>2, <3>3
  <2>5. ASSUME NEW j \in D, j < m - 1 PROVE j + 1 \in D
    <3>1. PICK k \in Nat : k = j + 1 /\ k \in 1 .. m - 1 /\ k + 1 \in 1 .. m /\ k \in 0 .. m - 1
      BY <2>5
    <3>2. f[k] \in Seq(T) /\ Holds(f[k], Q, k) /\ Ordered(f[k], S) /\ f[k + 1] = f[k] \o Q[k + 1]
      BY <2>3, <3>1
    <3>3. PICK R : R = [i \in 1 .. k + 1 |-> Q[i]]
      OBVIOUS
    <3>4. \A i \in 1 .. k + 1 : i \in 1 .. m /\ R[i] = Q[i]
      BY <3>1, <3>3
    <3>5. R \in [1 .. k + 1 -> Seq(T)]
      BY <3>3, <3>4
    <3>6. Follow(R, k + 1, S)
      <4>1. ASSUME NEW i \in 1 .. k + 1, NEW u \in 1 .. Len(R[i]), NEW v \in 1 .. Len(R[i]), u < v
            PROVE  <<R[i][u], R[i][v]>> \in S
        <5>1. i \in 1 .. m /\ R[i] = Q[i]
          BY <3>4
        <5> QED
          BY <4>1, <5>1 DEF Follow
      <4>2. ASSUME NEW i \in 1 .. k + 1, NEW l \in 1 .. k + 1, i < l,
                   NEW u \in 1 .. Len(R[i]), NEW v \in 1 .. Len(R[l])
            PROVE  <<R[i][u], R[l][v]>> \in S
        <5>1. i \in 1 .. m /\ R[i] = Q[i] /\ l \in 1 .. m /\ R[l] = Q[l]
          BY <3>4
        <5> QED
          BY <4>2, <5>1 DEF Follow
      <4> QED
        BY <4>1, <4>2 DEF Follow
    <3>7. \A i \in 1 .. k : i \in 1 .. k + 1
      BY <3>1
    <3>8. Holds(f[k], R, k)
      <4>1. \A i \in 1 .. k : R[i] = Q[i]
        BY <3>4, <3>7
      <4> QED
        BY <3>2, <4>1, HoldsSame
    <3>9. f[k + 1] = f[k] \o R[k + 1]
      <4>1. k + 1 \in 1 .. k + 1
        BY <3>1
      <4> QED
        BY <3>2, <3>4, <4>1
    <3>10. f[k + 1] \in Seq(T) /\ Holds(f[k + 1], R, k + 1) /\ Ordered(f[k + 1], S)
      BY <3>2, <3>5, <3>6, <3>8, <3>9, FlatMore
    <3>11. Holds(f[k + 1], Q, k + 1)
      BY <3>4, <3>10, HoldsSame
    <3> QED
      BY <3>1, <3>10, <3>11
  <2>6. D \in SUBSET (0 .. m - 1) /\ m - 1 \in Nat
    BY <1>3
  <2> HIDE DEF D
  <2>7. D = 0 .. m - 1
    BY <2>4, <2>5, <2>6, Induction
  <2>8. m - 1 \in D /\ (m - 1) + 1 = m
    BY <2>6, <2>7
  <2> QED
    BY <2>2, <2>8 DEF D
<1> QED
  BY <1>2, <1>3

-----------------------------------------------------------------------------
(* The order of the slots of a node.                                       *)

(* The bytes of a small node ascend.                                       *)
Straight(n) == n.kind \in {"node4", "node16"} => Rising(n.keys)

(* b gives the bytes of the slots, in the order of the slots.              *)
SlotBytes(n, b) ==
  /\ b \in [1 .. Count(n) -> Byte] /\ Count(n) \in Nat /\ DOMAIN Slots(n) = 1 .. Count(n)
  /\ \A i \in 1 .. Count(n) : Slots(n)[i] \in FindChild(n, b[i])
  /\ \A i, j \in 1 .. Count(n) : b[i] = b[j] => i = j
  /\ \A c \in Byte : FindChild(n, c) # {} => \E i \in 1 .. Count(n) : b[i] = c
  /\ Straight(n) => Rising(b)

(* Every slot has a byte, which ascend if those of a small node do.        *)
LEMMA SlotBytesAre ==
  ASSUME NEW n, Shape(n)
  PROVE  \E b : SlotBytes(n, b)
<1>1. Indexed(n) /\ n.kind \in Kind
  BY ShapeIndexed DEF Shape, Record
<1>2. PICK z : z = Count(n)
  OBVIOUS
<1>3. z \in Nat /\ DOMAIN Slots(n) = 1 .. z
  <2>1. Slots(n) \in Seq(Used(n)) /\ Len(Slots(n)) = z
    BY <1>2, SlotsAre
  <2>2. z \in Nat
    BY <1>1, <1>2 DEF Indexed
  <2> QED
    BY <2>1, <2>2
<1>4. CASE n.kind = "node48"
  <2>1. Mapped(n)
    BY <1>4 DEF Shape
  <2>2. PICK U : U = {c \in Byte : n.keys[c] # 0}
    OBVIOUS
  <2>3. IsFiniteSet(U) /\ Cardinality(U) = z
    BY <1>2, <1>4, <2>1, <2>2, MappedCount
  <2>4. U \in SUBSET Nat /\ U \in SUBSET Byte
    BY <2>2, BytesFinite
  <2>5. PICK b : b = Ascending(U)
    OBVIOUS
  <2>6. Lists(b, U) /\ Rising(b)
    BY <2>3, <2>4, <2>5, AscendingIs
  <2>7. /\ b \in [1 .. z -> U]
        /\ \A x \in U : \E i \in 1 .. z : b[i] = x
        /\ \A i, j \in 1 .. z : b[i] = b[j] => i = j
    BY <2>3, <2>6 DEF Lists
  <2>8. \A i \in 1 .. z : Slots(n)[i] = n.keys[b[i]]
    BY <1>4, <2>2, <2>5, <2>7 DEF Slots
  <2>9. \A c \in Byte : FindChild(n, c) = {n.keys[c]} \ {0}
    BY <1>4 DEF FindChild
  <2>10. \A i \in 1 .. z : Slots(n)[i] \in FindChild(n, b[i])
    <3> SUFFICES ASSUME NEW i \in 1 .. z PROVE Slots(n)[i] \in FindChild(n, b[i])
      OBVIOUS
    <3>1. b[i] \in U
      BY <2>7
    <3>2. b[i] \in Byte /\ n.keys[b[i]] # 0
      BY <2>2, <3>1
    <3> QED
      BY <2>8, <2>9, <3>2
  <2>11. \A c \in Byte : FindChild(n, c) # {} => \E i \in 1 .. z : b[i] = c
    BY <2>2, <2>7, <2>9
  <2>12. b \in [1 .. z -> Byte]
    BY <2>4, <2>7
  <2>13. SlotBytes(n, b)
    BY <1>2, <1>3, <2>6, <2>7, <2>10, <2>11, <2>12 DEF SlotBytes
  <2> QED
    BY <2>13
<1>5. CASE n.kind # "node48"
  <2>1. Used(n) \in SUBSET Nat /\ IsFiniteSet(Used(n)) /\ Cardinality(Used(n)) = z
    BY <1>1, <1>2 DEF Indexed, Count
  <2>2. PICK s : s = Slots(n)
    OBVIOUS
  <2>3. s = Ascending(Used(n))
    BY <1>5, <2>2 DEF Slots
  <2>4. Lists(s, Used(n)) /\ Rising(s)
    BY <2>1, <2>3, AscendingIs
  <2>5. /\ s \in [1 .. z -> Used(n)]
        /\ \A x \in Used(n) : \E i \in 1 .. z : s[i] = x
        /\ \A i, j \in 1 .. z : s[i] = s[j] => i = j
    BY <2>1, <2>4 DEF Lists
  <2>6. CASE n.kind = "node256"
    <3>1. Direct(n)
      BY <2>6 DEF Shape
    <3>2. Used(n) = {c \in Byte : n.children[c] # Nil} /\ \A c \in Byte : FindChild(n, c) = {b \in {c} : n.children[b] # Nil}
      BY <2>6, <3>1, DirectIndexed
    <3>3. s \in [1 .. z -> Byte]
      BY <2>5, <3>2
    <3>4. \A i \in 1 .. z : s[i] \in FindChild(n, s[i])
      <4> SUFFICES ASSUME NEW i \in 1 .. z PROVE s[i] \in FindChild(n, s[i])
        OBVIOUS
      <4>1. s[i] \in Byte /\ n.children[s[i]] # Nil
        BY <2>5, <3>2
      <4> QED
        BY <3>2, <4>1
    <3>5. \A c \in Byte : FindChild(n, c) # {} => \E i \in 1 .. z : s[i] = c
      BY <2>5, <3>2
    <3>6. SlotBytes(n, s)
      BY <1>2, <1>3, <2>2, <2>4, <2>5, <3>3, <3>4, <3>5 DEF SlotBytes
    <3> QED
      BY <3>6
  <2>7. CASE n.kind \in {"node4", "node16"}
    <3>1. PICK max : Small(n, max) /\ max \in Nat /\ max < NByte
      BY <2>7, Sizes DEF Shape
    <3>2. Used(n) = 1 .. n.num
      BY <2>7, <3>1, SmallIndexed
    <3>3. n.keys \in Seq(Byte) /\ Len(n.keys) = n.num
      BY <3>1 DEF Small
    <3>4. n.num \in Nat /\ DOMAIN n.keys = 1 .. n.num /\ \A i \in 1 .. n.num : n.keys[i] \in Byte
      BY <3>3
    <3>5. PICK b : b = [i \in 1 .. z |-> n.keys[s[i]]]
      OBVIOUS
    <3>6. b \in [1 .. z -> Byte] /\ \A i \in 1 .. z : b[i] = n.keys[s[i]] /\ s[i] \in 1 .. n.num
      BY <2>5, <3>2, <3>4, <3>5
    <3>7. \A c, t : t \in FindChild(n, c) <=> t \in 1 .. n.num /\ n.keys[t] = c
      BY <2>7, <3>1, SmallFind
    <3>8. \A i \in 1 .. z : s[i] \in FindChild(n, b[i])
      BY <3>6, <3>7
    <3>9. \A i, j \in 1 .. z : b[i] = b[j] => i = j
      BY <2>5, <3>1, <3>6 DEF Small
    <3>10. ASSUME NEW c \in Byte, FindChild(n, c) # {} PROVE \E i \in 1 .. z : b[i] = c
      <4>1. PICK t : t \in 1 .. n.num /\ n.keys[t] = c
        BY <3>7, <3>10
      <4>2. PICK i \in 1 .. z : s[i] = t
        BY <2>5, <3>2, <4>1
      <4> QED
        BY <3>6, <4>1, <4>2
    <3>11. ASSUME Straight(n) PROVE Rising(b)
      <4>1. \A i, j \in 1 .. n.num : i < j => n.keys[i] < n.keys[j]
        BY <2>7, <3>4, <3>11 DEF Straight, Rising
      <4>2. \A i, j \in 1 .. z : i < j => s[i] < s[j]
        BY <2>4, <2>5 DEF Rising
      <4> QED
        BY <3>6, <4>1, <4>2 DEF Rising
    <3>12. SlotBytes(n, b)
      BY <1>2, <1>3, <2>2, <3>6, <3>8, <3>9, <3>10, <3>11 DEF SlotBytes
    <3> QED
      BY <3>12
  <2> QED
    BY <1>1, <1>5, <2>6, <2>7 DEF Kind
<1> QED
  BY <1>4, <1>5

(* The leaves below x come before those below y, as R says.                *)
Before(x, y, R) == \A a \in Leaves(x), b \in Leaves(y) : <<a, b>> \in R

(* So do those below each child and a later one.                           *)
Sorts(n, R) ==
  \A i, j \in DOMAIN Slots(n) : i < j => Before(n.children[Slots(n)[i]], n.children[Slots(n)[j]], R)

(* Two leaves of L are different; the keys of two leaves of L are in order. *)
Distinct(L) == {p \in L \X L : p[1] # p[2]}
Lesser(L) == {p \in L \X L : Less(p[1].key, p[2].key)}

(* The children of a node have the leaves of their bytes.                  *)
LEMMA SlotLeaves ==
  ASSUME NEW n, NEW d, NEW L, Good(n, d, L), IsInner(n), NEW b, SlotBytes(n, b),
         NEW i \in 1 .. Count(n)
  PROVE  /\ Good(n.children[Slots(n)[i]], d + n.plen + 1, Share(L, b[i], d + n.plen + 1))
         /\ Leaves(n.children[Slots(n)[i]]) = Share(L, b[i], d + n.plen + 1)
         /\ Slots(n)[i] \in Used(n)
<1>1. b[i] \in Byte /\ Slots(n)[i] \in FindChild(n, b[i])
  BY DEF SlotBytes
<1>2. Good(n.children[Slots(n)[i]], d + n.plen + 1, Share(L, b[i], d + n.plen + 1))
  BY <1>1, GoodChild
<1>3. Indexed(n)
  BY TreeFacts, ShapeIndexed DEF Fork
<1>4. Slots(n)[i] \in Used(n)
  BY <1>1, <1>3 DEF Indexed
<1> QED
  BY <1>2, <1>4, LeavesAre

(* No leaf is below two children.                                          *)
LEMMA SortsDistinct ==
  ASSUME NEW n, NEW d, NEW M, Good(n, d, M), IsInner(n), NEW L, M \subseteq L
  PROVE  Sorts(n, Distinct(L))
<1>1. Shape(n)
  BY TreeFacts DEF Fork
<1>2. PICK b : SlotBytes(n, b)
  BY <1>1, SlotBytesAre
<1>3. PICK e : e = d + n.plen + 1
  OBVIOUS
<1> SUFFICES ASSUME NEW i \in 1 .. Count(n), NEW j \in 1 .. Count(n), i < j,
                    NEW a \in Leaves(n.children[Slots(n)[i]]), NEW c \in Leaves(n.children[Slots(n)[j]])
             PROVE  <<a, c>> \in Distinct(L)
  BY <1>2 DEF SlotBytes, Sorts, Before
<1>4. a \in Share(M, b[i], e) /\ c \in Share(M, b[j], e)
  BY <1>2, <1>3, SlotLeaves
<1>5. b[i] # b[j]
  BY <1>2 DEF SlotBytes
<1>6. a \in L /\ c \in L /\ a # c
  BY <1>4, <1>5 DEF Share
<1> QED
  BY <1>6 DEF Distinct

(* The leaves of a node whose bytes ascend are in the order of their keys. *)
LEMMA SortsLesser ==
  ASSUME NEW n, NEW d, NEW M, Good(n, d, M), IsInner(n), Straight(n), NEW L, M \subseteq L
  PROVE  Sorts(n, Lesser(L))
<1>1. Shape(n) /\ Fork(n, d, M) /\ d \in Nat /\ n.plen \in Nat
  BY TreeFacts DEF Fork
<1>2. PICK b : SlotBytes(n, b)
  BY <1>1, SlotBytesAre
<1>3. PICK e \in Nat : e = d + n.plen
  BY <1>1
<1> SUFFICES ASSUME NEW i \in 1 .. Count(n), NEW j \in 1 .. Count(n), i < j,
                    NEW a \in Leaves(n.children[Slots(n)[i]]), NEW c \in Leaves(n.children[Slots(n)[j]])
             PROVE  <<a, c>> \in Lesser(L)
  BY <1>2 DEF SlotBytes, Sorts, Before
<1>4. a \in Share(M, b[i], e + 1) /\ c \in Share(M, b[j], e + 1)
  BY <1>2, <1>3, SlotLeaves
<1>5. b[i] < b[j]
  <2>1. DOMAIN b = 1 .. Count(n) /\ Rising(b)
    BY <1>2 DEF SlotBytes
  <2> QED
    BY <2>1 DEF Rising
<1>6. a \in M /\ c \in M /\ a.key[e + 1] < c.key[e + 1]
  BY <1>4, <1>5 DEF Share
<1>7. PICK k, l : k = a.key /\ l = c.key
  OBVIOUS
<1>8. k \in Key /\ l \in Key /\ e < Len(k) /\ e < Len(l) /\ \A x \in 1 .. e : k[x] = l[x]
  BY <1>1, <1>3, <1>6, <1>7 DEF Fork
<1>9. k \in Seq(Byte) /\ l \in Seq(Byte) /\ Len(k) \in Nat /\ Len(l) \in Nat
  BY <1>8, KeyFacts
<1>10. SubSeq(k, 1, e) = SubSeq(l, 1, e)
  BY <1>8, <1>9, SameStart
<1>11. e + 1 \in DOMAIN k /\ e + 1 \in DOMAIN l /\ (e + 1) - 1 = e
  BY <1>8, <1>9
<1>12. Less(k, l)
  BY <1>6, <1>7, <1>10, <1>11, Zenon DEF Less
<1> QED
  BY <1>6, <1>7, <1>12 DEF Lesser

-----------------------------------------------------------------------------
(* recursive_iter.                                                         *)

(* The rows of trees it goes through.                                      *)
IterRun(f, n) ==
  /\ DOMAIN f = Steps /\ f[0] = <<n>>
  /\ \A i \in Steps : i < MaxLen => f[i + 1] = Opened(f[i])
  /\ n # Nil => Iter(n) = f[MaxLen]

(* Iter is the last row.                                                   *)
LEMMA IterIs ==
  ASSUME NEW n
  PROVE  \E f : IterRun(f, n)
<1> DEFINE G(x) == Opened(x)
           A == <<n>>
           Runs(m, f) == f = [i \in 0 .. m |-> IF i = 0 THEN A ELSE G(f[i - 1])]
           D == {m \in 0 .. MaxLen : \E f : Runs(m, f)}
<1>1. MaxLen \in Nat
  BY Sizes
<1>2. n # Nil => Iter(n) = (CHOOSE f : Runs(MaxLen, f))[MaxLen]
  BY Zenon DEF Iter, Steps
<1> HIDE DEF G, A
<1>3. 0 \in D
  <2>1. PICK f : f = [i \in 0 .. 0 |-> A]
    OBVIOUS
  <2>2. \A i \in 0 .. 0 : i = 0
    OBVIOUS
  <2>3. Runs(0, f)
    BY <2>1, <2>2
  <2> QED
    BY <1>1, <2>3
<1>4. ASSUME NEW m \in D, m < MaxLen PROVE m + 1 \in D
  <2>1. PICK f : Runs(m, f)
    OBVIOUS
  <2>2. m + 1 \in 0 .. MaxLen /\ m \in Nat
    BY <1>1, <1>4
  <2>3. PICK x : x = G(f[m])
    OBVIOUS
  <2>4. PICK g : g = [i \in 0 .. m + 1 |-> IF i = m + 1 THEN x ELSE f[i]]
    OBVIOUS
  <2>5. ASSUME NEW i \in 0 .. m + 1
        PROVE  g[i] = IF i = 0 THEN A ELSE G(g[i - 1])
    <3>1. CASE i = m + 1
      <4>1. g[i] = x /\ i # 0 /\ i - 1 = m /\ i - 1 \in 0 .. m + 1 /\ i - 1 # m + 1
        BY <2>2, <2>4, <3>1
      <4>2. g[i - 1] = f[m]
        BY <2>4, <4>1
      <4> QED
        BY <2>3, <3>1, <4>1, <4>2
    <3>2. CASE i = 0
      <4>1. i \in 0 .. m /\ i # m + 1
        BY <2>2, <3>2
      <4> QED
        BY <2>1, <2>4, <3>2, <4>1
    <3>3. CASE i # m + 1 /\ i # 0
      <4>1. i \in 0 .. m /\ i - 1 \in 0 .. m + 1 /\ i - 1 # m + 1
        BY <2>2, <3>3
      <4>2. f[i] = G(f[i - 1])
        BY <2>1, <3>3, <4>1
      <4>3. g[i] = f[i] /\ g[i - 1] = f[i - 1]
        BY <2>4, <3>3, <4>1
      <4> QED
        BY <3>3, <4>2, <4>3
    <3> QED
      BY <3>1, <3>2, <3>3
  <2>6. Runs(m + 1, g)
    BY <2>4, <2>5
  <2> HIDE DEF Runs
  <2> QED
    BY <2>2, <2>6
<1>5. D = 0 .. MaxLen
  <2>1. D \in SUBSET (0 .. MaxLen)
    OBVIOUS
  <2> HIDE DEF D
  <2> QED
    BY <1>1, <1>3, <1>4, <2>1, Induction
<1>6. \E f : Runs(MaxLen, f)
  <2>1. MaxLen \in D
    <3> HIDE DEF D
    <3> QED
      BY <1>1, <1>5
  <2> HIDE DEF Runs
  <2> QED
    BY <2>1
<1>7. PICK s : s = CHOOSE f : Runs(MaxLen, f)
  OBVIOUS
<1>8. Runs(MaxLen, s)
  <2> HIDE DEF Runs
  <2> QED
    BY <1>6, <1>7, Zenon
<1>9. s[0] = A /\ DOMAIN s = Steps
  BY <1>1, <1>8 DEF Steps
<1>10. ASSUME NEW i \in Steps, i < MaxLen PROVE s[i + 1] = G(s[i])
  <2>1. i + 1 \in 0 .. MaxLen /\ i + 1 # 0 /\ (i + 1) - 1 = i
    BY <1>1, <1>10 DEF Steps
  <2> QED
    BY <1>8, <2>1
<1>11. n # Nil => Iter(n) = s[MaxLen]
  BY <1>2, <1>7
<1>12. \A i \in Steps : i < MaxLen => s[i + 1] = G(s[i])
  BY <1>10
<1> QED
  BY <1>9, <1>11, <1>12, Zenon DEF G, A, IterRun

(* A tree of a row: a leaf of L, or a node of X that is i deep at least.   *)
Piece(y, d, L, X, i) ==
  \/ IsLeaf(y) /\ y \in L
  \/ /\ IsInner(y)
     /\ \E p \in X : /\ p.ref = y /\ p.depth \in Nat /\ i <= p.depth
                     /\ \E M : M \subseteq L /\ Good(y, d + p.depth, M)

(* What a tree is replaced by in the next row.                             *)
Spread(y) == IF IsInner(y) THEN [j \in DOMAIN Slots(y) |-> y.children[Slots(y)[j]]] ELSE <<y>>

(* t, in place of y, has the same leaves, in the order R.                  *)
Spreads(t, y, d, L, X, i, R) ==
  /\ \E T : t \in Seq(T)
  /\ \A u \in 1 .. Len(t) : Piece(t[u], d, L, X, i) /\ Leaves(t[u]) \subseteq Leaves(y)
  /\ \A l \in Leaves(y) : \E u \in 1 .. Len(t) : l \in Leaves(t[u])
  /\ \A u, v \in 1 .. Len(t) : u < v => Before(t[u], t[v], R)

(* A leaf stays.                                                           *)
LEMMA SpreadLeaf ==
  ASSUME NEW y, IsLeaf(y), NEW d, NEW L, y \in L, NEW X, NEW i, NEW R
  PROVE  Spreads(Spread(y), y, d, L, X, i, R)
<1>1. ~IsInner(y)
  BY DEF IsLeaf, IsInner
<1>2. PICK t : t = <<y>>
  OBVIOUS
<1>3. Spread(y) = t
  BY <1>1, <1>2 DEF Spread
<1>4. Len(t) = 1 /\ t \in Seq({y}) /\ t[1] = y /\ \A u \in 1 .. 1 : u = 1
  BY <1>2
<1>5. Piece(y, d, L, X, i)
  BY DEF Piece
<1>6. \A u, v \in 1 .. 1 : ~(u < v)
  OBVIOUS
<1>7. Spreads(t, y, d, L, X, i, R)
  BY <1>4, <1>5, <1>6 DEF Spreads
<1> QED
  BY <1>3, <1>7

(* A node is replaced by its children.                                     *)
LEMMA SpreadInner ==
  ASSUME NEW y, IsInner(y), NEW d \in Nat, NEW L, NEW X, NEW i \in Nat, Piece(y, d, L, X, i), NEW R, Sorts(y, R)
  PROVE  Spreads(Spread(y), y, d, L, WithBelow(X), i + 1, R)
<1>1. PICK p \in X : /\ p.ref = y /\ p.depth \in Nat /\ i <= p.depth
                     /\ \E M : M \subseteq L /\ Good(y, d + p.depth, M)
  BY DEF Piece, IsLeaf, IsInner
<1>2. PICK M : M \subseteq L /\ Good(y, d + p.depth, M)
  BY <1>1
<1>3. PICK e \in Nat : e = p.depth
  BY <1>1
<1>4. Fork(y, d + e, M) /\ Shape(y) /\ y.plen \in Nat /\ Good(y, d + e, M) /\ Leaves(y) = M
  <2>1. Good(y, d + e, M)
    BY <1>2, <1>3
  <2>2. Fork(y, d + e, M) /\ Leaves(y) = M
    BY <2>1, TreeFacts, LeavesAre
  <2> QED
    BY <2>1, <2>2 DEF Fork
<1>5. PICK b : SlotBytes(y, b)
  BY <1>4, SlotBytesAre
<1>6. PICK z : z = Count(y)
  OBVIOUS
<1>7. z \in Nat /\ DOMAIN Slots(y) = 1 .. z
  BY <1>5, <1>6 DEF SlotBytes
<1>8. PICK t : t = Spread(y)
  OBVIOUS
<1>9. t = [j \in 1 .. z |-> y.children[Slots(y)[j]]]
  BY <1>7, <1>8 DEF Spread
<1>10. Len(t) = z /\ (\E T : t \in Seq(T)) /\ \A u \in 1 .. z : t[u] = y.children[Slots(y)[u]]
  <2>1. PICK T : T = {y.children[Slots(y)[j]] : j \in 1 .. z}
    OBVIOUS
  <2>2. t \in [1 .. z -> T]
    BY <1>9, <2>1
  <2>3. t \in Seq(T) /\ Len(t) = z
    BY <1>7, <2>2
  <2> QED
    BY <1>9, <2>3
<1>11. PICK h \in Nat : h = e + y.plen + 1
  BY <1>3, <1>4
<1>12. (d + e) + y.plen + 1 = d + h /\ i + 1 <= h
  <2>1. y.plen \in Nat /\ i <= e
    BY <1>1, <1>3, <1>4
  <2> QED
    BY <1>11, <2>1
<1>13. ASSUME NEW u \in 1 .. z
       PROVE  /\ Good(t[u], d + h, Share(M, b[u], d + h)) /\ Leaves(t[u]) = Share(M, b[u], d + h)
              /\ Slots(y)[u] \in Used(y)
  BY <1>4, <1>5, <1>6, <1>10, <1>12, SlotLeaves
<1>14. ASSUME NEW u \in 1 .. z PROVE Piece(t[u], d, L, WithBelow(X), i + 1) /\ Leaves(t[u]) \subseteq Leaves(y)
  <2>1. PICK K : K = Share(M, b[u], d + h)
    OBVIOUS
  <2>2. Good(t[u], d + h, K) /\ Leaves(t[u]) = K /\ K \subseteq M
    BY <1>13, <2>1 DEF Share
  <2>3. CASE IsLeaf(t[u])
    <3>1. K = {t[u]}
      BY <2>2, <2>3, TreeFacts DEF Tip
    <3> QED
      BY <1>2, <1>4, <2>2, <2>3, <3>1 DEF Piece
  <2>4. CASE ~IsLeaf(t[u])
    <3>1. IsInner(t[u])
      BY <2>2, <2>4, TreeFacts
    <3>2. PICK s : s = Slots(y)[u]
      OBVIOUS
    <3>3. s \in Used(p.ref) /\ IsInner(p.ref.children[s])
      BY <1>1, <1>10, <1>13, <3>1, <3>2
    <3>4. PICK x : x = Below(p, s)
      OBVIOUS
    <3>5. x \in WithBelow(X)
      BY <1>1, <3>3, <3>4 DEF WithBelow
    <3>6. x.ref = t[u] /\ x.depth = h
      BY <1>1, <1>3, <1>10, <1>11, <3>2, <3>4, BelowIs
    <3>7. Good(t[u], d + x.depth, K) /\ K \subseteq L
      BY <1>2, <2>2, <3>6
    <3>8. x.depth \in Nat /\ i + 1 <= x.depth
      BY <1>11, <1>12, <3>6
    <3> QED
      BY <1>4, <2>2, <3>1, <3>5, <3>6, <3>7, <3>8 DEF Piece
  <2> QED
    BY <2>3, <2>4
<1>15. ASSUME NEW l \in Leaves(y) PROVE \E u \in 1 .. z : l \in Leaves(t[u])
  <2>1. l \in M /\ Leaves(y) = M
    BY <1>4
  <2>2. l.key \in Key /\ d + e + y.plen < Len(l.key)
    BY <1>4, <2>1 DEF Fork
  <2>3. d + h \in 1 .. Len(l.key)
    <3>1. Len(l.key) \in Nat /\ (d + e) + y.plen < Len(l.key) /\ y.plen \in Nat
      BY <1>4, <2>2, KeyFacts
    <3> QED
      BY <1>12, <3>1
  <2>4. PICK c \in Byte : c = l.key[d + h]
    <3>1. l.key[d + h] \in Byte
      BY <2>2, <2>3, KeyFacts
    <3> QED
      BY <3>1
  <2>5. l \in Share(M, c, d + h)
    BY <2>1, <2>4 DEF Share
  <2>6. FindChild(y, c) # {}
    BY <1>4, <1>12, <2>5, ChildOf
  <2>7. PICK u \in 1 .. z : b[u] = c
    BY <1>5, <1>6, <2>6 DEF SlotBytes
  <2> QED
    BY <1>13, <2>5, <2>7
<1>16. \A u, v \in 1 .. z : u < v => Before(t[u], t[v], R)
  BY <1>7, <1>10 DEF Sorts
<1>17. Spreads(t, y, d, L, WithBelow(X), i + 1, R)
  BY <1>7, <1>10, <1>14, <1>15, <1>16 DEF Spreads
<1> QED
  BY <1>8, <1>17

(* A row has the leaves of L, in the order R.                              *)
Row(q, d, L, X, i, R) ==
  /\ \E T : q \in Seq(T)
  /\ \A j \in 1 .. Len(q) : Piece(q[j], d, L, X, i)
  /\ \A l \in L : \E j \in 1 .. Len(q) : l \in Leaves(q[j])
  /\ \A j, k \in 1 .. Len(q) : j < k => Before(q[j], q[k], R)

(* A tree of a row is replaced by trees with its leaves.                   *)
LEMMA SpreadPiece ==
  ASSUME NEW y, NEW d \in Nat, NEW L, NEW X, NEW i \in Nat, Piece(y, d, L, X, i), NEW R,
         \A p \in X : Sorts(p.ref, R)
  PROVE  Spreads(Spread(y), y, d, L, WithBelow(X), i + 1, R)
<1>1. CASE IsLeaf(y)
  <2>1. y \in L
    BY <1>1 DEF Piece, IsLeaf, IsInner
  <2> QED
    BY <1>1, <2>1, SpreadLeaf
<1>2. CASE IsInner(y)
  <2>1. Sorts(y, R)
    BY <1>2 DEF Piece, IsLeaf, IsInner
  <2> QED
    BY <1>2, <2>1, SpreadInner
<1> QED
  BY <1>1, <1>2 DEF Piece

(* A sequence is one of its elements.                                      *)
LEMMA OwnSeq ==
  ASSUME NEW T, NEW t \in Seq(T), NEW U, \A u \in 1 .. Len(t) : t[u] \in U
  PROVE  t \in Seq(U)
<1>1. Len(t) \in Nat /\ t \in [1 .. Len(t) -> T]
  OBVIOUS
<1>2. t \in [1 .. Len(t) -> U]
  BY <1>1
<1> QED
  BY <1>1, <1>2

(* The next row.                                                           *)
LEMMA RowOpened ==
  ASSUME NEW q, NEW d \in Nat, NEW L, NEW X, NEW i \in Nat, NEW R, Row(q, d, L, X, i, R),
         \A p \in X : Sorts(p.ref, R)
  PROVE  Row(Opened(q), d, L, WithBelow(X), i + 1, R)
<1>1. PICK T : q \in Seq(T)
  BY DEF Row
<1>2. PICK m \in Nat : m = Len(q) /\ DOMAIN q = 1 .. m
  BY <1>1
<1>3. PICK Q : Q = [j \in 1 .. m |-> Spread(q[j])]
  OBVIOUS
<1>4. Opened(q) = FlattenSeq(Q)
  BY <1>2, <1>3, Zenon DEF Opened, Spread
<1>5. \A j \in 1 .. m : Q[j] = Spread(q[j])
  BY <1>3
<1>6. ASSUME NEW j \in 1 .. m PROVE Spreads(Q[j], q[j], d, L, WithBelow(X), i + 1, R)
  <2>1. Piece(q[j], d, L, X, i)
    BY <1>2 DEF Row
  <2> QED
    BY <1>5, <2>1, SpreadPiece
<1>7. PICK U : U = UNION {{Q[j][u] : u \in 1 .. Len(Q[j])} : j \in 1 .. m}
  OBVIOUS
<1>8. \A j \in 1 .. m : \A u \in 1 .. Len(Q[j]) : Q[j][u] \in U
  BY <1>7
<1>9. ASSUME NEW j \in 1 .. m PROVE Q[j] \in Seq(U)
  <2>1. \E V : Q[j] \in Seq(V)
    BY <1>6 DEF Spreads
  <2> QED
    BY <1>8, <2>1, OwnSeq
<1>10. Q \in [1 .. m -> Seq(U)]
  BY <1>3, <1>9
<1>11. PICK S : S = {p \in U \X U : Before(p[1], p[2], R)}
  OBVIOUS
<1>12. \A x, y \in U : Before(x, y, R) <=> <<x, y>> \in S
  BY <1>11
<1>13. Follow(Q, m, S)
  <2>1. ASSUME NEW j \in 1 .. m, NEW u \in 1 .. Len(Q[j]), NEW v \in 1 .. Len(Q[j]), u < v
        PROVE  <<Q[j][u], Q[j][v]>> \in S
    <3>1. Before(Q[j][u], Q[j][v], R)
      BY <1>6, <2>1 DEF Spreads
    <3> QED
      BY <1>8, <1>12, <3>1
  <2>2. ASSUME NEW j \in 1 .. m, NEW k \in 1 .. m, j < k, NEW u \in 1 .. Len(Q[j]), NEW v \in 1 .. Len(Q[k])
        PROVE  <<Q[j][u], Q[k][v]>> \in S
    <3>1. Before(q[j], q[k], R)
      BY <1>2, <2>2 DEF Row
    <3>2. Leaves(Q[j][u]) \subseteq Leaves(q[j]) /\ Leaves(Q[k][v]) \subseteq Leaves(q[k])
      BY <1>6 DEF Spreads
    <3>3. Before(Q[j][u], Q[k][v], R)
      BY <3>1, <3>2 DEF Before
    <3> QED
      BY <1>8, <1>12, <3>3
  <2> QED
    BY <2>1, <2>2 DEF Follow
<1>14. PICK y : y = FlattenSeq(Q)
  OBVIOUS
<1>15. y \in Seq(U) /\ Holds(y, Q, m) /\ Ordered(y, S)
  BY <1>10, <1>13, <1>14, FlattenIs
<1>16. ASSUME NEW r \in 1 .. Len(y) PROVE Piece(y[r], d, L, WithBelow(X), i + 1) /\ y[r] \in U
  <2>1. PICK j \in 1 .. m : \E u \in 1 .. Len(Q[j]) : y[r] = Q[j][u]
    BY <1>15 DEF Holds
  <2>2. PICK u \in 1 .. Len(Q[j]) : y[r] = Q[j][u]
    BY <2>1
  <2>3. Piece(Q[j][u], d, L, WithBelow(X), i + 1)
    BY <1>6 DEF Spreads
  <2> QED
    BY <1>8, <2>2, <2>3
<1>17. ASSUME NEW l \in L PROVE \E r \in 1 .. Len(y) : l \in Leaves(y[r])
  <2>1. PICK j \in 1 .. m : l \in Leaves(q[j])
    BY <1>2 DEF Row
  <2>2. PICK u \in 1 .. Len(Q[j]) : l \in Leaves(Q[j][u])
    BY <1>6, <2>1 DEF Spreads
  <2>3. PICK r \in 1 .. Len(y) : y[r] = Q[j][u]
    BY <1>15 DEF Holds
  <2> QED
    BY <2>2, <2>3
<1>18. ASSUME NEW r \in 1 .. Len(y), NEW s \in 1 .. Len(y), r < s PROVE Before(y[r], y[s], R)
  <2>1. <<y[r], y[s]>> \in S
    BY <1>15, <1>18 DEF Ordered
  <2> QED
    BY <1>12, <1>16, <2>1
<1>19. Row(y, d, L, WithBelow(X), i + 1, R)
  BY <1>15, <1>16, <1>17, <1>18 DEF Row
<1> QED
  BY <1>4, <1>14, <1>19

(* s lists L, in the order R.                                              *)
Listed(s, L, R) ==
  /\ s \in Seq(L) /\ \A l \in L : \E j \in 1 .. Len(s) : s[j] = l
  /\ \A j, k \in 1 .. Len(s) : j < k => <<s[j], s[k]>> \in R

(* recursive_iter lists the leaves of a tree.                              *)
LEMMA IterOK ==
  ASSUME NEW n, NEW d, NEW L, Good(n, d, L), NEW R, \A x \in Inner(n, 0) : Sorts(x.ref, R)
  PROVE  Listed(Iter(n), L, R)
<1>1. d \in Nat /\ n # Nil /\ MaxLen \in Nat /\ Leaves(n) = L
  BY TreeFacts, LeavesAre, Sizes
<1>2. PICK f : InnerRun(f, n)
  BY InnerIs
<1>3. PICK g : IterRun(g, n)
  BY IterIs
<1>4. PICK H : H = {i \in Steps : Row(g[i], d, L, f[i], i, R)}
  OBVIOUS
<1>5. 0 \in H
  <2>1. g[0] = <<n>> /\ 0 \in Steps
    BY <1>1, <1>3 DEF IterRun, Steps
  <2>2. f[0] = (IF IsInner(n) THEN {Top(n)} ELSE {}) /\ Top(n).ref = n /\ Top(n).depth = 0
    BY <1>2, InnerStart
  <2>3. Piece(n, d, L, f[0], 0)
    <3>1. CASE IsLeaf(n)
      BY <3>1, TreeFacts DEF Tip, Piece
    <3>2. CASE ~IsLeaf(n)
      <4>1. IsInner(n)
        BY <3>2, TreeFacts
      <4>2. Top(n) \in f[0] /\ d + Top(n).depth = d
        BY <1>1, <2>2, <4>1
      <4> QED
        BY <1>1, <2>2, <4>1, <4>2 DEF Piece
    <3> QED
      BY <3>1, <3>2
  <2>4. PICK q : q = <<n>>
    OBVIOUS
  <2>5. q \in Seq({n}) /\ Len(q) = 1 /\ q[1] = n /\ \A j \in 1 .. 1 : j = 1
    BY <2>4
  <2>6. \A j, k \in 1 .. 1 : ~(j < k)
    OBVIOUS
  <2>7. 1 \in 1 .. 1
    OBVIOUS
  <2>8. Row(q, d, L, f[0], 0, R)
    BY <1>1, <2>3, <2>5, <2>6, <2>7 DEF Row
  <2> QED
    BY <1>4, <2>1, <2>4, <2>8
<1>6. ASSUME NEW i \in H, i \in Steps, i < MaxLen PROVE i + 1 \in H
  <2>1. Row(g[i], d, L, f[i], i, R)
    BY <1>4
  <2>2. \A p \in f[i] : Sorts(p.ref, R)
    BY <1>2, <1>6, InnerGrows
  <2>3. i \in Nat /\ i + 1 \in Steps
    BY <1>1, <1>6 DEF Steps
  <2>4. g[i + 1] = Opened(g[i]) /\ f[i + 1] = WithBelow(f[i])
    BY <1>2, <1>3, <1>6 DEF InnerRun, IterRun
  <2>5. Row(Opened(g[i]), d, L, WithBelow(f[i]), i + 1, R)
    BY <1>1, <2>1, <2>2, <2>3, RowOpened
  <2> QED
    BY <1>4, <2>3, <2>4, <2>5
<1>7. \A i \in Steps : i \in H
  BY <1>5, <1>6, StepInduction
<1>8. PICK s : s = Iter(n)
  OBVIOUS
<1>9. s = g[MaxLen] /\ Row(s, d, L, f[MaxLen], MaxLen, R)
  <2>1. MaxLen \in Steps
    BY <1>1 DEF Steps
  <2> QED
    BY <1>1, <1>3, <1>4, <1>7, <1>8, <2>1 DEF IterRun
<1>10. ASSUME NEW j \in 1 .. Len(s) PROVE s[j] \in L /\ Leaves(s[j]) = {s[j]}
  <2>1. Piece(s[j], d, L, f[MaxLen], MaxLen)
    BY <1>9 DEF Row
  <2>2. ~IsInner(s[j])
    <3> SUFFICES ASSUME IsInner(s[j]) PROVE FALSE
      OBVIOUS
    <3>1. PICK p \in f[MaxLen] : /\ p.depth \in Nat /\ MaxLen <= p.depth
                                 /\ \E M : M \subseteq L /\ Good(s[j], d + p.depth, M)
      BY <2>1 DEF Piece, IsLeaf, IsInner
    <3>2. PICK M : Good(s[j], d + p.depth, M)
      BY <3>1
    <3>3. Fork(s[j], d + p.depth, M)
      BY <3>2, TreeFacts
    <3>4. PICK l \in M : l.key \in Key /\ d + p.depth + s[j].plen < Len(l.key)
      BY <3>3 DEF Fork
    <3>5. s[j].plen \in Nat
      BY <3>3 DEF Fork
    <3>6. Len(l.key) \in Nat /\ Len(l.key) <= MaxLen
      BY <3>4, KeyFacts
    <3> QED
      BY <1>1, <3>1, <3>4, <3>5, <3>6
  <2>3. IsLeaf(s[j]) /\ s[j] \in L
    BY <2>1, <2>2 DEF Piece
  <2>4. Leaves(s[j]) = {l \in {s[j]} : IsLeaf(l)}
    BY <2>2, NoInner
  <2> QED
    BY <2>3, <2>4
<1>11. s \in Seq(L)
  BY <1>9, <1>10, OwnSeq DEF Row
<1>12. ASSUME NEW l \in L PROVE \E j \in 1 .. Len(s) : s[j] = l
  <2>1. PICK j \in 1 .. Len(s) : l \in Leaves(s[j])
    BY <1>9 DEF Row
  <2> QED
    BY <1>10, <2>1
<1>13. ASSUME NEW j \in 1 .. Len(s), NEW k \in 1 .. Len(s), j < k PROVE <<s[j], s[k]>> \in R
  <2>1. Before(s[j], s[k], R)
    BY <1>9, <1>13 DEF Row
  <2>2. s[j] \in Leaves(s[j]) /\ s[k] \in Leaves(s[k])
    BY <1>10
  <2> QED
    BY <2>1, <2>2 DEF Before
<1> QED
  BY <1>8, <1>11, <1>12, <1>13 DEF Listed

-----------------------------------------------------------------------------
(* The number of keys.                                                     *)

(* Where recursive_insert ends in a node, the key is new.                  *)
LEMMA InsertNew ==
  ASSUME NEW x, NEW L, Good(x.ref, x.depth, L), IsInner(x.ref), NEW k \in Key, NEW junk \in Byte,
         InsertSlot(x, k, junk) = {}, \A l \in L : Common(k, l.key, x.depth), Reads(x.ref, k, x.depth)
  PROVE  \A l \in L : l.key # k
<1>1. PICK n, d : n = x.ref /\ d = x.depth
  OBVIOUS
<1>2. /\ Good(n, d, L) /\ d \in Nat /\ IsInner(n) /\ L # {} /\ Reads(n, k, d)
      /\ \A l \in L : Common(k, l.key, d)
  BY <1>1, TreeFacts
<1>3. PICK m, p : m = PrefixMismatch(n, k, d) /\ p = n.plen
  OBVIOUS
<1>4. \A l \in L : Parts(k, l.key, d, p, m)
  BY <1>2, <1>3, MismatchInTree
<1>5. m \in Nat /\ p \in Nat
  <2>1. p \in Nat
    BY <1>2, <1>3, TreeFacts DEF Fork
  <2> QED
    BY <1>2, <1>4, <2>1 DEF Parts
<1>6. CASE m < p
  <2>1. PICK y : y = SplitPath(n, k, NULL, d, m, junk)
    OBVIOUS
  <2> QED
    BY <1>2, <1>3, <1>6, <2>1, SplitPathGood
<1>7. CASE ~(m < p)
  <2>1. m >= p
    BY <1>5, <1>7
  <2>2. d + p < Len(k) /\ \A l \in L : Common(k, l.key, d + p)
    BY <1>2, <1>3, <2>1, InsertPath
  <2>3. FindChild(n, KeyAt(k, d + p, junk)) = {}
    BY <1>1, <1>2, <1>3, <2>1 DEF InsertSlot
  <2>4. PICK c : c = KeyAt(k, d + p, junk)
    OBVIOUS
  <2>5. c = k[d + p + 1] /\ c \in Byte
    <3>1. k \in Seq(Byte) /\ d + p \in Nat
      BY <1>2, <1>5, KeyFacts
    <3> QED
      BY <2>2, <2>4, <3>1, KeyAtByte DEF KeyAt
  <2>6. Child(n, c) = Nil
    BY <2>3, <2>4 DEF Child
  <2>7. PICK y : y = AddChild(n, c, Leaf(k, NULL))
    OBVIOUS
  <2>8. c = k[d + n.plen + 1] /\ d + n.plen < Len(k) /\ \A l \in L : Common(k, l.key, d + n.plen)
    BY <1>3, <2>2, <2>5
  <2> QED
    BY <1>2, <2>5, <2>6, <2>7, <2>8, AddGood
<1> QED
  BY <1>6, <1>7

(* recursive_insert finds a key that is there and no other.                *)
LEMMA InsertFound ==
  ASSUME NEW n, NEW L, Good(n, 0, L), NEW k \in Key, NEW v, NEW junk \in Byte, Clear(n, k, junk)
  PROVE  Insert(n, k, v, junk).found <=> \E l \in L : l.key = k
<1>1. k \in Seq(Byte)
  BY KeyFacts
<1>2. PICK w : w = InsertWay(n, k, junk)
  OBVIOUS
<1>3. /\ \E S : Chain(w, S, n, L, k, junk)
      /\ InsertSlot(Last(w), k, junk) = {}
      /\ \A j \in 1 .. Len(w) - 1 : InsertSlot(w[j], k, junk) # {}
  <2>1. InsertEnds(w, n, L, k, junk)
    BY <1>1, <1>2, InsertWayOK
  <2> QED
    BY <2>1 DEF InsertEnds
<1>4. PICK S : Chain(w, S, n, L, k, junk)
  BY <1>3
<1>5. PICK x, M : x = Last(w) /\ M = S[Len(w)]
  OBVIOUS
<1>6. Len(w) \in 1 .. Len(w) /\ x = w[Len(w)] /\ Good(x.ref, x.depth, M)
  BY <1>4, <1>5, ChainEnd
<1>7. \A l \in M : Common(k, l.key, x.depth)
  <2>1. \A j \in 1 .. Len(w) : \A l \in S[j] : Common(k, l.key, w[j].depth)
    BY <1>3, <1>4, InsertAgrees
  <2> QED
    BY <1>5, <1>6, <2>1
<1>8. M \subseteq L /\ \A l \in L : l.key = k => l \in M
  BY <1>4, <1>5, <1>6, LeafStays
<1>9. Insert(n, k, v, junk).found = (IsLeaf(x.ref) /\ x.ref.key = k)
  BY <1>2, <1>5 DEF Insert
<1>10. CASE IsLeaf(x.ref)
  <2>1. M = {x.ref}
    BY <1>6, <1>10, TreeFacts DEF Tip
  <2> QED
    BY <1>8, <1>9, <1>10, <2>1
<1>11. CASE ~IsLeaf(x.ref)
  <2>1. IsInner(x.ref)
    BY <1>6, <1>11, TreeFacts
  <2>2. Reads(x.ref, k, x.depth)
    BY <1>2, <1>5, <2>1 DEF Clear
  <2>3. \A l \in M : l.key # k
    BY <1>3, <1>5, <1>6, <1>7, <2>1, <2>2, InsertNew
  <2> QED
    BY <1>8, <1>9, <1>11, <2>3
<1> QED
  BY <1>10, <1>11

(* The keys of a map.                                                      *)
KeysOf(m) == {k \in Key : m[k] # NULL}

(* They are those of the leaves.                                           *)
LEMMA KeysHaveLeaves ==
  ASSUME NEW m, NEW k
  PROVE  (\E l \in LeavesOf(m) : l.key = k) <=> k \in KeysOf(m)
BY LeavesOfIs DEF KeysOf

(* recursive_insert tells whether the key was there ...                    *)
LEMMA InsertTells ==
  ASSUME NEW n, NEW m, Represents(n, m), NEW k \in Key, NEW v, NEW junk \in Byte,
         n # Nil => Clear(n, k, junk)
  PROVE  Insert(n, k, v, junk).found <=> k \in KeysOf(m)
<1>1. CASE Good(n, 0, LeavesOf(m))
  <2>1. n # Nil
    BY <1>1, TreeFacts
  <2> QED
    BY <1>1, <2>1, InsertFound, KeysHaveLeaves
<1>2. CASE n = Nil /\ LeavesOf(m) = {}
  <2>1. PICK x : x = Top(Nil)
    OBVIOUS
  <2>2. Last(<<x>>) = x /\ x.ref = Nil /\ ~IsLeaf(Nil)
    BY <2>1, NilTop
  <2>3. ~Insert(n, k, v, junk).found
    BY <1>2, <2>1, <2>2, InsertNil DEF Insert
  <2> QED
    BY <1>2, <2>3, KeysHaveLeaves
<1> QED
  BY <1>1, <1>2 DEF Represents

(* ... and so does recursive_delete.                                       *)
LEMMA DeleteTells ==
  ASSUME NEW n, NEW m, Represents(n, m), NEW k \in Seq(Byte), NEW junk \in Byte
  PROVE  Delete(n, k, junk).leaf = Nil <=> k \notin KeysOf(m)
<1>1. CASE Good(n, 0, LeavesOf(m))
  BY <1>1, DeleteOK, KeysHaveLeaves
<1>2. CASE n = Nil /\ LeavesOf(m) = {}
  <2>1. PICK x : x = Top(Nil)
    OBVIOUS
  <2>2. Last(<<x>>) = x /\ x.ref = Nil /\ ~IsLeaf(Nil) /\ ~IsInner(Nil)
    BY <2>1, NilTop
  <2>3. Cut(x, k, junk) = Nil
    BY <2>2 DEF Cut, DeleteChild
  <2>4. Delete(n, k, junk).leaf = Nil
    BY <1>2, <2>1, <2>2, <2>3, DeleteNil DEF Delete
  <2> QED
    BY <1>2, <2>4, KeysHaveLeaves
<1> QED
  BY <1>1, <1>2 DEF Represents

(* z is the number of keys of m.                                           *)
Counts(z, m) == IsFiniteSet(KeysOf(m)) /\ z = Cardinality(KeysOf(m))

(* art_insert counts a new key ...                                         *)
LEMMA InsertCounts ==
  ASSUME NEW n, NEW m \in [Key -> Val \cup {NULL}], Represents(n, m), NEW z, Counts(z, m),
         NEW k \in Key, NEW v \in Val, NEW junk \in Byte, NEW u, u = [m EXCEPT ![k] = v],
         n # Nil => Clear(n, k, junk)
  PROVE  Counts(IF Insert(n, k, v, junk).found THEN z ELSE z + 1, u)
<1>1. v # NULL
  BY ArtAssumption
<1>2. KeysOf(u) = KeysOf(m) \cup {k}
  BY <1>1 DEF KeysOf
<1>3. Insert(n, k, v, junk).found <=> k \in KeysOf(m)
  BY InsertTells
<1>4. PICK A, B : A = KeysOf(m) /\ B = KeysOf(u)
  OBVIOUS
<1>5. IsFiniteSet(A) /\ z = Cardinality(A) /\ B = A \cup {k}
  BY <1>2, <1>4 DEF Counts
<1>6. IsFiniteSet(B) /\ Cardinality(B) = IF k \in A THEN z ELSE z + 1
  BY <1>5, FS_AddElement
<1> QED
  BY <1>3, <1>4, <1>6 DEF Counts

(* ... and art_delete one that goes.                                       *)
LEMMA DeleteCounts ==
  ASSUME NEW n, NEW m \in [Key -> Val \cup {NULL}], Represents(n, m), NEW z, Counts(z, m),
         NEW k \in Seq(Byte), NEW junk \in Byte, NEW u, u = IF k \in Key THEN [m EXCEPT ![k] = NULL] ELSE m
  PROVE  Counts(IF Delete(n, k, junk).leaf = Nil THEN z ELSE z - 1, u)
<1>1. KeysOf(u) = KeysOf(m) \ {k}
  BY DEF KeysOf
<1>2. Delete(n, k, junk).leaf = Nil <=> k \notin KeysOf(m)
  BY DeleteTells
<1>3. PICK A, B : A = KeysOf(m) /\ B = KeysOf(u)
  OBVIOUS
<1>4. IsFiniteSet(A) /\ z = Cardinality(A) /\ B = A \ {k}
  BY <1>1, <1>3 DEF Counts
<1>5. IsFiniteSet(B) /\ Cardinality(B) = IF k \in A THEN z - 1 ELSE z
  BY <1>4, FS_RemoveElement
<1> QED
  BY <1>2, <1>3, <1>5 DEF Counts

(* No keys.                                                                *)
LEMMA NoneCounts == Counts(0, [k \in Key |-> NULL])
<1>1. KeysOf([k \in Key |-> NULL]) = {}
  BY DEF KeysOf
<1> QED
  BY <1>1, FS_EmptySet DEF Counts

-----------------------------------------------------------------------------
(* The order of the bytes of a small node.                                 *)

(* A node16 with a byte that is negative as a signed char.                 *)
High(n) == n.kind = "node16" /\ \E i \in 1 .. n.num : Signed(n.keys[i]) < 0

(* Only in such a node are the bytes of a small node not in order.         *)
Neat(n) == Straight(n) \/ High(n)

(* The byte goes before the first that is greater.                         *)
LEMMA RisingInsert ==
  ASSUME NEW s \in Seq(Byte), Rising(s), NEW c \in Byte, \A j \in 1 .. Len(s) : s[j] # c,
         NEW i, i = Min({j \in 1 .. Len(s) : c < s[j]} \cup {Len(s) + 1}),
         NEW t, t = InsertAt(s, i, c)
  PROVE  Rising(t) /\ i \in 1 .. Len(s) + 1
<1>1. PICK m \in Nat : m = Len(s)
  OBVIOUS
<1>2. PICK S : S = {j \in 1 .. m : c < s[j]} \cup {m + 1}
  OBVIOUS
<1>3. S \in SUBSET Nat /\ S # {} /\ S \in SUBSET (1 .. m + 1)
  BY <1>2
<1>4. i \in S /\ \A j \in S : i <= j
  BY <1>1, <1>2, <1>3, MinOf
<1>5. i \in 1 .. m + 1
  BY <1>3, <1>4
<1>6. \A j \in 1 .. m : s[j] \in Nat /\ c \in Nat
  <2>1. \A j \in 1 .. m : s[j] \in Byte
    BY <1>1
  <2>2. \A b \in Byte : b \in Nat
    BY BytesFinite
  <2> QED
    BY <2>1, <2>2
<1>7. \A j \in 1 .. m : j < i => s[j] < c
  <2>1. ASSUME NEW j \in 1 .. m, j < i PROVE s[j] < c
    <3>1. j \notin S
      BY <1>4, <1>5, <2>1
    <3>2. ~(c < s[j])
      BY <1>2, <3>1
    <3>3. s[j] # c
      BY <1>1
    <3> QED
      BY <1>6, <3>2, <3>3
  <2> QED
    BY <2>1
<1>8. \A j, k \in 1 .. m : j < k => s[j] < s[k]
  <2>1. DOMAIN s = 1 .. m
    BY <1>1
  <2> QED
    BY <2>1 DEF Rising
<1>9. \A j \in 1 .. m : i <= j => c < s[j]
  <2>1. ASSUME NEW j \in 1 .. m, i <= j PROVE c < s[j]
    <3>1. i \in 1 .. m /\ c < s[i]
      BY <1>2, <1>4, <1>5, <2>1
    <3>2. i = j \/ i < j
      BY <1>5, <2>1
    <3>3. s[i] \in Nat /\ s[j] \in Nat /\ c \in Nat
      BY <1>6, <3>1
    <3> QED
      BY <1>8, <3>1, <3>2, <3>3
  <2> QED
    BY <2>1
<1>10. t \in Seq(Byte) /\ Inserted(s, i, c, t)
  BY <1>1, <1>5, InsertAtIs
<1>11. /\ DOMAIN t = 1 .. m + 1
       /\ \A j \in 1 .. m + 1 : t[j] = IF j < i THEN s[j] ELSE IF j = i THEN c ELSE s[j - 1]
  BY <1>1, <1>10 DEF Inserted
<1>12. ASSUME NEW j \in 1 .. m + 1, NEW k \in 1 .. m + 1, j < k PROVE t[j] < t[k]
  <2>1. CASE k < i
    <3>1. j \in 1 .. m /\ k \in 1 .. m /\ j < i
      BY <1>5, <1>12, <2>1
    <3> QED
      BY <1>8, <1>11, <1>12, <2>1, <3>1
  <2>2. CASE k = i
    <3>1. j \in 1 .. m /\ j < i /\ ~(k < i)
      BY <1>5, <1>12, <2>2
    <3> QED
      BY <1>7, <1>11, <2>2, <3>1
  <2>3. CASE i < k /\ j < i
    <3>1. j \in 1 .. m /\ k - 1 \in 1 .. m /\ i <= k - 1 /\ ~(k < i) /\ k # i
      BY <1>5, <1>12, <2>3
    <3>2. t[j] = s[j] /\ t[k] = s[k - 1] /\ j < k - 1
      BY <1>5, <1>11, <2>3, <3>1
    <3> QED
      BY <1>8, <3>1, <3>2
  <2>4. CASE i < k /\ j = i
    <3>1. k - 1 \in 1 .. m /\ i <= k - 1 /\ ~(k < i) /\ k # i
      BY <1>5, <1>12, <2>4
    <3>2. t[j] = c /\ t[k] = s[k - 1]
      BY <1>5, <1>11, <2>4, <3>1
    <3> QED
      BY <1>9, <3>1, <3>2
  <2>5. CASE i < j
    <3>1. /\ j - 1 \in 1 .. m /\ k - 1 \in 1 .. m /\ j - 1 < k - 1
          /\ ~(j < i) /\ j # i /\ ~(k < i) /\ k # i
      BY <1>5, <1>12, <2>5
    <3>2. t[j] = s[j - 1] /\ t[k] = s[k - 1]
      BY <1>11, <3>1
    <3> QED
      BY <1>8, <3>1, <3>2
  <2> QED
    BY <1>5, <1>12, <2>1, <2>2, <2>3, <2>4, <2>5
<1> QED
  BY <1>1, <1>5, <1>11, <1>12 DEF Rising

(* What is left of bytes in order.                                         *)
LEMMA RisingDelete ==
  ASSUME NEW s \in Seq(Byte), Rising(s), NEW i \in 1 .. Len(s)
  PROVE  Rising(RemoveAt(s, i))
<1>1. PICK m, t : m \in Nat /\ m = Len(s) /\ t = RemoveAt(s, i)
  OBVIOUS
<1>2. t \in Seq(Byte) /\ Deleted(s, i, t)
  BY <1>1, RemoveAtIs
<1>3. DOMAIN t = 1 .. m - 1 /\ \A j \in 1 .. m - 1 : t[j] = IF j < i THEN s[j] ELSE s[j + 1]
  BY <1>1, <1>2 DEF Deleted
<1>4. \A j, k \in 1 .. m : j < k => s[j] < s[k]
  <2>1. DOMAIN s = 1 .. m
    BY <1>1
  <2> QED
    BY <2>1 DEF Rising
<1> DEFINE F(z) == IF z < i THEN z ELSE z + 1
<1>5. \A z \in 1 .. m - 1 : F(z) \in 1 .. m /\ t[z] = s[F(z)]
  BY <1>1, <1>3
<1>6. \A y, z \in 1 .. m - 1 : y < z => F(y) < F(z)
  BY <1>1
<1> HIDE DEF F
<1>7. \A y, z \in 1 .. m - 1 : y < z => t[y] < t[z]
  BY <1>4, <1>5, <1>6
<1> QED
  BY <1>1, <1>3, <1>7 DEF Rising

(* The fields of the node that InsertChild makes.                          *)
LEMMA InsertChildIs ==
  ASSUME NEW n, Record(n), NEW i, NEW c, NEW x, NEW y, y = InsertChild(n, i, c, x)
  PROVE  y.kind = n.kind /\ y.num = n.num + 1 /\ y.keys = InsertAt(n.keys, i, c)
<1>1. PICK ks, ch : ks = InsertAt(n.keys, i, c) /\ ch = InsertAt(n.children, i, x)
  OBVIOUS
<1>2. y = [n EXCEPT !.num = n.num + 1, !.keys = ks, !.children = ch]
  BY <1>1 DEF InsertChild
<1>3. y = [kind |-> n.kind, num |-> n.num + 1, plen |-> n.plen, partial |-> n.partial,
           keys |-> ks, children |-> ch]
  BY <1>2 DEF Record
<1> QED
  BY <1>1, <1>3

(* add_child48 makes no small node.                                        *)
LEMMA AddChild48Neat ==
  ASSUME NEW n, Record(n), n.kind = "node48", NEW c, NEW x
  PROVE  Neat(AddChild48(n, c, x))
<1>1. PICK y : y = AddChild48(n, c, x)
  OBVIOUS
<1>2. y.kind \in {"node48", "node256"}
  <2>1. CASE n.num < Size48
    <3>1. PICK p : p = Min({i \in DOMAIN n.children : n.children[i] = Nil})
      OBVIOUS
    <3>2. y = [n EXCEPT !.num = @ + 1, !.keys[c] = p, !.children[p] = x]
      BY <1>1, <2>1, <3>1 DEF AddChild48
    <3>3. y.kind = n.kind
      BY <3>2 DEF Record
    <3> QED
      BY <3>3
  <2>2. CASE ~(n.num < Size48)
    <3>1. PICK u, ch : /\ u = To256(n)
                       /\ ch = [b \in Byte |-> IF n.keys[b] = 0 THEN Nil ELSE n.children[n.keys[b]]]
      OBVIOUS
    <3>2. u = [n EXCEPT !.kind = "node256", !.keys = <<>>, !.children = ch]
      BY <3>1 DEF To256
    <3>3. u = [kind |-> "node256", num |-> n.num, plen |-> n.plen, partial |-> n.partial,
               keys |-> <<>>, children |-> ch]
      BY <3>2 DEF Record
    <3>4. y = [u EXCEPT !.num = (@ + 1) % NByte, !.children[c] = x]
      BY <1>1, <2>2, <3>1 DEF AddChild48, AddChild256
    <3>5. y.kind = "node256"
      BY <3>3, <3>4
    <3> QED
      BY <3>5
  <2> QED
    BY <2>1, <2>2
<1> QED
  BY <1>1, <1>2 DEF Neat, Straight

(* add_child16 keeps the order, unless a byte is negative.                 *)
LEMMA AddChild16Neat ==
  ASSUME NEW n, Record(n), n.kind = "node16", Small(n, Size16), Neat(n), NEW c \in Byte, Child(n, c) = Nil, NEW x
  PROVE  Neat(AddChild16(n, c, x))
<1>1. PICK m, s : m = n.num /\ m \in Nat /\ s = n.keys /\ s \in Seq(Byte) /\ Len(s) = m
  BY DEF Small
<1>2. CASE m < Size16
  <2>1. PICK i, y : /\ i = Min({j \in 1 .. m : Signed(c) < Signed(s[j])} \cup {m + 1})
                    /\ y = InsertChild(n, i, c, x)
    OBVIOUS
  <2>2. AddChild16(n, c, x) = y
    BY <1>1, <1>2, <2>1 DEF AddChild16
  <2>3. PICK t : t = InsertAt(s, i, c)
    OBVIOUS
  <2>4. y.kind = "node16" /\ y.num = m + 1 /\ y.keys = t
    BY <1>1, <2>1, <2>3, InsertChildIs
  <2>5. i \in 1 .. m + 1
    <3>1. PICK S : S = {j \in 1 .. m : Signed(c) < Signed(s[j])} \cup {m + 1}
      OBVIOUS
    <3>2. S \in SUBSET Nat /\ S # {} /\ S \in SUBSET (1 .. m + 1)
      BY <1>1, <3>1
    <3>3. i \in S
      BY <2>1, <3>1, <3>2, MinOf
    <3> QED
      BY <3>2, <3>3
  <2>6. Inserted(s, i, c, t)
    BY <1>1, <2>3, <2>5, InsertAtIs
  <2>7. t[i] = c /\ \A j \in 1 .. m + 1 : t[j] = IF j < i THEN s[j] ELSE IF j = i THEN c ELSE s[j - 1]
    BY <1>1, <2>6 DEF Inserted
  <2>8. CASE Signed(c) < 0
    BY <2>2, <2>4, <2>5, <2>7, <2>8 DEF Neat, High
  <2>9. CASE \E j \in 1 .. m : Signed(s[j]) < 0
    <3>1. PICK j \in 1 .. m : Signed(s[j]) < 0
      BY <2>9
    <3>2. PICK k \in 1 .. m + 1 : t[k] = s[j]
      <4>1. CASE j < i
        <5>1. j \in 1 .. m + 1
          BY <1>1
        <5> QED
          BY <2>7, <4>1, <5>1
      <4>2. CASE ~(j < i)
        <5>1. j + 1 \in 1 .. m + 1 /\ ~(j + 1 < i) /\ j + 1 # i /\ (j + 1) - 1 = j
          BY <1>1, <2>5, <4>2
        <5> QED
          BY <2>7, <5>1
      <4> QED
        BY <4>1, <4>2
    <3> QED
      BY <2>2, <2>4, <3>1, <3>2 DEF Neat, High
  <2>10. CASE ~(Signed(c) < 0) /\ \A j \in 1 .. m : ~(Signed(s[j]) < 0)
    <3>1. Signed(c) = c /\ \A j \in 1 .. m : Signed(s[j]) = s[j]
      <4>1. \A j \in 1 .. m : s[j] \in Byte
        BY <1>1
      <4> QED
        BY <2>10, <4>1, SignedSame
    <3>2. {j \in 1 .. m : Signed(c) < Signed(s[j])} = {j \in 1 .. m : c < s[j]}
      BY <3>1
    <3>3. i = Min({j \in 1 .. Len(s) : c < s[j]} \cup {Len(s) + 1})
      BY <1>1, <2>1, <3>2
    <3>4. Rising(s)
      BY <1>1, <2>10 DEF Neat, High, Straight
    <3>5. \A j \in 1 .. Len(s) : s[j] # c
      <4>1. n.kind \in {"node4", "node16"}
        OBVIOUS
      <4> QED
        BY <1>1, <4>1, SmallChild
    <3>6. Rising(t)
      BY <1>1, <2>3, <3>3, <3>4, <3>5, RisingInsert
    <3> QED
      BY <2>2, <2>4, <3>6 DEF Neat, Straight
  <2> QED
    BY <2>8, <2>9, <2>10
<1>3. CASE ~(m < Size16)
  <2>1. PICK u : u = To48(n)
    OBVIOUS
  <2>2. Record(u) /\ u.kind = "node48"
    BY <2>1, To48OK
  <2>3. AddChild16(n, c, x) = AddChild48(u, c, x)
    BY <1>1, <1>3, <2>1 DEF AddChild16
  <2> QED
    BY <2>2, <2>3, AddChild48Neat
<1> QED
  BY <1>2, <1>3

(* add_child4 keeps the order.                                             *)
LEMMA AddChild4Neat ==
  ASSUME NEW n, Record(n), n.kind = "node4", Small(n, Size4), Neat(n), NEW c \in Byte, Child(n, c) = Nil, NEW x
  PROVE  Neat(AddChild4(n, c, x))
<1>1. PICK m, s : m = n.num /\ m \in Nat /\ s = n.keys /\ s \in Seq(Byte) /\ Len(s) = m
  BY DEF Small
<1>2. Rising(s)
  BY <1>1 DEF Neat, High, Straight
<1>3. CASE m < Size4
  <2>1. PICK i, y : /\ i = Min({j \in 1 .. m : c < s[j]} \cup {m + 1})
                    /\ y = InsertChild(n, i, c, x)
    OBVIOUS
  <2>2. AddChild4(n, c, x) = y
    BY <1>1, <1>3, <2>1 DEF AddChild4
  <2>3. PICK t : t = InsertAt(s, i, c)
    OBVIOUS
  <2>4. y.kind = "node4" /\ y.keys = t
    BY <1>1, <2>1, <2>3, InsertChildIs
  <2>5. \A j \in 1 .. Len(s) : s[j] # c
    <3>1. n.kind \in {"node4", "node16"}
      OBVIOUS
    <3> QED
      BY <1>1, <3>1, SmallChild
  <2>6. Rising(t)
    BY <1>1, <1>2, <2>1, <2>3, <2>5, RisingInsert
  <2> QED
    BY <2>2, <2>4, <2>6 DEF Neat, Straight
<1>4. CASE ~(m < Size4)
  <2>1. PICK u : u = [n EXCEPT !.kind = "node16"]
    OBVIOUS
  <2>2. u = [kind |-> "node16", num |-> n.num, plen |-> n.plen, partial |-> n.partial,
             keys |-> n.keys, children |-> n.children]
    BY <2>1 DEF Record
  <2>3. u.kind = "node16" /\ u.num = n.num /\ u.keys = n.keys /\ u.children = n.children
    BY <2>2
  <2>4. Record(u)
    BY <1>1, <2>2, <2>3 DEF Record, Kind
  <2>5. Small(u, Size16)
    <3>1. Kids(u) = Kids(n)
      BY <2>3 DEF Kids
    <3>2. m <= Size4
      BY <1>1 DEF Small
    <3> QED
      BY <1>1, <2>3, <3>1, <3>2, Sizes DEF Small
  <2>6. Child(u, c) = Nil
    <3>1. FindChild(u, c) = FindChild(n, c)
      BY <2>3 DEF FindChild
    <3> QED
      BY <2>3, <3>1 DEF Child
  <2>7. Neat(u)
    BY <1>1, <1>2, <2>3 DEF Neat, Straight
  <2>8. AddChild4(n, c, x) = AddChild16(u, c, x)
    BY <1>1, <1>4, <2>1 DEF AddChild4
  <2> QED
    BY <2>3, <2>4, <2>5, <2>6, <2>7, <2>8, AddChild16Neat
<1> QED
  BY <1>3, <1>4

(* add_child keeps the order, unless a byte of a node16 is negative.       *)
LEMMA AddChildNeat ==
  ASSUME NEW n, Shape(n), Neat(n), NEW c \in Byte, Child(n, c) = Nil, NEW x
  PROVE  Neat(AddChild(n, c, x))
<1>1. n.kind \in Kind /\ Record(n)
  BY DEF Shape, Record
<1>2. CASE n.kind = "node4"
  BY <1>1, <1>2, AddChild4Neat DEF AddChild, Shape
<1>3. CASE n.kind = "node16"
  BY <1>1, <1>3, AddChild16Neat DEF AddChild, Shape
<1>4. CASE n.kind = "node48"
  BY <1>1, <1>4, AddChild48Neat DEF AddChild
<1>5. CASE n.kind = "node256"
  <2>1. PICK y : y = [n EXCEPT !.num = (@ + 1) % NByte, !.children[c] = x]
    OBVIOUS
  <2>2. AddChild(n, c, x) = y
    BY <1>5, <2>1 DEF AddChild, AddChild256
  <2>3. y.kind = "node256"
    BY <1>1, <1>5, <2>1 DEF Record
  <2> QED
    BY <2>2, <2>3 DEF Neat, Straight
<1> QED
  BY <1>1, <1>2, <1>3, <1>4, <1>5 DEF Kind

(* A new node4 is in order.                                                *)
LEMMA PairNeat ==
  ASSUME NEW p, NEW q, NEW c \in Byte, NEW x, x # Nil, NEW d \in Byte, NEW y, c # d
  PROVE  Neat(Pair(p, q, c, x, d, y))
<1>1. PICK n : n = Node4(p, q)
  OBVIOUS
<1>2. n.kind = "node4" /\ n.num = 0 /\ n.keys = <<>> /\ n.children = <<>>
  BY <1>1 DEF Node4
<1>3. Record(n)
  BY <1>1, <1>2 DEF Record, Node4, Kind
<1>4. \A i \in 1 .. 0 : FALSE
  OBVIOUS
<1>5. Small(n, Size4)
  <2>1. <<>> \in Seq(Byte) /\ Len(<<>>) = 0 /\ <<>> \in Seq(Kids(n))
    OBVIOUS
  <2> QED
    BY <1>2, <1>4, <2>1, Sizes DEF Small
<1>6. \A b \in Byte : Child(n, b) = Nil
  <2>1. n.kind \in {"node4", "node16"}
    BY <1>2
  <2> QED
    BY <1>2, <1>4, <1>5, <2>1, SmallChild
<1>7. Neat(n)
  <2>1. DOMAIN <<>> = 1 .. 0
    OBVIOUS
  <2> QED
    BY <1>2, <1>4, <2>1 DEF Neat, Straight, Rising
<1>8. PICK m : m = AddChild4(n, c, x)
  OBVIOUS
<1>9. Added(n, c, x, m) /\ m.kind = "node4" /\ Neat(m)
  BY <1>2, <1>3, <1>5, <1>6, <1>7, <1>8, Sizes, AddChild4OK, AddChild4Neat
<1>10. Record(m) /\ Small(m, Size4) /\ Child(m, d) = Nil
  BY <1>6, <1>9 DEF Added, Shape
<1>11. Pair(p, q, c, x, d, y) = AddChild4(m, d, y)
  BY <1>1, <1>8 DEF Pair
<1> QED
  BY <1>9, <1>10, <1>11, AddChild4Neat

(* u has the bytes of n.                                                   *)
SameBytes(u, n) == u.kind = n.kind /\ u.num = n.num /\ u.keys = n.keys

(* Then it is in order if n is.                                            *)
LEMMA SameNeat ==
  ASSUME NEW n, NEW u, SameBytes(u, n)
  PROVE  Neat(n) => Neat(u)
BY DEF SameBytes, Neat, High, Straight

(* Another path leaves the bytes of a node alone.                          *)
LEMMA WithPathBytes ==
  ASSUME NEW n, Record(n), NEW p, NEW q
  PROVE  SameBytes(WithPath(n, p, q), n)
<1>1. PICK u : u = [n EXCEPT !.plen = p, !.partial = q]
  OBVIOUS
<1>2. u = [kind |-> n.kind, num |-> n.num, plen |-> p, partial |-> q, keys |-> n.keys, children |-> n.children]
  BY <1>1 DEF Record
<1> QED
  BY <1>1, <1>2 DEF SameBytes, WithPath

(* A child that is put in the place of another leaves the bytes alone.     *)
LEMMA ReplacedBytes ==
  ASSUME NEW n, Record(n), NEW s, NEW y
  PROVE  SameBytes(Replaced(n, s, y), n)
<1>1. PICK u, ch : u = [n EXCEPT !.children = ch] /\ u = [n EXCEPT !.children[s] = y]
  OBVIOUS
<1>2. u = [kind |-> n.kind, num |-> n.num, plen |-> n.plen, partial |-> n.partial,
           keys |-> n.keys, children |-> ch]
  BY <1>1 DEF Record
<1> QED
  BY <1>1, <1>2 DEF SameBytes, Replaced

(* The fields of the node that DropChild makes.                            *)
LEMMA DropChildIs ==
  ASSUME NEW n, Record(n), NEW i, NEW y, y = DropChild(n, i)
  PROVE  y.kind = n.kind /\ y.keys = RemoveAt(n.keys, i)
<1>1. PICK ks, ch : ks = RemoveAt(n.keys, i) /\ ch = RemoveAt(n.children, i)
  OBVIOUS
<1>2. y = [n EXCEPT !.num = n.num - 1, !.keys = ks, !.children = ch]
  BY <1>1 DEF DropChild
<1>3. y = [kind |-> n.kind, num |-> n.num - 1, plen |-> n.plen, partial |-> n.partial,
           keys |-> ks, children |-> ch]
  BY <1>2 DEF Record
<1> QED
  BY <1>1, <1>3

(* remove_child keeps the order, and brings it when a node48 shrinks.      *)
LEMMA RemoveChildStraight ==
  ASSUME NEW n, Shape(n), Fit(n), n.kind = "node4" => 2 < Count(n), NEW c \in Byte, Child(n, c) # Nil, Straight(n)
  PROVE  Straight(RemoveChild(n, c))
<1>1. n.kind \in Kind /\ Record(n)
  BY DEF Shape, Record
<1>2. PICK i, y : i = Min(FindChild(n, c)) /\ y = DropChild(n, i)
  OBVIOUS
<1>3. CASE n.kind \in {"node4", "node16"}
  <2>1. PICK max \in Nat : Small(n, max) /\ max < NByte
    BY <1>3, Sizes DEF Shape
  <2>2. i \in 1 .. n.num /\ Count(n) = n.num /\ n.keys \in Seq(Byte) /\ Len(n.keys) = n.num
    BY <1>2, <1>3, <2>1, SmallPlace, SmallIndexed DEF Small
  <2>3. /\ y.kind = n.kind /\ y.keys = RemoveAt(n.keys, i)
        /\ Record(y) /\ y.num = n.num - 1 /\ n.num \in Nat
    <3>1. y.kind = n.kind /\ y.keys = RemoveAt(n.keys, i)
      BY <1>1, <1>2, DropChildIs
    <3>2. Record(y) /\ y.num = n.num - 1
      BY <1>1, <1>2, <1>3, <2>1, <2>2, DropChildOK
    <3> QED
      BY <1>1, <3>1, <3>2 DEF Record
  <2>4. Rising(y.keys)
    <3>1. Rising(n.keys)
      BY <1>3 DEF Straight
    <3> QED
      BY <2>2, <2>3, <3>1, RisingDelete
  <2>5. RemoveChild(n, c).keys = y.keys
    <3>1. CASE n.kind = "node4"
      <4>1. y.num # 1
        BY <2>2, <2>3, <3>1
      <4> QED
        BY <1>2, <3>1, <4>1 DEF RemoveChild, RemoveChild4
    <3>2. CASE n.kind = "node16"
      <4>1. PICK u : u = [y EXCEPT !.kind = "node4"]
        OBVIOUS
      <4>2. u.keys = y.keys
        BY <2>3, <4>1 DEF Record
      <4>3. RemoveChild(n, c) = y \/ RemoveChild(n, c) = u
        BY <1>2, <3>2, <4>1 DEF RemoveChild, RemoveChild16
      <4> QED
        BY <4>2, <4>3
    <3> QED
      BY <1>3, <3>1, <3>2
  <2> QED
    BY <2>4, <2>5 DEF Straight
<1>4. CASE n.kind = "node48"
  <2>1. Mapped(n)
    BY <1>4 DEF Shape
  <2>2. PICK m : m = Unmapped(n, c)
    OBVIOUS
  <2>3. Record(m) /\ m.kind = "node48"
    BY <1>1, <1>4, <2>1, <2>2, DropMapped
  <2>4. RemoveChild(n, c) = RemoveChild48(n, c)
    BY <1>4 DEF RemoveChild
  <2>5. CASE m.num # Shrink48
    <3>1. RemoveChild48(n, c) = m
      BY <2>2, <2>5 DEF RemoveChild48, Unmapped
    <3> QED
      BY <2>3, <2>4, <3>1 DEF Straight
  <2>6. CASE m.num = Shrink48
    <3>1. PICK B, bytes : B = {b \in Byte : m.keys[b] # 0} /\ bytes = Ascending(B)
      OBVIOUS
    <3>2. PICK ch : ch = [j \in DOMAIN bytes |-> m.children[m.keys[bytes[j]]]]
      OBVIOUS
    <3>3. PICK u : u = [m EXCEPT !.kind = "node16", !.keys = bytes, !.children = ch]
      OBVIOUS
    <3>4. RemoveChild48(n, c) = [m EXCEPT !.kind = "node16", !.keys = bytes,
                                          !.children = [j \in DOMAIN bytes |-> @[m.keys[bytes[j]]]]]
      BY <2>2, <2>6, <3>1 DEF RemoveChild48, Unmapped
    <3>5. RemoveChild48(n, c) = u
      BY <3>2, <3>3, <3>4
    <3>6. u = [kind |-> "node16", num |-> m.num, plen |-> m.plen, partial |-> m.partial,
               keys |-> bytes, children |-> ch]
      BY <2>3, <3>3 DEF Record
    <3>7. IsFiniteSet(B) /\ B \in SUBSET Nat
      <4>1. B \in SUBSET Byte
        BY <3>1
      <4> QED
        BY <4>1, BytesFinite, FS_Subset
    <3>8. Rising(bytes)
      BY <3>1, <3>7, AscendingIs
    <3> QED
      BY <2>4, <3>5, <3>6, <3>8 DEF Straight
  <2> QED
    BY <2>5, <2>6
<1>5. CASE n.kind = "node256"
  <2>1. RemoveChild(n, c) = RemoveChild256(n, c)
    BY <1>5 DEF RemoveChild
  <2>2. PICK m : m = Undirected(n, c)
    OBVIOUS
  <2>3. Record(m) /\ m.kind = "node256"
    BY <1>1, <1>5, <2>2, DropDirect DEF Shape
  <2>4. PICK ks, ch : RemoveChild256(n, c) = IF m.num = Shrink256
                                             THEN [m EXCEPT !.kind = "node48", !.keys = ks, !.children = ch] ELSE m
    BY <2>2 DEF RemoveChild256, Undirected
  <2>5. PICK u : u = [m EXCEPT !.kind = "node48", !.keys = ks, !.children = ch]
    OBVIOUS
  <2>6. u.kind = "node48"
    BY <2>3, <2>5 DEF Record
  <2> QED
    BY <2>1, <2>3, <2>4, <2>5, <2>6 DEF Straight
<1> QED
  BY <1>1, <1>3, <1>4, <1>5 DEF Kind

-----------------------------------------------------------------------------
(* Trees in which all nodes are in order.                                  *)

Tidied(N) == \A m \in N : IsInner(m) => Neat(m) /\ \A c \in Byte : Child(m, c) \in N
Tidy(n) == \E N : Tidied(N) /\ n \in N

(* The children of a tidy tree are tidy ...                                *)
LEMMA TidyChild ==
  ASSUME NEW n, Tidy(n), IsInner(n)
  PROVE  Neat(n) /\ \A c \in Byte : Tidy(Child(n, c))
<1>1. PICK N : Tidied(N) /\ n \in N
  BY DEF Tidy
<1> QED
  BY <1>1 DEF Tidied, Tidy

(* ... so is what is no node ...                                           *)
LEMMA TidyTip ==
  ASSUME NEW n, ~IsInner(n)
  PROVE  Tidy(n)
<1>1. Tidied({n})
  BY DEF Tidied
<1> QED
  BY <1>1 DEF Tidy

(* ... and a node in order with such children.                             *)
LEMMA TidyFold ==
  ASSUME NEW n, Neat(n), \A c \in Byte : Tidy(Child(n, c))
  PROVE  Tidy(n)
<1> DEFINE W(c) == CHOOSE N : Tidied(N) /\ Child(n, c) \in N
           N == {n} \cup UNION {W(c) : c \in Byte}
<1>1. ASSUME NEW c \in Byte PROVE Tidied(W(c)) /\ Child(n, c) \in W(c)
  <2>1. \E M : Tidied(M) /\ Child(n, c) \in M
    BY DEF Tidy
  <2> QED
    BY <2>1
<1> HIDE DEF W
<1>2. \A c \in Byte : Child(n, c) \in N /\ W(c) \subseteq N
  BY <1>1
<1>3. ASSUME NEW m \in N, IsInner(m) PROVE Neat(m) /\ \A c \in Byte : Child(m, c) \in N
  <2>1. CASE m = n
    <3> HIDE DEF N
    <3> QED
      BY <1>2, <2>1
  <2>2. CASE m # n
    <3>1. PICK b \in Byte : m \in W(b)
      BY <2>2
    <3>2. Neat(m) /\ \A c \in Byte : Child(m, c) \in W(b)
      BY <1>1, <1>3, <3>1 DEF Tidied
    <3> HIDE DEF N
    <3> QED
      BY <1>2, <3>1, <3>2
  <2> QED
    BY <2>1, <2>2
<1>4. n \in N
  OBVIOUS
<1> HIDE DEF N
<1> QED
  BY <1>3, <1>4 DEF Tidied, Tidy

(* The empty tree, and a leaf.                                             *)
LEMMA TidyNil == Tidy(Nil) /\ \A k, v : Tidy(Leaf(k, v))
<1>1. ~IsInner(Nil) /\ \A k, v : ~IsInner(Leaf(k, v))
  BY DEF Nil, Leaf, IsInner
<1> QED
  BY <1>1, TidyTip

(* Another path.                                                           *)
LEMMA TidyPath ==
  ASSUME NEW n, Shape(n), IsInner(n), Tidy(n), NEW p, NEW q
  PROVE  Tidy(WithPath(n, p, q))
<1>1. PICK u : u = WithPath(n, p, q)
  OBVIOUS
<1>2. \A b : Child(u, b) = Child(n, b)
  BY <1>1, WithPathOK
<1>3. Neat(n) /\ \A c \in Byte : Tidy(Child(n, c))
  BY TidyChild
<1>4. Neat(u)
  BY <1>1, <1>3, WithPathBytes, SameNeat DEF Shape
<1> QED
  BY <1>1, <1>2, <1>3, <1>4, TidyFold

(* A new node.                                                             *)
LEMMA TidyJoins ==
  ASSUME NEW y, NEW a, NEW b, Joins(y, a, b), a # Nil, b # Nil, Tidy(a), Tidy(b)
  PROVE  Tidy(y)
<1>1. PICK p, q : \E c, e \in Byte : c # e /\ y = Pair(p, q, c, a, e, b)
  BY DEF Joins
<1>2. PICK c \in Byte, e \in Byte : c # e /\ y = Pair(p, q, c, a, e, b)
  BY <1>1
<1>3. Neat(y)
  BY <1>2, PairNeat
<1>4. Paired(y, p, q, c, a, e, b)
  BY <1>2, PairOK
<1>5. \A d \in Byte : Child(y, d) = b \/ Child(y, d) = a \/ Child(y, d) = Nil
  BY <1>4 DEF Paired
<1> QED
  BY <1>3, <1>5, TidyFold, TidyNil

(* The trees along a way.                                                  *)
LEMMA TidyDown ==
  ASSUME NEW n, NEW L, NEW k \in Seq(Byte), NEW junk \in Byte, NEW w, NEW S, Chain(w, S, n, L, k, junk), Tidy(n)
  PROVE  \A j \in 1 .. Len(w) : Tidy(w[j].ref)
<1>1. PICK m \in Nat : m = Len(w) /\ 1 <= m
  BY ChainEnd
<1> DEFINE T == {i \in 1 .. m : Tidy(w[i].ref)}
<1>2. 1 \in T
  <2>1. w[1].ref = n
    BY DEF Chain, Top
  <2> QED
    BY <1>1, <2>1
<1>3. ASSUME NEW i \in T, i < m PROVE i + 1 \in T
  <2>1. i \in 1 .. m /\ i + 1 \in 1 .. m /\ i \in 1 .. Len(w) - 1 /\ i \in 1 .. Len(w)
    BY <1>1, <1>3
  <2>2. PICK x, y : x = w[i] /\ y = w[i + 1]
    OBVIOUS
  <2>3. Chained(x, S[i], y, S[i + 1], k, junk) /\ Good(x.ref, x.depth, S[i])
    BY <2>1, <2>2 DEF Chain
  <2>4. PICK c : c = Ahead(x, k, junk)
    OBVIOUS
  <2>5. IsInner(x.ref) /\ y.slot \in FindChild(x.ref, c) /\ y.ref = x.ref.children[y.slot]
    BY <2>3, <2>4 DEF Chained
  <2>6. c \in Byte
    <3>1. x.depth \in Nat /\ x.ref.plen \in Nat
      BY <2>3, <2>5, TreeFacts DEF Fork
    <3>2. x.depth + x.ref.plen \in Nat
      BY <3>1
    <3> QED
      BY <2>4, <3>2, KeyAtByte DEF Ahead
  <2>7. y.ref = Child(x.ref, c)
    BY <2>3, <2>5, <2>6, GoodChild
  <2>8. Tidy(x.ref)
    BY <2>2
  <2>9. Tidy(y.ref)
    BY <2>5, <2>6, <2>7, <2>8, TidyChild
  <2> QED
    BY <2>1, <2>2, <2>9
<1>4. T = 1 .. m
  <2>1. T \in SUBSET (1 .. m)
    OBVIOUS
  <2> HIDE DEF T
  <2> QED
    BY <1>1, <1>2, <1>3, <2>1, ChainInduction
<1> QED
  BY <1>1, <1>4

(* Another child.                                                          *)
LEMMA TidyReplaced ==
  ASSUME NEW n, Shape(n), IsInner(n), Tidy(n), NEW c \in Byte, NEW s \in FindChild(n, c), NEW y, y # Nil, Tidy(y)
  PROVE  Tidy(Replaced(n, s, y)) /\ Replaced(n, s, y) # Nil
<1>1. PICK u : u = Replaced(n, s, y)
  OBVIOUS
<1>2. IsInner(u) /\ \A b \in Byte : Child(u, b) = IF b = c THEN y ELSE Child(n, b)
  BY <1>1, ReplacedOK
<1>3. Neat(n) /\ \A b \in Byte : Tidy(Child(n, b))
  BY TidyChild
<1>4. Neat(u)
  BY <1>1, <1>3, ReplacedBytes, SameNeat DEF Shape
<1>5. Tidy(u)
  BY <1>2, <1>3, <1>4, TidyFold
<1>6. ~IsInner(Nil)
  BY DEF Nil, IsInner
<1> QED
  BY <1>1, <1>2, <1>5, <1>6

(* A change at the end of a way.                                           *)
LEMMA TidyUpdated ==
  ASSUME NEW n, NEW L, NEW k \in Seq(Byte), NEW junk \in Byte, NEW w, NEW S, Chain(w, S, n, L, k, junk),
         Tidy(n), NEW y, Tidy(y), y # Nil
  PROVE  Tidy(Updated(w, y))
<1>1. PICK m \in Nat : m = Len(w) /\ 1 <= m
  BY ChainEnd
<1>2. PICK g : Renews(g, w, y) /\ Updated(w, y) = g[1]
  BY <1>1, UpdatedIs
<1> DEFINE P(j) == Tidy(g[j]) /\ g[j] # Nil
           T == {i \in 0 .. m - 1 : P(m - i)}
<1>3. 0 \in T
  <2>1. m - 0 = m /\ 0 \in 0 .. m - 1
    BY <1>1
  <2>2. g[m] = y
    BY <1>1, <1>2 DEF Renews
  <2> QED
    BY <2>1, <2>2
<1>4. ASSUME NEW j \in 1 .. m - 1, P(j + 1) PROVE P(j)
  <2>1. PICK x, b, A, B : x = w[j] /\ b = w[j + 1] /\ A = S[j] /\ B = S[j + 1]
    OBVIOUS
  <2>2. j \in 1 .. Len(w) - 1 /\ j \in 1 .. Len(w)
    BY <1>1
  <2>3. Chained(x, A, b, B, k, junk) /\ Good(x.ref, x.depth, A)
    BY <2>1, <2>2 DEF Chain
  <2>4. PICK c, s : c = Ahead(x, k, junk) /\ s = b.slot
    OBVIOUS
  <2>5. IsInner(x.ref) /\ s \in FindChild(x.ref, c)
    BY <2>3, <2>4 DEF Chained
  <2>6. x.depth \in Nat /\ x.ref.plen \in Nat /\ Shape(x.ref)
    BY <2>3, <2>5, TreeFacts DEF Fork
  <2>7. c \in Byte
    <3>1. PICK e \in Nat : e = x.depth + x.ref.plen
      BY <2>6
    <3>2. c = KeyAt(k, e, junk)
      BY <2>4, <3>1 DEF Ahead
    <3> QED
      BY <3>2, KeyAtByte
  <2>8. g[j] = Replaced(x.ref, s, g[j + 1])
    BY <1>2, <2>1, <2>2, <2>4 DEF Renews
  <2>9. Tidy(x.ref)
    BY <2>1, <2>2, TidyDown
  <2>10. Tidy(g[j + 1]) /\ g[j + 1] # Nil
    BY <1>4
  <2> QED
    BY <2>5, <2>6, <2>7, <2>8, <2>9, <2>10, TidyReplaced
<1>5. ASSUME NEW i \in T, i < m - 1 PROVE i + 1 \in T
  <2>1. i \in 0 .. m - 1 /\ P(m - i)
    OBVIOUS
  <2> HIDE DEF P
  <2>2. PICK j \in 1 .. m - 1 : j = m - (i + 1) /\ j + 1 = m - i /\ i + 1 \in 0 .. m - 1
    <3>1. m - (i + 1) \in 1 .. m - 1 /\ (m - (i + 1)) + 1 = m - i /\ i + 1 \in 0 .. m - 1
      BY <1>1, <1>5, <2>1
    <3> QED
      BY <3>1
  <2>3. P(j)
    BY <1>4, <2>1, <2>2
  <2> QED
    BY <2>2, <2>3
<1>6. T = 0 .. m - 1
  <2>1. T \in SUBSET (0 .. m - 1)
    OBVIOUS
  <2>2. PICK z \in Nat : z = m - 1
    BY <1>1
  <2> HIDE DEF T
  <2> QED
    BY <1>3, <1>5, <2>1, <2>2, Induction
<1>7. P(1)
  <2>1. m - 1 \in 0 .. m - 1 /\ m - (m - 1) = 1
    BY <1>1
  <2>2. m - 1 \in T
    <3> HIDE DEF T
    <3> QED
      BY <1>6, <2>1
  <2> HIDE DEF P
  <2> QED
    BY <2>1, <2>2
<1> QED
  BY <1>2, <1>7

(* What recursive_insert does at the end of its way.                       *)
LEMMA TidyInsertHere ==
  ASSUME NEW x, NEW L, Good(x.ref, x.depth, L), NEW k \in Key, NEW v, NEW junk \in Byte,
         InsertSlot(x, k, junk) = {}, \A l \in L : Common(k, l.key, x.depth), Tidy(x.ref),
         IsInner(x.ref) => Reads(x.ref, k, x.depth), NEW y, y = InsertHere(x, k, v, junk)
  PROVE  Tidy(y)
<1>1. PICK n, d, b : n = x.ref /\ d = x.depth /\ b = Leaf(k, v)
  OBVIOUS
<1>2. /\ Good(n, d, L) /\ d \in Nat /\ n # Nil /\ n.kind # "null" /\ (~IsLeaf(n) <=> IsInner(n)) /\ L # {}
      /\ (\A l \in L : Common(k, l.key, d)) /\ (IsInner(n) => Reads(n, k, d))
  BY <1>1, TreeFacts
<1>3. b # Nil /\ Tidy(b) /\ Tidy(n)
  <2>1. b.kind = "leaf" /\ Nil.kind = "null"
    BY <1>1 DEF Leaf, Nil
  <2> QED
    BY <1>1, <2>1, TidyNil
<1>4. CASE IsLeaf(n)
  <2>1. L = {n} /\ n = Leaf(n.key, n.value)
    BY <1>2, <1>4, TreeFacts DEF Tip
  <2>2. CASE n.key = k
    <3>1. y = [n EXCEPT !.value = v]
      BY <1>1, <1>2, <1>4, <2>2 DEF InsertHere
    <3>2. y = Leaf(n.key, v)
      BY <2>1, <3>1 DEF Leaf
    <3> QED
      BY <3>2, TidyNil
  <2>3. CASE n.key # k
    <3>1. y = SplitLeaf(n, k, v, d, junk)
      BY <1>1, <1>2, <1>4, <2>3 DEF InsertHere
    <3>2. Common(k, n.key, d)
      BY <1>2, <2>1
    <3>3. Joins(y, n, b)
      BY <1>1, <1>2, <1>4, <2>3, <3>1, <3>2, SplitLeafGood
    <3> QED
      BY <1>2, <1>3, <3>3, TidyJoins
  <2> QED
    BY <2>2, <2>3
<1>5. CASE IsInner(n)
  <2>1. PICK m, p : m = PrefixMismatch(n, k, d) /\ p = n.plen
    OBVIOUS
  <2>2. \A l \in L : Parts(k, l.key, d, p, m)
    BY <1>2, <1>5, <2>1, MismatchInTree
  <2>3. p \in Nat /\ Shape(n) /\ Fit(n)
    BY <1>2, <1>5, <2>1, TreeFacts DEF Fork
  <2>4. m \in Nat
    BY <1>2, <2>2, <2>3 DEF Parts
  <2>5. CASE m < p
    <3>1. y = SplitPath(n, k, v, d, m, junk)
      BY <1>1, <1>2, <1>5, <2>1, <2>3, <2>4, <2>5 DEF InsertHere
    <3>2. PICK r, q : Joins(y, WithPath(n, r, q), b)
      BY <1>1, <1>2, <1>5, <2>1, <2>5, <3>1, SplitPathGood
    <3>3. PICK a : a = WithPath(n, r, q)
      OBVIOUS
    <3>4. Tidy(a)
      BY <1>3, <1>5, <2>3, <3>3, TidyPath
    <3>5. a # Nil
      <4>1. IsInner(a) /\ ~IsInner(Nil)
        BY <2>3, <3>3, WithPathOK DEF Nil, IsInner
      <4> QED
        BY <4>1
    <3> QED
      BY <1>3, <3>2, <3>3, <3>4, <3>5, TidyJoins
  <2>6. CASE ~(m < p)
    <3>1. y = AddChild(n, KeyAt(k, d + p, junk), b)
      BY <1>1, <1>2, <1>5, <2>1, <2>6 DEF InsertHere
    <3>2. m >= p
      BY <2>3, <2>4, <2>6
    <3>3. PICK c : c = KeyAt(k, d + p, junk)
      OBVIOUS
    <3>4. FindChild(n, c) = {}
      BY <1>1, <1>5, <2>1, <3>2, <3>3 DEF InsertSlot
    <3>5. c \in Byte
      <4>1. k \in Seq(Byte) /\ d + p \in Nat
        BY <1>2, <2>3, KeyFacts
      <4> QED
        BY <3>3, <4>1, KeyAtByte
    <3>6. Child(n, c) = Nil
      BY <3>4 DEF Child
    <3>7. Neat(n) /\ \A e \in Byte : Tidy(Child(n, e))
      BY <1>3, <1>5, TidyChild
    <3>8. y = AddChild(n, c, b)
      BY <3>1, <3>3
    <3>9. Neat(y)
      BY <2>3, <3>5, <3>6, <3>7, <3>8, AddChildNeat
    <3>10. Added(n, c, b, y)
      BY <1>3, <2>3, <3>5, <3>6, <3>8, AddChildOK
    <3>11. \A e \in Byte : Child(y, e) = IF e = c THEN b ELSE Child(n, e)
      BY <3>10 DEF Added
    <3> QED
      BY <1>3, <3>7, <3>9, <3>11, TidyFold
  <2> QED
    BY <2>5, <2>6
<1> QED
  BY <1>2, <1>4, <1>5

(* recursive_insert keeps a tree tidy.                                     *)
LEMMA TidyInsert ==
  ASSUME NEW n, NEW L, Good(n, 0, L), NEW k \in Key, NEW v, NEW junk \in Byte, Tidy(n),
         Clear(n, k, junk)
  PROVE  Tidy(Insert(n, k, v, junk).ref)
<1>1. k \in Seq(Byte)
  BY KeyFacts
<1>2. PICK w : w = InsertWay(n, k, junk)
  OBVIOUS
<1>3. /\ \E S : Chain(w, S, n, L, k, junk)
      /\ InsertSlot(Last(w), k, junk) = {}
      /\ \A j \in 1 .. Len(w) - 1 : InsertSlot(w[j], k, junk) # {}
  <2>1. InsertEnds(w, n, L, k, junk)
    BY <1>1, <1>2, InsertWayOK
  <2> QED
    BY <2>1 DEF InsertEnds
<1>4. PICK S : Chain(w, S, n, L, k, junk)
  BY <1>3
<1>5. PICK x, M : x = Last(w) /\ M = S[Len(w)]
  OBVIOUS
<1>6. Len(w) \in 1 .. Len(w) /\ x = w[Len(w)] /\ Good(x.ref, x.depth, M)
  BY <1>4, <1>5, ChainEnd
<1>7. \A l \in M : Common(k, l.key, x.depth)
  <2>1. \A j \in 1 .. Len(w) : \A l \in S[j] : Common(k, l.key, w[j].depth)
    BY <1>3, <1>4, InsertAgrees
  <2> QED
    BY <1>5, <1>6, <2>1
<1>8. PICK y : y = InsertHere(x, k, v, junk)
  OBVIOUS
<1>9. Tidy(x.ref) /\ (IsInner(x.ref) => Reads(x.ref, k, x.depth))
  BY <1>1, <1>2, <1>4, <1>5, <1>6, TidyDown DEF Clear
<1>10. Tidy(y)
  BY <1>3, <1>5, <1>6, <1>7, <1>8, <1>9, TidyInsertHere
<1>11. y # Nil
  <2>1. Good(y, x.depth, Without(M, k) \cup {Leaf(k, v)})
    BY <1>3, <1>5, <1>6, <1>7, <1>8, <1>9, InsertHereOK
  <2> QED
    BY <2>1, TreeFacts
<1>12. Tidy(Updated(w, y))
  BY <1>1, <1>4, <1>10, <1>11, TidyUpdated
<1>13. Insert(n, k, v, junk).ref = Updated(w, y)
  BY <1>2, <1>5, <1>8 DEF Insert
<1> QED
  BY <1>12, <1>13

(* A node in order without negative bytes.                                 *)
LEMMA NotHigh ==
  ASSUME NEW n, ~Mixes(n), NEW x \in Inner(n, 0), NEW r, r = x.ref, Neat(r)
  PROVE  Straight(r)
<1>1. ~High(r)
  BY DEF Mixes, High
<1> QED
  BY <1>1 DEF Neat

(* remove_child keeps a tree tidy, if the node is in order.                *)
LEMMA TidyRemove ==
  ASSUME NEW n, NEW d, NEW L, Good(n, d, L), IsInner(n), Tidy(n), Straight(n),
         NEW c \in Byte, Child(n, c) # Nil
  PROVE  Tidy(RemoveChild(n, c))
<1>1. Shape(n) /\ Fit(n)
  BY TreeFacts DEF Fork
<1>2. \A b \in Byte : Tidy(Child(n, b))
  BY TidyChild
<1>3. CASE n.kind = "node4" => 2 < Count(n)
  <2>1. PICK y : y = RemoveChild(n, c)
    OBVIOUS
  <2>2. Removed(n, c, y)
    BY <1>1, <1>3, <2>1, RemoveChildOK
  <2>3. \A b \in Byte : Child(y, b) = IF b = c THEN Nil ELSE Child(n, b)
    BY <2>2 DEF Removed
  <2>4. Neat(y)
    BY <1>1, <1>3, <2>1, RemoveChildStraight DEF Neat
  <2>5. Tidy(y)
    BY <1>2, <2>3, <2>4, TidyFold, TidyNil
  <2> QED
    BY <2>1, <2>5
<1>4. CASE ~(n.kind = "node4" => 2 < Count(n))
  <2>1. n.kind = "node4" /\ Count(n) = 2
    <3>1. Count(n) \in Nat
      BY <1>1, ShapeIndexed DEF Indexed
    <3> QED
      BY <1>1, <1>4, <3>1 DEF Fit
  <2>2. PICK e \in Byte :
           /\ e # c /\ Child(n, e) # Nil /\ \A b \in Byte : b # c /\ b # e => Child(n, b) = Nil
           /\ IsLeaf(Child(n, e)) => RemoveChild(n, c) = Child(n, e)
           /\ ~IsLeaf(Child(n, e)) => RemoveChild(n, c) = Merged(n, e, Child(n, e))
    BY <1>1, <2>1, RemoveLastOK
  <2>3. PICK x, z, B : x = Child(n, e) /\ z = d + n.plen + 1 /\ B = Share(L, e, d + n.plen + 1)
    OBVIOUS
  <2>4. Good(x, z, B) /\ Tidy(x)
    BY <1>2, <2>2, <2>3, ChildOf
  <2>5. CASE IsLeaf(x)
    BY <2>2, <2>3, <2>4, <2>5
  <2>6. CASE ~IsLeaf(x)
    <3>1. IsInner(x) /\ Shape(x)
      BY <2>4, <2>6, TreeFacts DEF Fork
    <3>2. PICK p, q : Merged(n, e, x) = WithPath(x, p, q)
      BY DEF Merged
    <3>3. Tidy(WithPath(x, p, q))
      BY <2>4, <3>1, TidyPath
    <3> QED
      BY <2>2, <2>3, <2>6, <3>2, <3>3
  <2> QED
    BY <2>5, <2>6
<1> QED
  BY <1>3, <1>4

(* What recursive_delete does at the end of its way.                       *)
LEMMA TidyDeleteHere ==
  ASSUME NEW x, NEW M, Good(x.ref, x.depth, M), NEW k \in Seq(Byte), NEW junk \in Byte,
         IsInner(x.ref), Tidy(x.ref), Straight(x.ref)
  PROVE  Tidy(DeleteHere(x, k, junk))
<1>1. PICK r, d : r = x.ref /\ d = x.depth
  OBVIOUS
<1>2. Good(r, d, M) /\ IsInner(r) /\ ~IsLeaf(r) /\ d \in Nat /\ r.plen \in Nat /\ Tidy(r) /\ Straight(r)
  BY <1>1, TreeFacts DEF Fork
<1>3. PICK e \in Nat : e = d + r.plen
  BY <1>2
<1>4. PICK c \in Byte : c = KeyAt(k, e, junk)
  BY <1>3, KeyAtByte
<1>5. PICK q : q = DeleteChild(x, k, junk)
  OBVIOUS
<1>6. q = IF PathMatches(r, k, d) THEN Child(r, c) ELSE Nil
  BY <1>1, <1>2, <1>3, <1>4, <1>5 DEF DeleteChild
<1>7. CASE Cut(x, k, junk) = Nil
  <2>1. DeleteHere(x, k, junk) = r
    BY <1>1, <1>7 DEF DeleteHere
  <2> QED
    BY <1>2, <2>1
<1>8. CASE Cut(x, k, junk) # Nil
  <2>1. IsLeaf(q) /\ ~IsLeaf(Nil)
    BY <1>1, <1>2, <1>5, <1>8 DEF Cut, Nil, IsLeaf
  <2>2. Child(r, c) # Nil
    BY <1>6, <2>1
  <2>3. DeleteHere(x, k, junk) = RemoveChild(r, c)
    BY <1>1, <1>2, <1>3, <1>4, <1>8 DEF DeleteHere
  <2> QED
    BY <1>2, <2>2, <2>3, TidyRemove
<1> QED
  BY <1>7, <1>8

(* recursive_delete keeps a tree tidy that has no negative bytes.          *)
LEMMA TidyDelete ==
  ASSUME NEW n, NEW L, Good(n, 0, L), NEW k \in Seq(Byte), NEW junk \in Byte, Tidy(n), ~Mixes(n)
  PROVE  Tidy(Delete(n, k, junk).ref)
<1>2. PICK w : w = DeleteWay(n, k, junk)
  OBVIOUS
<1>3. /\ \E S : Chain(w, S, n, L, k, junk)
      /\ DeleteSlot(Last(w), k, junk) = {}
      /\ \A j \in 1 .. Len(w) - 1 : DeleteSlot(w[j], k, junk) # {}
  <2>1. DeleteEnds(w, n, L, k, junk)
    BY <1>2, DeleteWayOK
  <2> QED
    BY <2>1 DEF DeleteEnds
<1>4. PICK S : Chain(w, S, n, L, k, junk)
  BY <1>3
<1>5. PICK x, M : x = Last(w) /\ M = S[Len(w)]
  OBVIOUS
<1>6. Len(w) \in 1 .. Len(w) /\ x = w[Len(w)] /\ Good(x.ref, x.depth, M) /\ Len(w) \in Nat /\ 1 <= Len(w)
  BY <1>4, <1>5, ChainEnd
<1>7. PICK y : y = DeleteHere(x, k, junk)
  OBVIOUS
<1>8. Tidy(x.ref)
  BY <1>4, <1>6, TidyDown
<1>9. Delete(n, k, junk).ref = Updated(w, y)
  BY <1>2, <1>5, <1>7 DEF Delete
<1>10. CASE IsInner(x.ref)
  <2>1. PICK z \in Inner(n, 0) : z.ref = x.ref
    BY <1>4, <1>6, <1>10, WayInner
  <2>2. Neat(x.ref)
    BY <1>8, <1>10, TidyChild
  <2>3. Straight(x.ref)
    BY <2>1, <2>2, NotHigh
  <2>4. Tidy(y)
    BY <1>6, <1>7, <1>8, <1>10, <2>3, TidyDeleteHere
  <2>5. y # Nil
    <3>1. Deletes(x, M, k, junk, y) /\ ~IsLeaf(x.ref)
      BY <1>3, <1>5, <1>6, <1>7, <1>10, DeleteHereInner, TreeFacts
    <3>2. Good(y, x.depth, Without(M, k))
      BY <3>1 DEF Deletes
    <3> QED
      BY <3>2, TreeFacts
  <2> QED
    BY <1>4, <1>9, <2>4, <2>5, TidyUpdated
<1>11. CASE ~IsInner(x.ref)
  <2>1. Len(w) = 1
    <3> SUFFICES ASSUME Len(w) # 1 PROVE FALSE
      OBVIOUS
    <3>1. PICK j \in 1 .. Len(w) - 1 : j + 1 = Len(w)
      <4>1. PICK m \in Nat : m = Len(w) /\ 1 <= m /\ m # 1
        BY <1>6
      <4>2. m - 1 \in 1 .. m - 1 /\ (m - 1) + 1 = m
        BY <4>1
      <4> QED
        BY <4>1, <4>2
    <3>2. IsInner(w[j + 1].ref)
      BY <1>3, <1>4, <3>1, DeleteStaysInner
    <3> QED
      BY <1>6, <1>11, <3>1, <3>2
  <2>2. PICK g : Renews(g, w, y) /\ Updated(w, y) = g[1]
    BY <1>6, UpdatedIs
  <2>3. Updated(w, y) = y
    BY <2>1, <2>2 DEF Renews
  <2>4. IsLeaf(x.ref)
    BY <1>6, <1>11, TreeFacts
  <2>5. y = Nil \/ y = x.ref
    BY <1>7, <2>4 DEF DeleteHere
  <2> QED
    BY <1>8, <1>9, <2>3, <2>5, TidyNil
<1> QED
  BY <1>10, <1>11

(* The nodes of a tidy tree without negative bytes are in order.           *)
LEMMA TidyInner ==
  ASSUME NEW n, NEW L, Good(n, 0, L), Tidy(n), ~Mixes(n)
  PROVE  \A x \in Inner(n, 0) : Straight(x.ref)
<1>1. PICK f : InnerRun(f, n)
  BY InnerIs
<1>2. PICK T : T = {i \in Steps : \A x \in f[i] : Tidy(x.ref)}
  OBVIOUS
<1>3. \A x \in f[0] : Tidy(x.ref)
  <2>1. f[0] = (IF IsInner(n) THEN {Top(n)} ELSE {}) /\ Top(n).ref = n
    BY <1>1, InnerStart
  <2> QED
    BY <2>1
<1>4. ASSUME NEW i \in T, i < MaxLen PROVE \A x \in f[i + 1] : Tidy(x.ref)
  <2> SUFFICES ASSUME NEW x \in f[i + 1] PROVE Tidy(x.ref)
    OBVIOUS
  <2>1. x \in WithBelow(f[i])
    BY <1>1, <1>2, <1>4 DEF InnerRun
  <2>2. CASE x \in f[i]
    BY <1>2, <2>2
  <2>3. CASE x \notin f[i]
    <3>1. PICK y \in f[i] : \E s \in Used(y.ref) : IsInner(y.ref.children[s]) /\ x = Below(y, s)
      BY <2>1, <2>3 DEF WithBelow
    <3>2. PICK s \in Used(y.ref) : IsInner(y.ref.children[s]) /\ x = Below(y, s)
      BY <3>1
    <3>3. Part(y, 0, L)
      BY <1>1, <1>2, InnerParts
    <3>4. PICK r, M : r = y.ref /\ IsInner(r) /\ Good(r, 0 + y.depth, M)
      BY <3>3 DEF Part
    <3>5. Indexed(r)
      BY <3>4, TreeFacts, ShapeIndexed DEF Fork
    <3>6. PICK c \in Byte : s \in FindChild(r, c)
      BY <3>2, <3>4, <3>5 DEF Indexed
    <3>7. x.ref = Child(r, c)
      BY <3>2, <3>4, <3>5, <3>6, BelowIs DEF Indexed
    <3>8. Tidy(r)
      BY <1>2, <3>4
    <3> QED
      BY <3>4, <3>6, <3>7, <3>8, TidyChild
  <2> QED
    BY <2>2, <2>3
<1>5. 0 \in T /\ \A i \in T : i \in Steps /\ i < MaxLen => i + 1 \in T
  <2>1. 0 \in Steps /\ \A i \in Steps : i < MaxLen => i + 1 \in Steps
    BY Sizes DEF Steps
  <2> QED
    BY <1>2, <1>3, <1>4, <2>1
<1>6. \A i \in Steps : i \in T
  BY <1>5, StepInduction
<1>7. ASSUME NEW x \in Inner(n, 0) PROVE Straight(x.ref)
  <2>1. x \in f[MaxLen] /\ MaxLen \in Steps
    BY <1>1, Sizes DEF InnerRun, Steps
  <2>2. Tidy(x.ref)
    BY <1>2, <1>6, <2>1
  <2>3. IsInner(x.ref)
    BY InnerGood DEF Part
  <2>4. Neat(x.ref)
    BY <2>2, <2>3, TidyChild
  <2> QED
    BY <2>4, NotHigh
<1> QED
  BY <1>7

-----------------------------------------------------------------------------
(* art_iter.                                                               *)

(* A sequence that lists the leaves of a map, no leaf twice.               *)
LEMMA ListedLeaves ==
  ASSUME NEW m, NEW L, L = LeavesOf(m), NEW s, Listed(s, L, Distinct(L)), NEW z, Counts(z, m)
  PROVE  /\ Len(s) = z
         /\ {<<l.key, l.value>> : l \in ToSet(s)} = {<<k, m[k]>> : k \in KeysOf(m)}
<1>1. s \in Seq(L) /\ Len(s) \in Nat /\ DOMAIN s = 1 .. Len(s) /\ \A i \in 1 .. Len(s) : s[i] \in L
  BY DEF Listed
<1>2. \A l \in L : \E i \in 1 .. Len(s) : s[i] = l
  BY DEF Listed
<1>3. \A i, j \in 1 .. Len(s) : i < j => s[i] # s[j]
  BY DEF Listed, Distinct
<1>4. /\ \A l \in L : l.key \in KeysOf(m) /\ l = Leaf(l.key, m[l.key]) /\ l.value = m[l.key]
      /\ \A k \in KeysOf(m) : \E l \in L : l.key = k /\ l.value = m[k]
  <2>1. \A l \in L : l.key \in KeysOf(m) /\ l = Leaf(l.key, m[l.key]) /\ l.value = m[l.key]
    BY LeavesOfIs DEF KeysOf
  <2>2. \A k \in KeysOf(m) : \E l \in L : l.key = k
    BY LeavesOfIs DEF KeysOf
  <2> QED
    BY <2>1, <2>2
<1>5. PICK h : h = [i \in 1 .. Len(s) |-> s[i].key]
  OBVIOUS
<1>6. h \in [1 .. Len(s) -> KeysOf(m)] /\ \A i \in 1 .. Len(s) : h[i] = s[i].key
  BY <1>1, <1>4, <1>5
<1>7. \A i, j \in 1 .. Len(s) : h[i] = h[j] => i = j
  <2> SUFFICES ASSUME NEW i \in 1 .. Len(s), NEW j \in 1 .. Len(s), h[i] = h[j], i # j PROVE FALSE
    OBVIOUS
  <2>1. s[i] = s[j]
    BY <1>1, <1>4, <1>6
  <2>2. i < j \/ j < i
    BY <1>1
  <2> QED
    BY <1>3, <2>1, <2>2
<1>8. \A k \in KeysOf(m) : \E i \in 1 .. Len(s) : h[i] = k
  BY <1>2, <1>4, <1>6
<1>9. Len(s) = z
  <2>1. PICK A, B : A = 1 .. Len(s) /\ B = KeysOf(m)
    OBVIOUS
  <2>2. h \in Bijection(A, B)
    BY <1>6, <1>7, <1>8, <2>1 DEF Bijection, Injection, Surjection, IsInjective
  <2>3. ExistsBijection(A, B)
    BY <2>2 DEF ExistsBijection
  <2>4. IsFiniteSet(A) /\ Cardinality(A) = Len(s)
    <3>1. PICK e \in Nat : e = Len(s)
      BY <1>1
    <3>2. IsFiniteSet(1 .. e) /\ Cardinality(1 .. e) = IF 1 > e THEN 0 ELSE e - 1 + 1
      BY SMTT(40), FS_Interval
    <3> QED
      BY <2>1, <3>1, <3>2
  <2>5. Cardinality(B) = Cardinality(A)
    BY <2>3, <2>4, FS_Bijection
  <2> QED
    BY <2>1, <2>4, <2>5 DEF Counts
<1>10. ToSet(s) = L
  BY <1>1, <1>2 DEF ToSet
<1>11. {<<l.key, l.value>> : l \in L} = {<<k, m[k]>> : k \in KeysOf(m)}
  <2>1. \A l \in L : <<l.key, l.value>> \in {<<k, m[k]>> : k \in KeysOf(m)}
    BY <1>4
  <2>2. \A k \in KeysOf(m) : <<k, m[k]>> \in {<<l.key, l.value>> : l \in L}
    BY <1>4
  <2> QED
    BY <2>1, <2>2
<1> QED
  BY <1>9, <1>10, <1>11

(* The invariant behind IterExact: the tree is what the map says, its size *)
(* is the number of the keys, and it is tidy as long as no node16 has had  *)
(* a negative byte.                                                        *)
IterInv ==
  /\ ArtInv /\ Counts(size, map)
  /\ mixed \/ (Tidy(root) /\ ~Mixes(root))

(* Initially ...                                                           *)
LEMMA InitIter == ASSUME Init PROVE IterInv
<1>1. ~Mixes(Nil)
  <2>1. ~IsInner(Nil)
    BY DEF Nil, IsInner
  <2>2. Inner(Nil, 0) = {}
    BY <2>1, NoInner
  <2> QED
    BY <2>2 DEF Mixes
<1> QED
  BY <1>1, InitStands, NoneCounts, TidyNil DEF Init, IterInv

(* ... and in every step that tears nothing.                               *)
LEMMA StepIter == ASSUME IterInv, [Next]_vars, ~torn' PROVE IterInv'
<1>1. /\ ArtInv /\ map \in [Key -> Val \cup {NULL}] /\ Represents(root, map) /\ Counts(size, map)
      /\ mixed \/ (Tidy(root) /\ ~Mixes(root))
  BY DEF ArtInv, IterInv
<1>2. ArtInv'
  BY <1>1, StepStands
<1>3. ~Mixes(Nil)
  <2>1. ~IsInner(Nil)
    BY DEF Nil, IsInner
  <2>2. Inner(Nil, 0) = {}
    BY <2>1, NoInner
  <2> QED
    BY <2>2 DEF Mixes
<1>4. CASE \E a \in Adds, junk \in Junk : ArtInsert(a[1], a[2], junk)
  <2>1. PICK a \in Adds, junk \in Junk : ArtInsert(a[1], a[2], junk)
    BY <1>4
  <2>2. PICK k \in Key, v \in Val : k = a[1] /\ v = a[2]
    BY <2>1, Queries
  <2>3. junk \in Byte
    BY <2>1, Queries
  <2>4. /\ root' = Insert(root, k, v, junk).ref /\ map' = [map EXCEPT ![k] = v]
        /\ size' = (IF Insert(root, k, v, junk).found THEN size ELSE size + 1)
        /\ mixed' = (mixed \/ Mixes(root'))
    BY <2>1, <2>2 DEF ArtInsert
  <2>5. root # Nil => Clear(root, k, junk)
    <3>1. \A x \in Inner(root, 0) : ~Misreads(x, k)
      BY <2>1, <2>2 DEF ArtInsert
    <3> QED
      BY <1>1, <2>3, <3>1, ClearIs
  <2>6. Counts(size', map')
    BY <1>1, <2>3, <2>4, <2>5, InsertCounts
  <2>7. Tidy(root) => Tidy(root')
    <3>1. CASE root = Nil
      BY <2>4, <3>1, NilOK, TidyNil
    <3>2. CASE root # Nil
      <4>1. Good(root, 0, LeavesOf(map))
        BY <1>1, <3>2 DEF Represents
      <4> QED
        BY <2>3, <2>4, <2>5, <3>2, <4>1, TidyInsert
    <3> QED
      BY <3>1, <3>2
  <2> QED
    BY <1>1, <1>2, <2>4, <2>6, <2>7 DEF IterInv
<1>5. CASE \E k \in Query, junk \in Junk : ArtDelete(k, junk)
  <2>1. PICK k \in Query, junk \in Junk : ArtDelete(k, junk)
    BY <1>5
  <2>2. k \in Seq(Byte) /\ junk \in Byte
    BY <2>1, Queries
  <2>3. /\ root' = Delete(root, k, junk).ref /\ map' = (IF k \in Key THEN [map EXCEPT ![k] = NULL] ELSE map)
        /\ size' = (IF Delete(root, k, junk).leaf = Nil THEN size ELSE size - 1)
        /\ mixed' = (mixed \/ Mixes(root'))
    BY <2>1 DEF ArtDelete
  <2>4. Counts(size', map')
    BY <1>1, <2>2, <2>3, DeleteCounts
  <2>5. Tidy(root) /\ ~Mixes(root) => Tidy(root')
    <3>1. CASE root = Nil
      BY <2>3, <3>1, NilOK, TidyNil
    <3>2. CASE root # Nil
      <4>1. Good(root, 0, LeavesOf(map))
        BY <1>1, <3>2 DEF Represents
      <4> QED
        BY <2>2, <2>3, <4>1, TidyDelete
    <3> QED
      BY <3>1, <3>2
  <2> QED
    BY <1>1, <1>2, <2>3, <2>4, <2>5 DEF IterInv
<1>6. CASE DestroyArtTree
  BY <1>2, <1>3, <1>6, NoneCounts, TidyNil DEF DestroyArtTree, IterInv
<1>7. CASE UNCHANGED vars
  BY <1>1, <1>2, <1>7 DEF vars, IterInv
<1> QED
  BY <1>4, <1>5, <1>6, <1>7 DEF Next

(* A new tree is one again.                                                *)
LEMMA TornIter == ASSUME torn, [Next]_vars PROVE torn' \/ IterInv'
<1>1. CASE DestroyArtTree
  <2>1. ~Mixes(Nil)
    <3>1. ~IsInner(Nil)
      BY DEF Nil, IsInner
    <3>2. Inner(Nil, 0) = {}
      BY <3>1, NoInner
    <3> QED
      BY <3>2 DEF Mixes
  <2>2. ArtInv'
    BY <1>1, LeavesNone DEF DestroyArtTree, ArtInv, Represents
  <2> QED
    BY <1>1, <2>1, <2>2, NoneCounts, TidyNil DEF DestroyArtTree, IterInv
<1>2. CASE UNCHANGED vars
  BY <1>2 DEF vars
<1>3. ASSUME NEW k, NEW v, NEW junk PROVE ~ArtInsert(k, v, junk) /\ ~ArtDelete(k, junk)
  BY DEF ArtInsert, ArtDelete
<1> QED
  BY <1>1, <1>2, <1>3 DEF Next

(* It gives what IterExact says.                                           *)
LEMMA InvIterExact == ASSUME IterInv PROVE IterExact
<1>1. /\ Represents(root, map) /\ Counts(size, map)
      /\ mixed \/ (Tidy(root) /\ ~Mixes(root))
  BY DEF ArtInv, IterInv
<1>2. PICK n, s, L : n = root /\ s = Iter(root) /\ L = LeavesOf(map)
  OBVIOUS
<1>3. KeysOf(map) = Bound
  BY DEF KeysOf, Bound
<1>4. size = Cardinality(Bound)
  BY <1>1, <1>3 DEF Counts
<1>5. Listed(s, L, Distinct(L))
  <2>1. CASE Good(n, 0, L)
    <3>1. ASSUME NEW x \in Inner(n, 0) PROVE Sorts(x.ref, Distinct(L))
      <4>1. IsInner(x.ref) /\ \E M : M \subseteq L /\ Good(x.ref, 0 + x.depth, M)
        BY <2>1, InnerGood DEF Part
      <4> QED
        BY <4>1, SortsDistinct
    <3> QED
      BY <1>2, <2>1, <3>1, IterOK
  <2>2. CASE n = Nil /\ L = {}
    <3>1. s = <<>>
      BY <1>2, <2>2 DEF Iter
    <3>2. <<>> \in Seq(L) /\ Len(<<>>) = 0 /\ \A j \in 1 .. 0 : FALSE
      OBVIOUS
    <3> QED
      BY <2>2, <3>1, <3>2 DEF Listed
  <2> QED
    BY <1>1, <1>2, <2>1, <2>2 DEF Represents
<1>6. Len(s) = size /\ {<<l.key, l.value>> : l \in ToSet(s)} = {<<k, map[k]>> : k \in Bound}
  BY <1>1, <1>2, <1>3, <1>5, ListedLeaves
<1>7. ASSUME ~mixed PROVE \A i, j \in DOMAIN s : i < j => Less(s[i].key, s[j].key)
  <2>1. CASE Good(n, 0, L)
    <3>1. \A x \in Inner(n, 0) : Straight(x.ref)
      BY <1>1, <1>2, <1>7, <2>1, TidyInner
    <3>2. ASSUME NEW x \in Inner(n, 0) PROVE Sorts(x.ref, Lesser(L))
      <4>1. IsInner(x.ref) /\ \E M : M \subseteq L /\ Good(x.ref, 0 + x.depth, M)
        BY <2>1, InnerGood DEF Part
      <4> QED
        BY <3>1, <4>1, SortsLesser
    <3>3. Listed(s, L, Lesser(L))
      BY <1>2, <2>1, <3>2, IterOK
    <3>4. DOMAIN s = 1 .. Len(s) /\ \A i, j \in 1 .. Len(s) : i < j => <<s[i], s[j]>> \in Lesser(L)
      BY <3>3 DEF Listed
    <3> QED
      BY <3>4 DEF Lesser
  <2>2. CASE n = Nil /\ L = {}
    <3>1. s = <<>>
      BY <1>2, <2>2 DEF Iter
    <3> QED
      BY <3>1
  <2> QED
    BY <1>1, <1>2, <2>1, <2>2 DEF Represents
<1> QED
  BY <1>2, <1>4, <1>6, <1>7 DEF IterExact

(* art_iter gives the callback every key that was inserted and not deleted *)
(* since once, with its value, and as many as art_size says; in ascending  *)
(* order, as long as no node16 has had a byte above 127: for every sizes   *)
(* of nodes, sets of keys and sequences of calls that do not tear the tree.*)
THEOREM IterAlwaysExact == Spec => []IterExact
<1>1. Init => torn \/ IterInv
  BY InitIter
<1>2. (torn \/ IterInv) /\ [Next]_vars => (torn \/ IterInv)'
  BY StepIter, TornIter
<1>3. torn \/ IterInv => IterExact
  BY InvIterExact DEF IterExact
<1> QED
  BY <1>1, <1>2, <1>3, PTL DEF Spec

-----------------------------------------------------------------------------
(* art_iter_prefix.                                                        *)

(* The loop of art_iter_prefix.                                            *)
PrefixRun(f, n, k, junk) ==
  /\ DOMAIN f = Steps /\ f[0] = <<Top(n)>>
  /\ \A i \in Steps : i < MaxLen => f[i + 1] = Longer(f[i], PrefixSlot(Last(f[i]), k, junk))
  /\ PrefixWay(n, k, junk) = f[MaxLen]

(* PrefixWay is what that loop ends with.                                  *)
LEMMA PrefixWayIs ==
  ASSUME NEW n, NEW k, NEW junk
  PROVE  \E f : PrefixRun(f, n, k, junk)
<1> DEFINE G(x) == Longer(x, PrefixSlot(Last(x), k, junk))
           A == <<Top(n)>>
           Runs(m, f) == f = [i \in 0 .. m |-> IF i = 0 THEN A ELSE G(f[i - 1])]
           D == {m \in 0 .. MaxLen : \E f : Runs(m, f)}
<1>1. MaxLen \in Nat
  BY Sizes
<1>2. PrefixWay(n, k, junk) = (CHOOSE f : Runs(MaxLen, f))[MaxLen]
  BY Zenon DEF PrefixWay, Steps
<1> HIDE DEF G, A
<1>3. 0 \in D
  <2>1. PICK f : f = [i \in 0 .. 0 |-> A]
    OBVIOUS
  <2>2. \A i \in 0 .. 0 : i = 0
    OBVIOUS
  <2>3. Runs(0, f)
    BY <2>1, <2>2
  <2> QED
    BY <1>1, <2>3
<1>4. ASSUME NEW m \in D, m < MaxLen PROVE m + 1 \in D
  <2>1. PICK f : Runs(m, f)
    OBVIOUS
  <2>2. m + 1 \in 0 .. MaxLen /\ m \in Nat
    BY <1>1, <1>4
  <2>3. PICK x : x = G(f[m])
    OBVIOUS
  <2>4. PICK g : g = [i \in 0 .. m + 1 |-> IF i = m + 1 THEN x ELSE f[i]]
    OBVIOUS
  <2>5. ASSUME NEW i \in 0 .. m + 1
        PROVE  g[i] = IF i = 0 THEN A ELSE G(g[i - 1])
    <3>1. CASE i = m + 1
      <4>1. g[i] = x /\ i # 0 /\ i - 1 = m /\ i - 1 \in 0 .. m + 1 /\ i - 1 # m + 1
        BY <2>2, <2>4, <3>1
      <4>2. g[i - 1] = f[m]
        BY <2>4, <4>1
      <4> QED
        BY <2>3, <3>1, <4>1, <4>2
    <3>2. CASE i = 0
      <4>1. i \in 0 .. m /\ i # m + 1
        BY <2>2, <3>2
      <4> QED
        BY <2>1, <2>4, <3>2, <4>1
    <3>3. CASE i # m + 1 /\ i # 0
      <4>1. i \in 0 .. m /\ i - 1 \in 0 .. m + 1 /\ i - 1 # m + 1
        BY <2>2, <3>3
      <4>2. f[i] = G(f[i - 1])
        BY <2>1, <3>3, <4>1
      <4>3. g[i] = f[i] /\ g[i - 1] = f[i - 1]
        BY <2>4, <3>3, <4>1
      <4> QED
        BY <3>3, <4>2, <4>3
    <3> QED
      BY <3>1, <3>2, <3>3
  <2>6. Runs(m + 1, g)
    BY <2>4, <2>5
  <2> HIDE DEF Runs
  <2> QED
    BY <2>2, <2>6
<1>5. D = 0 .. MaxLen
  <2>1. D \in SUBSET (0 .. MaxLen)
    OBVIOUS
  <2> HIDE DEF D
  <2> QED
    BY <1>1, <1>3, <1>4, <2>1, Induction
<1>6. \E f : Runs(MaxLen, f)
  <2>1. MaxLen \in D
    <3> HIDE DEF D
    <3> QED
      BY <1>1, <1>5
  <2> HIDE DEF Runs
  <2> QED
    BY <2>1
<1>7. PICK s : s = CHOOSE f : Runs(MaxLen, f)
  OBVIOUS
<1>8. Runs(MaxLen, s)
  <2> HIDE DEF Runs
  <2> QED
    BY <1>6, <1>7, Zenon
<1>9. s[0] = A /\ DOMAIN s = Steps
  BY <1>1, <1>8 DEF Steps
<1>10. ASSUME NEW i \in Steps, i < MaxLen PROVE s[i + 1] = G(s[i])
  <2>1. i + 1 \in 0 .. MaxLen /\ i + 1 # 0 /\ (i + 1) - 1 = i
    BY <1>1, <1>10 DEF Steps
  <2> QED
    BY <1>8, <2>1
<1>11. PrefixWay(n, k, junk) = s[MaxLen]
  BY <1>2, <1>7
<1>12. \A i \in Steps : i < MaxLen => s[i + 1] = G(s[i])
  BY <1>10
<1> QED
  BY <1>9, <1>11, <1>12, Zenon DEF G, A, PrefixRun

(* Where it ends, and that it went on before.                              *)
PrefixEnds(w, n, L, k, junk) ==
  /\ \E S : Chain(w, S, n, L, k, junk)
  /\ PrefixSlot(Last(w), k, junk) = {}
  /\ \A j \in 1 .. Len(w) - 1 : PrefixSlot(w[j], k, junk) # {}

(* It makes a way.                                                         *)
LEMMA PrefixWayOK ==
  ASSUME NEW n, NEW L, Good(n, 0, L), NEW k \in Seq(Byte), NEW junk \in Byte, NEW w, w = PrefixWay(n, k, junk)
  PROVE  PrefixEnds(w, n, L, k, junk)
<1>1. PICK way : PrefixRun(way, n, k, junk)
  BY PrefixWayIs
<1>2. PICK f : f = [i \in Steps |-> PrefixSlot(Last(way[i]), k, junk)]
  OBVIOUS
<1>3. \A i \in Steps : f[i] = PrefixSlot(Last(way[i]), k, junk)
  BY <1>2
<1>4. MaxLen \in Steps
  BY Sizes DEF Steps
<1>5. ASSUME NEW i \in Steps, f[i] # {}
      PROVE  /\ IsInner(Last(way[i]).ref)
             /\ f[i] = FindChild(Last(way[i]).ref, Ahead(Last(way[i]), k, junk))
  <2>1. /\ IsInner(Last(way[i]).ref)
        /\ PrefixSlot(Last(way[i]), k, junk) = FindChild(Last(way[i]).ref, Ahead(Last(way[i]), k, junk))
    BY <1>3, <1>5 DEF PrefixSlot, Ahead
  <2> QED
    BY <1>3, <2>1
<1>6. Walks(way, f, n, k, junk)
  <2>1. \A i \in Steps : i < MaxLen => way[i + 1] = Longer(way[i], f[i])
    BY <1>1, <1>3 DEF PrefixRun
  <2>2. \A i, j \in Steps : way[i] = way[j] => f[i] = f[j]
    BY <1>3
  <2>3. way[0] = <<Top(n)>>
    BY <1>1 DEF PrefixRun
  <2> QED
    BY <1>5, <2>1, <2>2, <2>3, Zenon DEF Walks
<1>7. f[MaxLen] = {} /\ (\E S : Chain(way[MaxLen], S, n, L, k, junk)) /\ Went(way[MaxLen], way, f)
  BY <1>6, Walk
<1>8. w = way[MaxLen]
  BY <1>1 DEF PrefixRun
<1> QED
  BY <1>3, <1>4, <1>7, <1>8, Zenon DEF Went, PrefixEnds

(* A prefix of a key, byte by byte.                                        *)
LEMMA PrefixIs ==
  ASSUME NEW k \in Seq(Byte), NEW l \in Key
  PROVE  IsPrefix(k, l) <=> Common(k, l, Len(k))
<1>1. l \in Seq(Byte) /\ Len(l) \in Nat /\ Len(k) \in Nat
  BY KeyFacts
<1>2. ASSUME IsPrefix(k, l) PROVE Common(k, l, Len(k))
  <2>1. Len(k) <= Len(l) /\ SubSeq(k, 1, Len(k)) = SubSeq(l, 1, Len(k))
    BY <1>2 DEF IsPrefix
  <2>2. PICK y \in Nat : y = Len(k)
    BY <1>1
  <2>3. /\ \A i \in 1 .. y : SubSeq(k, 0 + 1, 0 + y)[i] = k[0 + i]
        /\ \A i \in 1 .. y : SubSeq(l, 0 + 1, 0 + y)[i] = l[0 + i]
    <3>1. 0 + y <= Len(k) /\ 0 + y <= Len(l) /\ 0 \in Nat
      BY <2>1, <2>2
    <3> QED
      BY <1>1, <3>1, Slice
  <2>4. 0 + 1 = 1 /\ 0 + y = y /\ \A i \in 1 .. y : 0 + i = i
    OBVIOUS
  <2>5. \A i \in 1 .. y : k[i] = l[i]
    BY <2>1, <2>2, <2>3, <2>4
  <2> QED
    BY <1>1, <2>1, <2>2, <2>5 DEF Common
<1>3. ASSUME Common(k, l, Len(k)) PROVE IsPrefix(k, l)
  <2>1. Len(k) <= Len(l) /\ \A i \in 1 .. Len(k) : k[i] = l[i]
    BY <1>3 DEF Common
  <2>2. SubSeq(k, 1, Len(k)) = SubSeq(l, 1, Len(k))
    BY <1>1, <2>1, SameStart
  <2> QED
    BY <2>1, <2>2 DEF IsPrefix
<1> QED
  BY <1>2, <1>3

(* What Strays, Overruns and EndsMisread say of one node.                  *)
Ends(x, k) == Misreads(x, k) /\ Len(k) <= x.depth + x.ref.plen
Stray(x, k) ==
  LET l == Minimum(x.ref).key
  IN \E i \in x.depth + 2 .. Min({Len(k), x.depth + x.ref.plen}) :
       k[i] # l[i] /\ SubSeq(k, 1, i - 1) = SubSeq(l, 1, i - 1)
Overrun(x, k) ==
  /\ x.ref.plen > MaxPrefix /\ x.depth + x.ref.plen < Len(k)
  /\ IsPrefix(k, Minimum(x.ref).key)

(* A prefix of a key below does not leave the path.                        *)
LEMMA MatchNoStray ==
  ASSUME NEW x, NEW K, Good(x.ref, x.depth, K), IsInner(x.ref), NEW k \in Seq(Byte),
         NEW l \in K, IsPrefix(k, l.key)
  PROVE  ~Stray(x, k)
<1>1. PICK n, d, a, b, p : n = x.ref /\ d = x.depth /\ a = Minimum(n).key /\ b = l.key /\ p = n.plen
  OBVIOUS
<1>2. /\ d \in Nat /\ p \in Nat /\ a \in Key /\ b \in Key
      /\ \A i \in 1 .. d + p : a[i] = b[i]
  BY <1>1, TreeFacts, MinimumIn DEF Fork
<1>3. Len(k) \in Nat /\ \A i \in 1 .. Len(k) : k[i] = b[i]
  BY <1>1, <1>2, PrefixIs DEF Common
<1>4. Min({Len(k), d + p}) = IF Len(k) <= d + p THEN Len(k) ELSE d + p
  BY <1>2, <1>3, MinTwo
<1>5. \A i \in d + 2 .. Min({Len(k), d + p}) : i \in 1 .. Len(k) /\ i \in 1 .. d + p
  BY <1>2, <1>3, <1>4
<1>6. \A i \in d + 2 .. Min({Len(k), d + p}) : k[i] = a[i]
  BY <1>2, <1>3, <1>5
<1> QED
  BY <1>1, <1>6 DEF Stray

(* A prefix that has the first byte of a path and does not leave it has it *)
(* up to where it ends, or the path does.                                  *)
LEMMA NoStrayAgrees ==
  ASSUME NEW x, NEW k \in Seq(Byte), NEW a \in Key, a = Minimum(x.ref).key, NEW d \in Nat, d = x.depth,
         NEW p \in Nat, p = x.ref.plen, d + p < Len(a), ~Stray(x, k),
         NEW e \in Nat, d < e, e <= d + p, e <= Len(k), Common(k, a, d + 1)
  PROVE  Common(k, a, e)
<1>1. Len(k) \in Nat /\ Len(a) \in Nat /\ a \in Seq(Byte)
  BY KeyFacts
<1>2. \A i \in 1 .. d + 1 : k[i] = a[i]
  BY DEF Common
<1>21. Min({Len(k), d + p}) = IF Len(k) <= d + p THEN Len(k) ELSE d + p
  BY <1>1, MinTwo
<1>22. e <= Len(a)
  BY <1>1
<1> DEFINE T == {j \in 1 .. e : j <= d \/ \A i \in 1 .. j : k[i] = a[i]}
<1>3. 1 \in T
  BY <1>2
<1>4. ASSUME NEW j \in T, j < e PROVE j + 1 \in T
  <2>1. j \in 1 .. e /\ j + 1 \in 1 .. e
    BY <1>4
  <2>2. CASE j <= d
    <3>1. j + 1 <= d \/ \A i \in 1 .. j + 1 : i \in 1 .. d + 1
      BY <2>1, <2>2
    <3> QED
      BY <1>2, <2>1, <3>1
  <2>3. CASE ~(j <= d)
    <3>1. \A i \in 1 .. j : k[i] = a[i]
      BY <1>4, <2>3
    <3>2. j + 1 \in d + 2 .. Min({Len(k), d + p})
      BY <1>1, <1>21, <2>1, <2>3
    <3>3. SubSeq(k, 1, (j + 1) - 1) = SubSeq(a, 1, (j + 1) - 1)
      <4>1. (j + 1) - 1 = j /\ j \in Nat /\ j <= Len(k) /\ j <= Len(a)
        BY <1>1, <1>22, <2>1
      <4>2. SubSeq(k, 1, j) = SubSeq(a, 1, j)
        BY <1>1, <3>1, <4>1, SameStart
      <4> QED
        BY <4>1, <4>2
    <3>4. PICK i : i = j + 1
      OBVIOUS
    <3>5. \A h \in d + 2 .. Min({Len(k), d + p}) :
            ~(k[h] # a[h] /\ SubSeq(k, 1, h - 1) = SubSeq(a, 1, h - 1))
      BY Zenon DEF Stray
    <3>6. k[j + 1] = a[j + 1]
      BY <3>2, <3>3, <3>5
    <3>7. \A h \in 1 .. j + 1 : h \in 1 .. j \/ h = j + 1
      BY <2>1
    <3> QED
      BY <2>1, <3>1, <3>6, <3>7
  <2> QED
    BY <2>2, <2>3
<1>5. T = 1 .. e
  <2>1. T \in SUBSET (1 .. e) /\ 1 <= e
    OBVIOUS
  <2> HIDE DEF T
  <2> QED
    BY <1>3, <1>4, <2>1, ChainInduction
<1>6. \A i \in 1 .. e : k[i] = a[i]
  <2>1. e \in T
    <3> HIDE DEF T
    <3> QED
      BY <1>5
  <2> QED
    BY <2>1
<1>7. e <= Len(a)
  BY <1>1
<1> QED
  BY <1>6, <1>7 DEF Common

(* All keys below match a prefix that ends in the path, misread.           *)
LEMMA EndsMatch ==
  ASSUME NEW x, NEW K, Good(x.ref, x.depth, K), IsInner(x.ref), NEW k \in Seq(Byte),
         \A l \in K : Common(k, l.key, x.depth), Ends(x, k), ~Stray(x, k)
  PROVE  \A l \in K : IsPrefix(k, l.key)
<1>1. PICK n, d, a, p : n = x.ref /\ d = x.depth /\ a = Minimum(n).key /\ p = n.plen
  OBVIOUS
<1>2. /\ d \in Nat /\ p \in Nat /\ a \in Key
      /\ \A l \in K : l.key \in Key /\ d + p < Len(l.key) /\ \A i \in 1 .. d + p : a[i] = l.key[i]
  BY <1>1, SplitsInTree
<1>3. d + p < Len(a) /\ Len(k) \in Nat /\ Len(a) \in Nat /\ a \in Seq(Byte)
  BY <1>1, <1>2, MinimumIn, KeyFacts
<1>4. MaxPrefix \in Nat /\ 0 < MaxPrefix
  BY Sizes, ArtAssumption
<1>5. PICK i \in d + MaxPrefix + 1 .. Min({Len(k), d + p}) : SubSeq(k, 1, i) = SubSeq(a, 1, i)
  BY <1>1 DEF Ends, Misreads
<1>6. i \in Nat /\ d + 1 <= i /\ i <= Len(k) /\ i <= Len(a)
  <2>1. Min({Len(k), d + p}) = IF Len(k) <= d + p THEN Len(k) ELSE d + p
    BY <1>2, <1>3, MinTwo
  <2> QED
    BY <1>2, <1>3, <1>4, <1>5, <2>1
<1>7. Common(k, a, d + 1)
  <2>1. Common(k, a, i)
    BY <1>3, <1>5, <1>6, StartSame
  <2> QED
    BY <1>2, <1>6, <2>1, CommonLess
<1>8. PICK e \in Nat : e = Len(k)
  BY <1>3
<1>9. e <= d + p /\ d < e
  BY <1>1, <1>2, <1>3, <1>6, <1>8 DEF Ends
<1>10. Common(k, a, e)
  <2>1. a = Minimum(x.ref).key /\ d = x.depth /\ p = x.ref.plen /\ e <= Len(k)
    BY <1>1, <1>8
  <2> QED
    BY <1>2, <1>3, <1>7, <1>9, <2>1, NoStrayAgrees
<1> SUFFICES ASSUME NEW l \in K PROVE IsPrefix(k, l.key)
  OBVIOUS
<1>11. PICK b, g : b = l.key /\ g = d + p
  OBVIOUS
<1>12. b \in Key /\ g \in Nat /\ e <= g /\ g <= Len(b) /\ \A j \in 1 .. g : a[j] = b[j]
  <2>1. b \in Key /\ g < Len(b) /\ \A j \in 1 .. g : a[j] = b[j]
    BY <1>2, <1>11
  <2> QED
    BY <1>2, <1>9, <1>11, <2>1, KeyFacts
<1>13. Common(k, b, e)
  BY <1>2, <1>10, <1>12, CommonAlike
<1> QED
  BY <1>8, <1>11, <1>12, <1>13, PrefixIs

(* art_iter_prefix goes on below a node: it is not at the end of the       *)
(* prefix, and prefix_mismatch has not come to it.                         *)
Onward(n, d, k) ==
  /\ d # Len(k)
  /\ n.plen > 0 => PrefixMismatch(n, k, d) # 0 /\ d + PrefixMismatch(n, k, d) # Len(k)

(* If the prefix does not leave the path after its first byte, and does    *)
(* not end in it, misread, then it has all of the path and goes on.        *)
LEMMA OnwardAgrees ==
  ASSUME NEW x, NEW K, Good(x.ref, x.depth, K), IsInner(x.ref), NEW k \in Seq(Byte),
         \A l \in K : Common(k, l.key, x.depth), Onward(x.ref, x.depth, k), ~Stray(x, k), ~Ends(x, k)
  PROVE  /\ x.depth + x.ref.plen < Len(k)
         /\ \A l \in K : Common(k, l.key, x.depth + x.ref.plen)
<1>1. PICK n, d, a, p, m : /\ n = x.ref /\ d = x.depth /\ a = Minimum(n).key /\ p = n.plen
                           /\ m = PrefixMismatch(n, k, d)
  OBVIOUS
<1>2. /\ d \in Nat /\ p \in Nat /\ a \in Key /\ Splits(k, a, d, p, m)
      /\ \A l \in K : l.key \in Key /\ d + p < Len(l.key) /\ \A i \in 1 .. d + p : a[i] = l.key[i]
  BY <1>1, SplitsInTree
<1>3. m \in Nat /\ Common(k, a, d + m) /\ d + m <= Len(k) /\ d + m <= Len(a)
  BY <1>2 DEF Splits, Common
<1>4. Len(k) \in Nat /\ Len(a) \in Nat /\ a \in Seq(Byte)
  BY <1>2, KeyFacts
<1>5. d # Len(k) /\ (p > 0 => m # 0 /\ d + m # Len(k))
  BY <1>1 DEF Onward
<1>6. MaxPrefix \in Nat /\ d + p < Len(a)
  BY <1>1, <1>2, MinimumIn, Sizes
<1>7. PICK e \in Nat : e = d + p
  BY <1>2
<1>8. ASSUME p <= m PROVE e < Len(k) /\ Common(k, a, e)
  <2>1. e < Len(k)
    <3>1. CASE p = 0
      <4>1. d <= Len(k)
        BY <1>2, <1>3, <1>4
      <4> QED
        BY <1>2, <1>4, <1>5, <1>7, <3>1, <4>1
    <3>2. CASE p # 0
      BY <1>2, <1>3, <1>4, <1>5, <1>7, <1>8, <3>2
    <3> QED
      BY <3>1, <3>2
  <2>2. d + m \in Nat /\ e <= d + m
    BY <1>2, <1>3, <1>7, <1>8
  <2>3. Common(k, a, e)
    BY <1>2, <1>3, <2>2, CommonLess
  <2> QED
    BY <2>1, <2>3
<1>9. ASSUME ~(p <= m) PROVE e < Len(k) /\ Common(k, a, e)
  <2>1. m < p /\ m # 0 /\ d + m < Len(k) /\ d + 1 <= d + m /\ d + m \in Nat /\ d + 1 \in Nat
    BY <1>2, <1>3, <1>4, <1>5, <1>9
  <2>2. Common(k, a, d + 1)
    BY <1>2, <1>3, <2>1, CommonLess
  <2>3. a = Minimum(x.ref).key /\ d = x.depth /\ p = x.ref.plen
    BY <1>1
  <2>4. ASSUME NEW g \in Nat, d < g, g <= e, g <= Len(k) PROVE Common(k, a, g)
    BY <1>2, <1>6, <1>7, <2>2, <2>3, <2>4, NoStrayAgrees
  <2>5. e < Len(k)
    <3> SUFFICES ASSUME Len(k) <= d + p PROVE FALSE
      BY <1>4, <1>7
    <3>1. PICK i \in Nat : i = d + m + 1
      BY <1>2, <1>3
    <3>2. i <= Len(k) /\ d < i /\ i <= e /\ i <= Len(a)
      BY <1>2, <1>3, <1>4, <1>6, <1>7, <2>1, <3>1
    <3>3. Common(k, a, i)
      BY <2>4, <3>2
    <3>4. k[i] = a[i] /\ SubSeq(k, 1, i) = SubSeq(a, 1, i)
      <4>1. \A j \in 1 .. i : k[j] = a[j]
        BY <3>3 DEF Common
      <4>2. i \in 1 .. i
        BY <3>1, <3>2, <1>2
      <4> QED
        BY <1>4, <3>2, <4>1, <4>2, SameStart
    <3>5. MaxPrefix <= m /\ Signed(k[i]) < 0
      BY <1>2, <2>1, <3>1, <3>4 DEF Splits
    <3>6. i \in d + MaxPrefix + 1 .. Min({Len(k), d + p})
      <4>1. Min({Len(k), d + p}) = IF Len(k) <= d + p THEN Len(k) ELSE d + p
        BY <1>2, <1>4, MinTwo
      <4> QED
        BY <1>2, <1>3, <1>4, <1>6, <1>7, <3>1, <3>2, <3>5, <4>1
    <3>7. \E j \in d + MaxPrefix + 1 .. Min({Len(k), d + p}) :
            Signed(k[j]) < 0 /\ SubSeq(k, 1, j) = SubSeq(a, 1, j)
      BY <3>4, <3>5, <3>6
    <3>8. Misreads(x, k)
      BY <1>1, <3>7, Zenon DEF Misreads
    <3> QED
      BY <1>1, <3>8 DEF Ends
  <2>6. d < e /\ e <= e /\ e <= Len(k)
    BY <1>2, <1>3, <1>4, <1>7, <2>1, <2>5
  <2>7. Common(k, a, e)
    BY <2>4, <2>6
  <2> QED
    BY <2>5, <2>7
<1>10. e < Len(k) /\ Common(k, a, e)
  BY <1>8, <1>9
<1>11. ASSUME NEW l \in K PROVE Common(k, l.key, e)
  <2>1. PICK b : b = l.key
    OBVIOUS
  <2>2. b \in Key /\ e < Len(b) /\ \A i \in 1 .. e : a[i] = b[i]
    BY <1>2, <1>7, <2>1
  <2>3. e <= e /\ e <= Len(b)
    BY <1>7, <2>2, KeyFacts
  <2>4. Common(k, b, e)
    BY <1>2, <1>10, <2>2, <2>3, CommonAlike
  <2> QED
    BY <2>1, <2>4
<1> QED
  BY <1>1, <1>7, <1>10, <1>11

(* The keys that match the prefix.                                         *)
Matches(L, k) == {l \in L : IsPrefix(k, l.key)}

(* At each place of a way with nodes w, and leaves S below them, the       *)
(* prefix agrees with the keys below, and those that match are below, or   *)
(* it has ended in a path, misread, and all below match.                   *)
Agreed(w, S, L, k, j) ==
  /\ Matches(L, k) \subseteq S[j] /\ \A l \in S[j] : Common(k, l.key, w[j].depth)
Lost(w, S, L, k, j) ==
  S[j] \subseteq Matches(L, k) /\ \E i \in 1 .. Len(w) : IsInner(w[i].ref) /\ Ends(w[i], k)

(* So it is if it leaves no path or there is one that matches.             *)
LEMMA PrefixAgrees ==
  ASSUME NEW n, NEW L, NEW k \in Seq(Byte), NEW junk, NEW w, NEW S, Chain(w, S, n, L, k, junk),
         \A j \in 1 .. Len(w) - 1 : PrefixSlot(w[j], k, junk) # {},
         Matches(L, k) # {} \/ \A j \in 1 .. Len(w) : IsInner(w[j].ref) => ~Stray(w[j], k)
  PROVE  \A j \in 1 .. Len(w) : Agreed(w, S, L, k, j) \/ Lost(w, S, L, k, j)
<1>1. PICK m \in Nat : m = Len(w) /\ 1 <= m
  BY ChainEnd
<1>2. Len(k) \in Nat
  OBVIOUS
<1> DEFINE T == {j \in 1 .. m : S[j] \subseteq L /\ (Agreed(w, S, L, k, j) \/ Lost(w, S, L, k, j))}
<1>3. 1 \in T
  <2>1. w[1].depth = 0 /\ 1 \in 1 .. m /\ Good(w[1].ref, w[1].depth, S[1]) /\ S[1] = L
    BY <1>1 DEF Chain, Top
  <2>2. \A l \in S[1] : l.key \in Key
    BY <2>1, TreeFacts
  <2>3. \A i \in 1 .. 0 : FALSE
    OBVIOUS
  <2>4. \A l \in S[1] : Len(l.key) \in Nat
    BY <2>2, KeyFacts
  <2>5. \A l \in S[1] : Common(k, l.key, 0)
    BY <1>2, <2>3, <2>4 DEF Common
  <2>6. Matches(L, k) \subseteq S[1]
    BY <2>1 DEF Matches
  <2> QED
    BY <2>1, <2>5, <2>6 DEF Agreed
<1>4. ASSUME NEW j \in T, j < m PROVE j + 1 \in T
  <2>1. j \in 1 .. m /\ j + 1 \in 1 .. m /\ j \in 1 .. Len(w) - 1 /\ j \in 1 .. Len(w)
    BY <1>1, <1>4
  <2>2. PICK x, K : x = w[j] /\ K = S[j]
    OBVIOUS
  <2>3. Chained(x, K, w[j + 1], S[j + 1], k, junk) /\ Good(x.ref, x.depth, K)
    BY <2>1, <2>2 DEF Chain
  <2>4. IsInner(x.ref) /\ Onward(x.ref, x.depth, k)
    BY <2>1, <2>2 DEF PrefixSlot, Onward
  <2>5. S[j + 1] \subseteq K /\ K \subseteq L
    BY <1>4, <2>2, <2>3 DEF Chained, Share
  <2>6. CASE Lost(w, S, L, k, j)
    <3>1. Lost(w, S, L, k, j + 1)
      BY <2>2, <2>5, <2>6 DEF Lost
    <3> QED
      BY <2>1, <2>5, <3>1
  <2>7. CASE Agreed(w, S, L, k, j)
    <3>1. Matches(L, k) \subseteq K /\ \A l \in K : Common(k, l.key, x.depth)
      BY <2>2, <2>7 DEF Agreed
    <3>2. ~Stray(x, k)
      <4>1. CASE Matches(L, k) # {}
        <5>1. PICK l \in K : IsPrefix(k, l.key)
          BY <3>1, <4>1 DEF Matches
        <5> QED
          BY <2>3, <2>4, <5>1, MatchNoStray
      <4>2. CASE Matches(L, k) = {}
        BY <2>1, <2>2, <2>4, <4>2
      <4> QED
        BY <4>1, <4>2
    <3>3. CASE Ends(x, k)
      <4>1. \A l \in K : IsPrefix(k, l.key)
        BY <2>3, <2>4, <3>1, <3>2, <3>3, EndsMatch
      <4>2. Lost(w, S, L, k, j + 1)
        BY <2>1, <2>2, <2>4, <2>5, <3>3, <4>1 DEF Lost, Matches
      <4> QED
        BY <2>1, <2>5, <4>2
    <3>4. CASE ~Ends(x, k)
      <4>1. x.depth + x.ref.plen < Len(k) /\ \A l \in K : Common(k, l.key, x.depth + x.ref.plen)
        BY <2>3, <2>4, <3>1, <3>2, <3>4, OnwardAgrees
      <4>2. /\ x.depth + x.ref.plen \in Nat
            /\ \A l \in K : l.key \in Key /\ x.depth + x.ref.plen < Len(l.key)
        BY <2>3, <2>4, TreeFacts DEF Fork
      <4>3. PICK e \in Nat : e = x.depth + x.ref.plen
        BY <4>2
      <4>4. Ahead(x, k, junk) = k[e + 1]
        BY <4>1, <4>3 DEF Ahead, KeyAt
      <4>5. w[j + 1].depth = e + 1 /\ S[j + 1] = Share(K, k[e + 1], e + 1)
        BY <2>3, <4>3, <4>4 DEF Chained
      <4>6. ASSUME NEW l \in S[j + 1] PROVE Common(k, l.key, e + 1)
        <5>1. l \in K /\ l.key[e + 1] = k[e + 1]
          BY <4>5 DEF Share
        <5>2. Common(k, l.key, e) /\ e < Len(k) /\ e < Len(l.key) /\ l.key \in Key
          BY <4>1, <4>2, <4>3, <5>1
        <5>3. Len(l.key) \in Nat
          BY <5>2, KeyFacts
        <5>4. \A i \in 1 .. e + 1 : i \in 1 .. e \/ i = e + 1
          BY <4>3
        <5>5. \A i \in 1 .. e : k[i] = l.key[i]
          BY <5>2 DEF Common
        <5>6. e + 1 <= Len(k) /\ e + 1 <= Len(l.key)
          BY <1>2, <4>3, <5>2, <5>3
        <5> QED
          BY <5>1, <5>4, <5>5, <5>6 DEF Common
      <4>7. ASSUME NEW l \in Matches(L, k) PROVE l \in S[j + 1]
        <5>1. l \in K /\ IsPrefix(k, l.key) /\ l.key \in Key
          BY <3>1, <4>2 DEF Matches
        <5>2. Common(k, l.key, Len(k))
          BY <5>1, PrefixIs
        <5>3. e + 1 \in 1 .. Len(k)
          BY <1>2, <4>1, <4>3
        <5>4. l.key[e + 1] = k[e + 1]
          BY <5>2, <5>3 DEF Common
        <5> QED
          BY <4>5, <5>1, <5>4 DEF Share
      <4> QED
        BY <2>1, <2>5, <4>5, <4>6, <4>7 DEF Agreed
    <3> QED
      BY <3>3, <3>4
  <2> QED
    BY <1>4, <2>6, <2>7
<1>5. T = 1 .. m
  <2>1. T \in SUBSET (1 .. m)
    OBVIOUS
  <2> HIDE DEF T
  <2> QED
    BY <1>1, <1>3, <1>4, <2>1, ChainInduction
<1> QED
  BY <1>1, <1>5

(* recursive_iter visits the leaves of a tree.                             *)
LEMMA IterVisits ==
  ASSUME NEW n, NEW d, NEW K, Good(n, d, K)
  PROVE  ToSet(Iter(n)) = K
<1>1. ASSUME NEW x \in Inner(n, 0) PROVE Sorts(x.ref, Distinct(K))
  <2>1. IsInner(x.ref) /\ \E M : M \subseteq K /\ Good(x.ref, d + x.depth, M)
    BY InnerGood DEF Part
  <2> QED
    BY <2>1, SortsDistinct
<1>2. PICK s : s = Iter(n)
  OBVIOUS
<1>3. Listed(s, K, Distinct(K))
  BY <1>1, <1>2, IterOK
<1>4. DOMAIN s = 1 .. Len(s) /\ (\A j \in 1 .. Len(s) : s[j] \in K) /\ \A l \in K : \E j \in 1 .. Len(s) : s[j] = l
  BY <1>3 DEF Listed
<1> QED
  BY <1>2, <1>4 DEF ToSet

(* What art_iter_prefix visits at the end of its way.                      *)
Given(x, k) ==
  CASE IsLeaf(x.ref) -> IF IsPrefix(k, x.ref.key) THEN <<x.ref>> ELSE <<>>
    [] IsInner(x.ref) /\ x.depth = Len(k) ->
         IF IsPrefix(k, Minimum(x.ref).key) THEN Iter(x.ref) ELSE <<>>
    [] IsInner(x.ref) /\ x.depth # Len(k) /\ x.ref.plen > 0 ->
         LET m == PrefixMismatch(x.ref, k, x.depth)
         IN IF m # 0 /\ x.depth + m = Len(k) THEN Iter(x.ref) ELSE <<>>
    [] OTHER -> <<>>

(* Sequences of none and of one.                                           *)
LEMMA SmallSets == ToSet(<<>>) = {} /\ \A a : ToSet(<<a>>) = {a}
BY DEF ToSet

(* The prefix ends at a leaf.                                              *)
LEMMA GivenLeaf ==
  ASSUME NEW x, NEW K, Good(x.ref, x.depth, K), IsLeaf(x.ref), NEW k \in Seq(Byte)
  PROVE  ToSet(Given(x, k)) = Matches(K, k)
<1>1. K = {x.ref} /\ ~IsInner(x.ref)
  BY TreeFacts DEF Tip
<1>2. Given(x, k) = IF IsPrefix(k, x.ref.key) THEN <<x.ref>> ELSE <<>>
  BY <1>1 DEF Given
<1>3. CASE IsPrefix(k, x.ref.key)
  BY <1>1, <1>2, <1>3, SmallSets DEF Matches
<1>4. CASE ~IsPrefix(k, x.ref.key)
  BY <1>1, <1>2, <1>4, SmallSets DEF Matches
<1> QED
  BY <1>3, <1>4

(* It ends where a node begins: what the node has begun with is in all     *)
(* keys below.                                                             *)
LEMMA GivenHere ==
  ASSUME NEW x, NEW K, Good(x.ref, x.depth, K), IsInner(x.ref), NEW k \in Seq(Byte),
         \A l \in K : Common(k, l.key, x.depth), x.depth = Len(k)
  PROVE  ToSet(Given(x, k)) = Matches(K, k)
<1>1. ~IsLeaf(x.ref)
  BY TreeFacts
<1>2. PICK o : o = Minimum(x.ref)
  OBVIOUS
<1>3. o \in K /\ \A l \in K : l.key \in Key
  BY <1>2, TreeFacts, MinimumIn
<1>4. \A l \in K : IsPrefix(k, l.key)
  BY <1>3, PrefixIs
<1>5. Given(x, k) = Iter(x.ref)
  BY <1>1, <1>2, <1>3, <1>4 DEF Given
<1>6. Matches(K, k) = K
  BY <1>4 DEF Matches
<1> QED
  BY <1>5, <1>6, IterVisits

(* It ends in the path of a node, or somewhere after a long one.           *)
LEMMA GivenPath ==
  ASSUME NEW x, NEW K, Good(x.ref, x.depth, K), IsInner(x.ref), NEW k \in Seq(Byte),
         \A l \in K : Common(k, l.key, x.depth), x.depth # Len(k), x.ref.plen > 0,
         NEW m, m = PrefixMismatch(x.ref, k, x.depth), m # 0, x.depth + m = Len(k)
  PROVE  /\ Matches(K, k) \subseteq ToSet(Given(x, k))
         /\ ToSet(Given(x, k)) = Matches(K, k) \/ Overrun(x, k)
<1>1. ~IsLeaf(x.ref)
  BY TreeFacts
<1>2. PICK n, d, a, p : n = x.ref /\ d = x.depth /\ a = Minimum(n).key /\ p = n.plen
  OBVIOUS
<1>3. /\ d \in Nat /\ p \in Nat /\ a \in Key /\ Splits(k, a, d, p, m)
      /\ \A l \in K : l.key \in Key /\ d + p < Len(l.key) /\ \A i \in 1 .. d + p : a[i] = l.key[i]
  BY <1>2, SplitsInTree
<1>4. m \in Nat /\ Common(k, a, d + m) /\ (p < m => MaxPrefix < p) /\ d + m = Len(k)
  BY <1>2, <1>3 DEF Splits
<1>5. Given(x, k) = Iter(x.ref)
  BY <1>1 DEF Given
<1>6. ToSet(Given(x, k)) = K
  BY <1>5, IterVisits
<1>7. Matches(K, k) \subseteq K
  BY DEF Matches
<1>8. CASE m <= p
  <2>1. ASSUME NEW l \in K PROVE IsPrefix(k, l.key)
    <3>1. PICK b : b = l.key
      OBVIOUS
    <3>2. PICK e, g : e = d + m /\ g = d + p
      OBVIOUS
    <3>3. b \in Key /\ g < Len(b) /\ (\A i \in 1 .. g : a[i] = b[i]) /\ e \in Nat /\ g \in Nat /\ e <= g
      BY <1>3, <1>4, <1>8, <3>1, <3>2
    <3>4. g <= Len(b)
      BY <3>3, KeyFacts
    <3>5. Common(k, b, e)
      BY <1>3, <1>4, <3>2, <3>3, <3>4, CommonAlike
    <3> QED
      BY <1>4, <3>1, <3>2, <3>3, <3>5, PrefixIs
  <2>2. Matches(K, k) = K
    BY <2>1 DEF Matches
  <2> QED
    BY <1>6, <2>2
<1>9. CASE ~(m <= p)
  <2>1. p < m /\ d + p < Len(k)
    BY <1>3, <1>4, <1>9
  <2>2. MaxPrefix < p
    BY <1>4, <2>1
  <2>3. IsPrefix(k, a)
    BY <1>3, <1>4, PrefixIs
  <2>4. p > MaxPrefix
    BY <1>3, <2>2, Sizes
  <2>5. Overrun(x, k)
    BY <1>2, <2>1, <2>3, <2>4 DEF Overrun
  <2> QED
    BY <1>6, <1>7, <2>5
<1> QED
  BY <1>8, <1>9

(* It does not end here, and no child goes on with it.                     *)
LEMMA GivenNone ==
  ASSUME NEW x, NEW K, Good(x.ref, x.depth, K), IsInner(x.ref), NEW k \in Seq(Byte), NEW junk \in Byte,
         \A l \in K : Common(k, l.key, x.depth), x.depth # Len(k), PrefixSlot(x, k, junk) = {},
         x.ref.plen > 0 => ~(PrefixMismatch(x.ref, k, x.depth) # 0
                             /\ x.depth + PrefixMismatch(x.ref, k, x.depth) = Len(k))
  PROVE  ToSet(Given(x, k)) = {} /\ (Matches(K, k) = {} \/ Ends(x, k))
<1>1. ~IsLeaf(x.ref)
  BY TreeFacts
<1>2. PICK n, d, a, p, m : /\ n = x.ref /\ d = x.depth /\ a = Minimum(n).key /\ p = n.plen
                           /\ m = PrefixMismatch(n, k, d)
  OBVIOUS
<1>3. /\ d \in Nat /\ p \in Nat /\ a \in Key /\ Splits(k, a, d, p, m)
      /\ \A l \in K : l.key \in Key /\ d + p < Len(l.key) /\ \A i \in 1 .. d + p : a[i] = l.key[i]
  BY <1>2, SplitsInTree
<1>4. Given(x, k) = <<>>
  BY <1>1 DEF Given
<1> SUFFICES ASSUME NEW l \in Matches(K, k), ~Ends(x, k) PROVE FALSE
  BY <1>4, SmallSets
<1>5. PICK b : b = l.key
  OBVIOUS
<1>6. l \in K /\ IsPrefix(k, b)
  BY <1>5 DEF Matches
<1>7. b \in Key /\ d + p < Len(b) /\ \A i \in 1 .. d + p : a[i] = b[i]
  BY <1>3, <1>5, <1>6
<1>8. Len(k) \in Nat /\ Common(k, b, d) /\ Common(k, b, Len(k)) /\ Len(b) \in Nat
  BY <1>2, <1>5, <1>6, <1>7, PrefixIs, KeyFacts
<1>9. d < Len(k)
  BY <1>2, <1>3, <1>8 DEF Common
<1>10. ~Stray(x, k)
  BY <1>5, <1>6, MatchNoStray
<1>11. Onward(n, d, k)
  <2> SUFFICES ASSUME p > 0, m = 0 PROVE FALSE
    BY <1>2 DEF Onward
  <2>1. d + 1 \in 1 .. d + p /\ d + 1 \in 1 .. Len(k) /\ m < p /\ d + m < Len(k) /\ d + m + 1 = d + 1
    BY <1>3, <1>8, <1>9
  <2>2. k[d + 1] # a[d + 1]
    <3>1. ~(MaxPrefix <= m)
      BY Sizes, ArtAssumption
    <3> QED
      BY <1>3, <2>1, <3>1 DEF Splits
  <2>3. k[d + 1] = b[d + 1]
    BY <1>8, <2>1 DEF Common
  <2> QED
    BY <1>7, <2>1, <2>2, <2>3
<1>12. d + p < Len(k)
  BY <1>2, <1>10, <1>11, OnwardAgrees
<1>13. PICK e \in Nat : e = d + p
  BY <1>3
<1>14. KeyAt(k, e, junk) = k[e + 1] /\ KeyAt(k, e, junk) \in Byte
  BY <1>12, <1>13, KeyAtByte DEF KeyAt
<1>15. FindChild(n, KeyAt(k, e, junk)) = {}
  BY <1>2, <1>11, <1>13 DEF PrefixSlot, Onward
<1>16. k[e + 1] = b[e + 1]
  <2>1. e + 1 \in 1 .. Len(k)
    BY <1>8, <1>12, <1>13
  <2> QED
    BY <1>8, <2>1 DEF Common
<1>17. l \in Share(K, k[e + 1], e + 1)
  BY <1>5, <1>6, <1>16 DEF Share
<1>18. FindChild(n, k[e + 1]) # {}
  BY <1>2, <1>13, <1>14, <1>17, ChildOf
<1> QED
  BY <1>14, <1>15, <1>18

(* What art_iter_prefix visits, at the end of a way along which the prefix *)
(* agrees.                                                                 *)
LEMMA GivenOK ==
  ASSUME NEW x, NEW K, Good(x.ref, x.depth, K), NEW k \in Seq(Byte), NEW junk \in Byte,
         \A l \in K : Common(k, l.key, x.depth), PrefixSlot(x, k, junk) = {}
  PROVE  /\ Matches(K, k) \subseteq ToSet(Given(x, k)) \/ (IsInner(x.ref) /\ Ends(x, k))
         /\ ToSet(Given(x, k)) \subseteq Matches(K, k) \/ (IsInner(x.ref) /\ Overrun(x, k))
<1>1. CASE IsLeaf(x.ref)
  BY <1>1, GivenLeaf
<1>2. CASE IsInner(x.ref) /\ x.depth = Len(k)
  BY <1>2, GivenHere
<1>3. CASE IsInner(x.ref) /\ x.depth # Len(k)
  <2>1. PICK m : m = PrefixMismatch(x.ref, k, x.depth)
    OBVIOUS
  <2>2. CASE x.ref.plen > 0 /\ m # 0 /\ x.depth + m = Len(k)
    BY <1>3, <2>1, <2>2, GivenPath
  <2>3. CASE ~(x.ref.plen > 0 /\ m # 0 /\ x.depth + m = Len(k))
    BY <1>3, <2>1, <2>3, GivenNone
  <2> QED
    BY <2>2, <2>3
<1> QED
  BY <1>1, <1>2, <1>3, TreeFacts

(* Whatever it visits there is below.                                      *)
LEMMA GivenBelow ==
  ASSUME NEW x, NEW K, Good(x.ref, x.depth, K), NEW k
  PROVE  ToSet(Given(x, k)) \subseteq K
<1>1. CASE IsLeaf(x.ref)
  <2>1. K = {x.ref} /\ ~IsInner(x.ref)
    BY <1>1, TreeFacts DEF Tip
  <2>2. Given(x, k) = <<x.ref>> \/ Given(x, k) = <<>>
    BY <1>1, <2>1 DEF Given
  <2> QED
    BY <2>1, <2>2, SmallSets
<1>2. CASE IsInner(x.ref)
  <2>1. ~IsLeaf(x.ref)
    BY <1>2, TreeFacts
  <2>2. Given(x, k) = Iter(x.ref) \/ Given(x, k) = <<>>
    BY <1>2, <2>1, Zenon DEF Given
  <2> QED
    BY <2>2, IterVisits, SmallSets
<1> QED
  BY <1>1, <1>2, TreeFacts

(* It visits what matches, unless the prefix ends in a path, misread, and  *)
(* nothing else, unless it overruns or leaves a path.                      *)
LEMMA IterPrefixOK ==
  ASSUME NEW n, NEW L, Good(n, 0, L), NEW k \in Seq(Byte), NEW junk \in Byte,
         NEW G, G = ToSet(IterPrefix(n, k, junk))
  PROVE  /\ Matches(L, k) \subseteq G \/ \E x \in Inner(n, 0) : Ends(x, k)
         /\ G \subseteq Matches(L, k) \/ \E x \in Inner(n, 0) : Overrun(x, k) \/ Stray(x, k)
<1>1. PICK w : w = PrefixWay(n, k, junk)
  OBVIOUS
<1>2. PrefixEnds(w, n, L, k, junk)
  BY <1>1, PrefixWayOK
<1>3. PICK S : Chain(w, S, n, L, k, junk)
  BY <1>2 DEF PrefixEnds
<1>4. PrefixSlot(Last(w), k, junk) = {} /\ \A j \in 1 .. Len(w) - 1 : PrefixSlot(w[j], k, junk) # {}
  BY <1>2 DEF PrefixEnds
<1>5. PICK x, K, z : x = Last(w) /\ K = S[Len(w)] /\ z = Len(w)
  OBVIOUS
<1>6. z \in Nat /\ z \in 1 .. Len(w) /\ x = w[z] /\ Good(x.ref, x.depth, K)
  BY <1>3, <1>5, ChainEnd
<1>7. G = ToSet(Given(x, k))
  BY <1>1, <1>5 DEF IterPrefix, Given
<1>8. CASE Matches(L, k) # {} \/ \A j \in 1 .. Len(w) : IsInner(w[j].ref) => ~Stray(w[j], k)
  <2>1. Agreed(w, S, L, k, z) \/ Lost(w, S, L, k, z)
    BY <1>3, <1>4, <1>6, <1>8, PrefixAgrees
  <2>2. K \subseteq L
    BY <1>3, <1>5, <1>6, LeafStays
  <2>3. ASSUME NEW j \in 1 .. Len(w), IsInner(w[j].ref)
        PROVE  \E y \in Inner(n, 0) : y.ref = w[j].ref /\ y.depth = w[j].depth
    BY <1>3, <2>3, WayInner
  <2>4. ASSUME NEW j \in 1 .. Len(w), IsInner(w[j].ref), Ends(w[j], k) PROVE \E y \in Inner(n, 0) : Ends(y, k)
    <3>1. PICK u : u = w[j]
      OBVIOUS
    <3>2. PICK y \in Inner(n, 0) : y.ref = u.ref /\ y.depth = u.depth
      BY <2>3, <2>4, <3>1
    <3>3. Ends(u, k)
      BY <2>4, <3>1
    <3>4. Ends(y, k)
      BY <3>2, <3>3, Zenon DEF Ends, Misreads
    <3> QED
      BY <3>4
  <2>5. CASE Lost(w, S, L, k, z)
    <3>1. K \subseteq Matches(L, k)
      BY <1>5, <2>5 DEF Lost
    <3>2. G \subseteq K
      BY <1>6, <1>7, GivenBelow
    <3>3. \E y \in Inner(n, 0) : Ends(y, k)
      BY <2>4, <2>5 DEF Lost
    <3> QED
      BY <3>1, <3>2, <3>3
  <2>6. CASE Agreed(w, S, L, k, z)
    <3>1. Matches(L, k) \subseteq K /\ \A l \in K : Common(k, l.key, x.depth)
      BY <1>5, <1>6, <2>6 DEF Agreed
    <3>2. Matches(K, k) = Matches(L, k)
      BY <2>2, <3>1 DEF Matches
    <3>3. /\ Matches(K, k) \subseteq G \/ (IsInner(x.ref) /\ Ends(x, k))
          /\ G \subseteq Matches(K, k) \/ (IsInner(x.ref) /\ Overrun(x, k))
      BY <1>4, <1>5, <1>6, <1>7, <3>1, GivenOK
    <3>4. IsInner(x.ref) /\ Overrun(x, k) => \E y \in Inner(n, 0) : Overrun(y, k)
      <4> SUFFICES ASSUME IsInner(x.ref), Overrun(x, k) PROVE \E y \in Inner(n, 0) : Overrun(y, k)
        OBVIOUS
      <4>1. PICK y \in Inner(n, 0) : y.ref = x.ref /\ y.depth = x.depth
        BY <1>6, <2>3
      <4>2. Overrun(y, k)
        BY <4>1 DEF Overrun
      <4> QED
        BY <4>2
    <3>5. IsInner(x.ref) /\ Ends(x, k) => \E y \in Inner(n, 0) : Ends(y, k)
      BY <1>6, <2>4
    <3> QED
      BY <3>2, <3>3, <3>4, <3>5
  <2> QED
    BY <2>1, <2>5, <2>6
<1>9. CASE ~(Matches(L, k) # {} \/ \A j \in 1 .. Len(w) : IsInner(w[j].ref) => ~Stray(w[j], k))
  <2>1. PICK j \in 1 .. Len(w) : IsInner(w[j].ref) /\ Stray(w[j], k)
    BY <1>9
  <2>2. PICK u : u = w[j]
    OBVIOUS
  <2>3. PICK y \in Inner(n, 0) : y.ref = u.ref /\ y.depth = u.depth
    BY <1>3, <2>1, <2>2, WayInner
  <2>4. Stray(u, k)
    BY <2>1, <2>2
  <2>5. Stray(y, k)
    BY <2>3, <2>4, Zenon DEF Stray
  <2> QED
    BY <1>9, <2>5
<1> QED
  BY <1>8, <1>9

(* art_iter_prefix of an empty tree visits nothing.                        *)
LEMMA IterPrefixNil ==
  ASSUME NEW k, NEW junk
  PROVE  ToSet(IterPrefix(Nil, k, junk)) = {}
<1>1. PICK f : PrefixRun(f, Nil, k, junk)
  BY PrefixWayIs
<1>2. PICK a : a = <<Top(Nil)>>
  OBVIOUS
<1>3. PrefixSlot(Top(Nil), k, junk) = {}
  BY NilTop DEF PrefixSlot
<1>4. Longer(a, PrefixSlot(Last(a), k, junk)) = a
  BY <1>2, <1>3, NilTop
<1>5. \A i \in Steps : i < MaxLen /\ f[i] = a => f[i + 1] = a
  BY <1>1, <1>4 DEF PrefixRun
<1>6. f[0] = a /\ PrefixWay(Nil, k, junk) = f[MaxLen]
  BY <1>1, <1>2 DEF PrefixRun
<1>7. PrefixWay(Nil, k, junk) = a
  BY <1>5, <1>6, StaysSo
<1>8. Last(a).ref = Nil
  BY <1>2, NilTop
<1>9. PICK x : x = Last(a)
  OBVIOUS
<1>10. ~IsLeaf(x.ref) /\ ~IsInner(x.ref)
  BY <1>8, <1>9, NilTop
<1>11. IterPrefix(Nil, k, junk) = <<>>
  BY <1>7, <1>9, <1>10, Zenon DEF IterPrefix
<1> QED
  BY <1>11, SmallSets

(* The invariant gives what IterPrefixExact says.                          *)
LEMMA InvIterPrefixExact == ASSUME ArtInv PROVE IterPrefixExact
<1> SUFFICES ASSUME NEW k \in Key \cup Query, NEW junk \in Junk
             PROVE  /\ Matching(k) \subseteq Visited(k, junk) \/ EndsMisread(k)
                    /\ Visited(k, junk) \subseteq Matching(k) \/ Overruns(k) \/ Strays(k)
  BY DEF IterPrefixExact
<1>1. k \in Seq(Byte) /\ junk \in Byte
  BY Queries
<1>2. PICK L, G : L = LeavesOf(map) /\ G = ToSet(IterPrefix(root, k, junk))
  OBVIOUS
<1>3. Represents(root, map)
  BY DEF ArtInv
<1>4. Visited(k, junk) = {l.key : l \in G}
  BY <1>2 DEF Visited
<1>5. Matching(k) = {l.key : l \in Matches(L, k)}
  <2>1. ASSUME NEW l \in Matches(L, k) PROVE l.key \in Matching(k)
    BY <1>2, LeavesOfIs DEF Matches, Matching, Bound
  <2>2. ASSUME NEW a \in Matching(k) PROVE \E l \in Matches(L, k) : l.key = a
    <3>1. a \in Key /\ map[a] # NULL /\ IsPrefix(k, a)
      BY DEF Matching, Bound
    <3>2. PICK l : l = Leaf(a, map[a])
      OBVIOUS
    <3>3. l \in L /\ l.key = a
      BY <1>2, <3>1, <3>2, LeavesOfIs
    <3>4. l \in Matches(L, k)
      BY <3>1, <3>3 DEF Matches
    <3> QED
      BY <3>3, <3>4
  <2> QED
    BY <2>1, <2>2
<1>6. CASE root = Nil /\ L = {}
  <2>1. G = {} /\ Matches(L, k) = {}
    BY <1>2, <1>6, IterPrefixNil DEF Matches
  <2> QED
    BY <1>4, <1>5, <2>1
<1>7. CASE Good(root, 0, L)
  <2>1. /\ Matches(L, k) \subseteq G \/ \E x \in Inner(root, 0) : Ends(x, k)
        /\ G \subseteq Matches(L, k) \/ \E x \in Inner(root, 0) : Overrun(x, k) \/ Stray(x, k)
    BY <1>1, <1>2, <1>7, IterPrefixOK
  <2>2. Matches(L, k) \subseteq G => Matching(k) \subseteq Visited(k, junk)
    BY <1>4, <1>5
  <2>3. G \subseteq Matches(L, k) => Visited(k, junk) \subseteq Matching(k)
    BY <1>4, <1>5
  <2>4. ASSUME NEW x \in Inner(root, 0), Overrun(x, k) PROVE Overruns(k)
    BY <2>4 DEF Overrun, Overruns
  <2>5. ASSUME NEW x \in Inner(root, 0), Stray(x, k) PROVE Strays(k)
    BY <2>5, Zenon DEF Stray, Strays
  <2>6. ASSUME NEW x \in Inner(root, 0), Ends(x, k) PROVE EndsMisread(k)
    BY <2>6 DEF Ends, EndsMisread
  <2> QED
    BY <2>1, <2>2, <2>3, <2>4, <2>5, <2>6
<1> QED
  BY <1>2, <1>3, <1>6, <1>7 DEF Represents

(* IterPrefixExact: art_iter_prefix visits every key that matches the      *)
(* prefix, unless this ends in a path where a byte above 127 of it is      *)
(* misread, and only those, unless the prefix goes on after a path longer  *)
(* than MAX_PREFIX_LEN or leaves a path after its first byte: for every    *)
(* sizes of nodes, prefixes, sets of keys and sequences of calls that do   *)
(* not tear the tree.                                                      *)
THEOREM IterPrefixAlwaysExact == Spec => []IterPrefixExact
<1>1. Init => torn \/ ArtInv
  BY InitStands
<1>2. (torn \/ ArtInv) /\ [Next]_vars => (torn \/ ArtInv)'
  BY StepSound
<1>3. torn \/ ArtInv => IterPrefixExact
  BY InvIterPrefixExact DEF IterPrefixExact
<1> QED
  BY <1>1, <1>2, <1>3, PTL DEF Spec
=============================================================================
