---------------------------- MODULE CritbitProofs ----------------------------
(***************************************************************************)
(* Proofs about Critbit, for any threads, keys and memory.  They start     *)
(* with what trees and the walks over them are.  The next part needs no    *)
(* hypothesis: the types and the grace period of the two locks.            *)
(* Then comes the inductive invariant of the tree when one thread          *)
(* deletes, and what follows from it: the tree holds the map in every      *)
(* state, every allocated block is accounted for, and a reader that took   *)
(* the current read lock walks on allocated memory and answers correctly.  *)
(* The last is the refinement: the tree implements the map of helper.h     *)
(* when one thread deletes, memory lasts and every critbit_get takes the   *)
(* current read lock.                                                      *)
(***************************************************************************)
EXTENDS Critbit, CritbitMap, Iteration, TLAPS

-----------------------------------------------------------------------------
(* The shape of a crit-bit tree: what the paths of its keys have in common *)
(* with its nodes, and that the store of critbit_insert and the one of     *)
(* critbit_delete keep it.  A tree is given by its head h, the contents nd *)
(* of the nodes, the set B of its keys and the blocks pa[k] on the path of *)
(* each key k, so that the lemmas speak of the trees before and after.     *)
(* The last part says what the walks over such a tree find: Walk and Reach *)
(* are recursive functions, and the lemmas about them are proved by        *)
(* induction over the number of edges.                                     *)

(* Where the walk for key k goes from node n. *)
Toward(nd, n, k) == nd[n].child[Bit[k][nd[n].pos]]

(* Paths start at the head and consist of blocks; other keys have none. *)
Rooted(h, pa, B) ==
  /\ \A k \in Key \ B : pa[k] = {}
  /\ \A k \in B : h \in pa[k] /\ pa[k] \subseteq Block
(* A path goes on from each of its nodes ... *)
Closed(nd, pa, B) ==
  \A k \in B : \A n \in pa[k] \cap Node : Toward(nd, n, k) \in pa[k]
(* ... and gets to each of its blocks. *)
Reached(h, nd, pa, B) ==
  \A k \in B : \A b \in pa[k] :
    b = h \/ \E n \in pa[k] \cap Node : b = Toward(nd, n, k)
(* The head tests the first position of a path. *)
HeadFirst(h, nd, pa, B) ==
  \A k \in B : \A n \in pa[k] \cap Node : h \in Node /\ nd[h].pos <= nd[n].pos
(* The positions ascend along a path, and no node of it is left out. *)
Ascending(nd, pa, B) ==
  \A k \in B : \A n \in pa[k] \cap Node :
    Toward(nd, n, k) \in Node => nd[n].pos < nd[Toward(nd, n, k)].pos
NextIsNext(nd, pa, B) ==
  \A k \in B : \A m, n \in pa[k] \cap Node :
    nd[m].pos < nd[n].pos =>
      Toward(nd, m, k) \in Node /\ nd[Toward(nd, m, k)].pos <= nd[n].pos
Distinct(nd, pa, B) ==
  \A k \in B : \A m, n \in pa[k] \cap Node : nd[m].pos = nd[n].pos => m = n
(* Paths that meet in a node have come the same way. *)
Shared(nd, pa, B) ==
  \A j, k \in B : \A b \in pa[j] \cap pa[k] \cap Node, n \in pa[k] \cap Node :
    nd[n].pos < nd[b].pos => n \in pa[j]
(* The keys below a node agree on all earlier positions, and there are     *)
(* keys on both sides of it.                                               *)
Agree(nd, pa, B) ==
  \A j, k \in B : \A n \in pa[j] \cap pa[k] \cap Node, i \in Pos :
    i < nd[n].pos => Bit[j][i] = Bit[k][i]
BothSides(nd, pa, B) ==
  \A j \in B : \A n \in pa[j] \cap Node, d \in Dirs :
    \E k \in B : n \in pa[k] /\ Bit[k][nd[n].pos] = d
(* A path ends in a string of its own. *)
OneString(pa, B) == \A k \in B : \E s \in Str : pa[k] \cap Str = {s}
OwnString(pa, B) == \A j, k \in B : pa[j] \cap pa[k] \cap Str # {} => j = k

Shape(h, nd, pa, B) ==
  /\ B \subseteq Key
  /\ nd \in [Node -> NodeRec]
  /\ Rooted(h, pa, B) /\ Closed(nd, pa, B) /\ Reached(h, nd, pa, B)
  /\ HeadFirst(h, nd, pa, B) /\ Ascending(nd, pa, B) /\ NextIsNext(nd, pa, B)
  /\ Distinct(nd, pa, B) /\ Shared(nd, pa, B)
  /\ Agree(nd, pa, B) /\ BothSides(nd, pa, B)
  /\ OneString(pa, B) /\ OwnString(pa, B)
  /\ B = {} => h = NULL

-----------------------------------------------------------------------------
(* Positions are numbers, and bits are directions.                         *)
LEMMA ShapeTypes ==
  ASSUME NEW nd \in [Node -> NodeRec], NEW n \in Node, NEW k \in Key
  PROVE  /\ nd[n].pos \in Pos /\ nd[n].pos \in Int /\ 0 <= nd[n].pos /\ nd[n].pos < NBits
         /\ Bit[k][nd[n].pos] \in Dirs
BY KeyAssumption DEF NodeRec, Pos

(* A child of a node of the tree is on the path of a key only if the node  *)
(* is, and the path goes to that side.                                     *)
LEMMA ChildOnPath ==
  ASSUME NEW h, NEW nd, NEW pa, NEW B, Shape(h, nd, pa, B),
         NEW j \in B, NEW n \in pa[j] \cap Node, NEW d \in Dirs,
         NEW k \in B, nd[n].child[d] \in pa[k]
  PROVE  n \in pa[k] /\ Bit[k][nd[n].pos] = d
<1> DEFINE b == nd[n].child[d]
<1>1. PICK l \in B : n \in pa[l] /\ Bit[l][nd[n].pos] = d
  BY DEF Shape, BothSides
<1>2. b = Toward(nd, n, l) /\ b \in pa[l] /\ b \in pa[k] /\ b \in Block
  BY <1>1 DEF Shape, Closed, Toward, Rooted
<1>3. CASE b \in Str
  BY <1>1, <1>2, <1>3 DEF Shape, OwnString
<1>4. CASE b \in Node
  <2>1. nd[n].pos < nd[b].pos
    BY <1>1, <1>2, <1>4 DEF Shape, Ascending
  <2>2. n \in pa[k]
    BY <1>1, <1>2, <1>4, <2>1 DEF Shape, Shared
  <2>3. nd[n].pos \in Pos
    BY ShapeTypes, <1>1 DEF Shape
  <2>4. Bit[k][nd[n].pos] = Bit[l][nd[n].pos]
    BY <1>1, <1>2, <1>4, <2>1, <2>3 DEF Shape, Agree
  <2> QED
    BY <1>1, <2>2, <2>4
<1> QED
  BY <1>2, <1>3, <1>4 DEF Block

(* The same, for the side to which the path of a key j goes.               *)
LEMMA TowardOnPath ==
  ASSUME NEW h, NEW nd, NEW pa, NEW B, Shape(h, nd, pa, B),
         NEW j \in B, NEW n \in pa[j] \cap Node, NEW k \in B, Toward(nd, n, j) \in pa[k]
  PROVE  n \in pa[k] /\ Bit[k][nd[n].pos] = Bit[j][nd[n].pos]
<1> DEFINE d == Bit[j][nd[n].pos]
<1>1. d \in Dirs
  BY ShapeTypes DEF Shape
<1>2. nd[n].child[d] \in pa[k]
  BY DEF Toward
<1> HIDE DEF d
<1>3. n \in pa[k] /\ Bit[k][nd[n].pos] = d
  BY <1>1, <1>2, ChildOnPath
<1> QED
  BY <1>3 DEF d

(***************************************************************************)
(* The store of critbit_insert: node m, which tests position i, takes the  *)
(* place of block q, the one below node x (NULL: the head); q and the new  *)
(* string s are its children.  j is the key whose path leads there.        *)
(***************************************************************************)
Insertion(h, nd, pa, B, h2, nd2, pa2, B2, j, k, m, s, i, x, q) ==
  /\ j \in B /\ k \in Key \ B /\ m \in Node /\ s \in Str /\ i \in Pos
  /\ FirstDiff(j, k, i)
  /\ \A n \in pa[j] \cap Node : Bit[j][nd[n].pos] = Bit[k][nd[n].pos]
  /\ \A l \in B : m \notin pa[l] /\ s \notin pa[l]
  /\ \/ x = NULL /\ q = h
     \/ x \in pa[j] \cap Node /\ nd[x].pos < i /\ q = Toward(nd, x, j)
  /\ ~(q \in Node /\ nd[q].pos <= i)
  /\ nd2 \in [Node -> NodeRec]
  /\ nd2[m].pos = i /\ nd2[m].child[Bit[k][i]] = s /\ nd2[m].child[Bit[j][i]] = q
  /\ \A n \in Node \ {m} :
       /\ nd2[n].pos = nd[n].pos
       /\ \A d \in Dirs :
            nd2[n].child[d] = IF n = x /\ d = Bit[j][nd[x].pos] THEN m ELSE nd[n].child[d]
  /\ h2 = IF x = NULL THEN m ELSE h
  /\ B2 = B \cup {k}
  /\ pa2 = [l \in Key |->
              IF l = k THEN {n \in pa[j] \cap Node : nd[n].pos < i} \cup {m, s}
              ELSE IF q \in pa[l] THEN pa[l] \cup {m} ELSE pa[l]]

(* Where the paths go from the old nodes, from the new one, and what       *)
(* they have in common with the path of j.                                 *)
LEMMA InsertionFacts ==
  ASSUME NEW h, NEW nd, NEW pa, NEW B, Shape(h, nd, pa, B),
         NEW h2, NEW nd2, NEW pa2, NEW B2, NEW j, NEW k, NEW m, NEW s, NEW i, NEW x, NEW q,
         Insertion(h, nd, pa, B, h2, nd2, pa2, B2, j, k, m, s, i, x, q)
  PROVE  /\ q \in pa[j] /\ q # m /\ q # s /\ q \in Block
         /\ \A l \in B : q \in pa[l] => \A g \in Pos : g <= i => Bit[l][g] = Bit[j][g]
         /\ \A l \in B : q \in pa[l] /\ x # NULL =>
              x \in pa[l] /\ Bit[l][nd[x].pos] = Bit[j][nd[x].pos]
         /\ \A l \in B : q \in pa[l] => \A n \in pa[l] \cap Node :
              nd[n].pos < i \/ (q \in Node /\ nd[q].pos <= nd[n].pos)
         /\ \A n \in pa[j] \cap Node : nd[n].pos < i =>
              /\ x # NULL
              /\ n # x => Toward(nd, n, j) \in Node /\ nd[Toward(nd, n, j)].pos < i
<1> USE DEF Insertion
<1>0. /\ \A n \in Node : nd[n].pos \in Pos /\ nd[n].pos \in Int
      /\ i \in Int
  BY ShapeTypes DEF Shape, NodeRec, Pos
<1>1. q \in pa[j] /\ q # m /\ q # s /\ q \in Block
  BY DEF Shape, Rooted, Closed
<1>2. ASSUME NEW l \in B, q \in pa[l], NEW g \in Pos, g <= i PROVE Bit[l][g] = Bit[j][g]
  <2>1. CASE q \in Str
    BY <1>1, <1>2, <2>1 DEF Shape, OwnString
  <2>2. CASE q \in Node
    <3>1. g < nd[q].pos
      BY <1>0, <1>2, <2>2 DEF Pos
    <3> QED
      BY <1>1, <1>2, <2>2, <3>1 DEF Shape, Agree
  <2> QED
    BY <1>1, <2>1, <2>2 DEF Block
<1>3. ASSUME NEW l \in B, q \in pa[l], x # NULL
      PROVE  x \in pa[l] /\ Bit[l][nd[x].pos] = Bit[j][nd[x].pos]
  <2>1. j \in B /\ x \in pa[j] \cap Node /\ Toward(nd, x, j) \in pa[l]
    BY <1>3
  <2> HIDE DEF Insertion
  <2> QED
    BY <2>1, TowardOnPath
<1>4. ASSUME NEW l \in B, q \in pa[l], NEW n \in pa[l] \cap Node, ~(nd[n].pos < i)
      PROVE  q \in Node /\ nd[q].pos <= nd[n].pos
  <2>1. CASE x = NULL
    BY <1>4, <2>1, AddressAssumption DEF Shape, HeadFirst
  <2>2. CASE x # NULL
    <3>1. x \in pa[l] \cap Node /\ Toward(nd, x, l) = q /\ nd[x].pos < i
      BY <1>3, <1>4, <2>2 DEF Toward
    <3>2. nd[x].pos < nd[n].pos
      BY <1>0, <1>4, <3>1
    <3> QED
      BY <1>4, <3>1, <3>2 DEF Shape, NextIsNext
  <2> QED
    BY <2>1, <2>2
<1>5. ASSUME NEW n \in pa[j] \cap Node, nd[n].pos < i
      PROVE  /\ x # NULL
             /\ n # x => Toward(nd, n, j) \in Node /\ nd[Toward(nd, n, j)].pos < i
  <2>1. x # NULL
    <3> SUFFICES ASSUME x = NULL PROVE FALSE
      OBVIOUS
    <3>1. q \in Node /\ nd[q].pos <= nd[n].pos
      BY AddressAssumption DEF Shape, HeadFirst
    <3> QED
      BY <1>0, <1>5, <3>1
  <2>2. x \in pa[j] \cap Node /\ nd[x].pos < i /\ q = Toward(nd, x, j)
    BY <2>1
  <2>3. ASSUME n # x PROVE Toward(nd, n, j) \in Node /\ nd[Toward(nd, n, j)].pos < i
    <3>1. nd[n].pos # nd[x].pos
      BY <2>2, <2>3 DEF Shape, Distinct
    <3>2. CASE nd[n].pos < nd[x].pos
      <4>1. Toward(nd, n, j) \in Node /\ nd[Toward(nd, n, j)].pos <= nd[x].pos
        BY <2>2, <3>2 DEF Shape, NextIsNext
      <4> QED
        BY <1>0, <2>2, <4>1
    <3>3. CASE nd[x].pos < nd[n].pos
      <4>1. q \in Node /\ nd[q].pos <= nd[n].pos
        BY <2>2, <3>3 DEF Shape, NextIsNext
      <4> QED
        BY <1>0, <1>5, <4>1
    <3> QED
      BY <1>0, <2>2, <3>1, <3>2, <3>3
  <2> QED
    BY <2>1, <2>3
<1> QED
  BY <1>1, <1>2, <1>3, <1>4, <1>5

(* Linking a new node keeps the shape of the tree.                         *)
LEMMA InsertionShape ==
  ASSUME NEW h, NEW nd, NEW pa, NEW B, Shape(h, nd, pa, B),
         NEW h2, NEW nd2, NEW pa2, NEW B2, NEW j, NEW k, NEW m, NEW s, NEW i, NEW x, NEW q,
         Insertion(h, nd, pa, B, h2, nd2, pa2, B2, j, k, m, s, i, x, q)
  PROVE  Shape(h2, nd2, pa2, B2)
<1> DEFINE Low == {n \in pa[j] \cap Node : nd[n].pos < i}
           Turns(l, n) == n = x /\ Bit[l][nd[x].pos] = Bit[j][nd[x].pos]
<1>0. /\ B \subseteq Key /\ j \in B /\ k \in Key /\ k \notin B /\ B2 = B \cup {k}
      /\ m \in Node /\ s \in Str /\ m # s /\ i \in Pos /\ i \in Int
      /\ h2 = IF x = NULL THEN m ELSE h
      /\ \A l \in B : m \notin pa[l] /\ s \notin pa[l] /\ pa[l] \subseteq Block
      /\ \A l \in B : l \in Key
      /\ Block = Node \cup Str /\ Node \cap Str = {} /\ NULL \notin Block
      /\ FirstDiff(j, k, i) /\ Bit[k][i] # Bit[j][i]
  BY AddressAssumption DEF Insertion, Shape, Rooted, Block, FirstDiff, Pos
<1>1. /\ \A n \in Node : nd[n].pos \in Pos /\ nd[n].pos \in Int
      /\ \A n \in Node : nd2[n].pos = IF n = m THEN i ELSE nd[n].pos
  BY <1>0, ShapeTypes DEF Shape, Insertion
<1>2. /\ q \in pa[j] /\ q # m /\ q # s /\ q \in Block /\ ~(q \in Node /\ nd[q].pos <= i)
      /\ x = NULL => q = h
      /\ x # NULL => x \in pa[j] /\ x \in Node /\ nd[x].pos < i /\ q = Toward(nd, x, j)
  <2>1. q \in pa[j] /\ q # m /\ q # s /\ q \in Block
    BY InsertionFacts
  <2> QED
    BY <2>1, AddressAssumption DEF Insertion
<1>3. \A l \in B : q \in pa[l] => \A g \in Pos : g <= i => Bit[l][g] = Bit[j][g]
  BY InsertionFacts
<1>4. \A l \in B : q \in pa[l] /\ x # NULL => x \in pa[l] /\ Turns(l, x)
  BY InsertionFacts
<1>5. \A l \in B : q \in pa[l] => \A n \in pa[l] \cap Node :
        nd[n].pos < i \/ (q \in Node /\ nd[q].pos <= nd[n].pos)
  BY InsertionFacts
<1>6. \A n \in Low : /\ x # NULL
                     /\ n # x => Toward(nd, n, j) \in Low
  <2> SUFFICES ASSUME NEW n \in Low
               PROVE  x # NULL /\ (n # x => Toward(nd, n, j) \in Low)
    OBVIOUS
  <2>1. /\ x # NULL
        /\ n # x => Toward(nd, n, j) \in Node /\ nd[Toward(nd, n, j)].pos < i
    BY InsertionFacts
  <2>2. Toward(nd, n, j) \in pa[j]
    BY <1>0 DEF Shape, Closed
  <2> QED
    BY <2>1, <2>2
<1>7. /\ \A l \in B : pa2[l] = IF q \in pa[l] THEN pa[l] \cup {m} ELSE pa[l]
      /\ pa2[k] = Low \cup {m, s}
  BY <1>0 DEF Insertion
<1>13. \A l \in B : /\ pa[l] \subseteq pa2[l] /\ pa2[l] \subseteq pa[l] \cup {m}
                    /\ m \in pa2[l] <=> q \in pa[l]
  BY <1>0, <1>7
<1>8. \A l \in B : \A n \in pa[l] \cap Node :
        Toward(nd2, n, l) = IF Turns(l, n) THEN m ELSE Toward(nd, n, l)
  <2> SUFFICES ASSUME NEW l \in B, NEW n \in pa[l] \cap Node
               PROVE  Toward(nd2, n, l) = IF Turns(l, n) THEN m ELSE Toward(nd, n, l)
    OBVIOUS
  <2>1. n # m /\ n \in Node /\ nd2[n].pos = nd[n].pos
    BY <1>0, <1>1
  <2>2. Bit[l][nd[n].pos] \in Dirs
    BY <1>0, <2>1, ShapeTypes DEF Shape
  <2>3. \A d \in Dirs :
          nd2[n].child[d] = IF n = x /\ d = Bit[j][nd[x].pos] THEN m ELSE nd[n].child[d]
    BY <2>1 DEF Insertion
  <2> QED
    BY <2>1, <2>2, <2>3 DEF Toward
<1>9. /\ \A l \in B : q \in pa[l] => Toward(nd2, m, l) = q
      /\ Toward(nd2, m, k) = s
  BY <1>0, <1>1, <1>3 DEF Insertion, Toward
<1>10. \A n \in Low : Toward(nd2, n, k) = IF n = x THEN m ELSE Toward(nd, n, j)
  <2> SUFFICES ASSUME NEW n \in Low
               PROVE  Toward(nd2, n, k) = IF n = x THEN m ELSE Toward(nd, n, j)
    OBVIOUS
  <2>1. Bit[k][nd[n].pos] = Bit[j][nd[n].pos] /\ n \in Node /\ n # m
    BY <1>0 DEF Insertion
  <2>2. Toward(nd2, n, k) = Toward(nd2, n, j)
    BY <1>1, <2>1 DEF Toward
  <2> QED
    BY <1>0, <1>8, <2>2
<1>11. \A l \in B : \A n \in pa[l] \cap Node : Turns(l, n) => q = Toward(nd, n, l) /\ q \in pa[l]
  <2> SUFFICES ASSUME NEW l \in B, NEW n \in pa[l] \cap Node, Turns(l, n)
               PROVE  q = Toward(nd, n, l) /\ q \in pa[l]
    OBVIOUS
  <2>1. x # NULL
    BY <1>0
  <2>2. q = Toward(nd, n, l)
    BY <1>2, <2>1 DEF Toward
  <2> QED
    BY <2>2 DEF Shape, Closed
<1>12. \A l \in B : q \in pa[l] =>
         /\ \A n \in pa[l] \cap Node : nd[n].pos < i => n \in Low
         /\ \A n \in Low : n \in pa[l]
  <2> SUFFICES ASSUME NEW l \in B, q \in pa[l]
               PROVE  /\ \A n \in pa[l] \cap Node : nd[n].pos < i => n \in Low
                      /\ \A n \in Low : n \in pa[l]
    OBVIOUS
  <2>1. CASE q \in Str
    <3>1. l = j
      BY <1>0, <1>2, <2>1 DEF Shape, OwnString
    <3> QED
      BY <3>1
  <2>2. CASE q \in Node
    <3>1. \A n \in Node : nd[n].pos < i => nd[n].pos < nd[q].pos
      BY <1>0, <1>1, <1>2, <2>2
    <3> QED
      BY <1>0, <1>2, <2>2, <3>1 DEF Shape, Shared
  <2> QED
    BY <1>0, <1>2, <2>1, <2>2
<1> HIDE DEF Turns
<1>20. Rooted(h2, pa2, B2)
  <2>1. \A l \in Key \ B2 : pa2[l] = {}
    BY <1>0 DEF Insertion, Shape, Rooted
  <2>2. \A l \in B : h2 \in pa2[l] /\ pa2[l] \subseteq Block
    <3> SUFFICES ASSUME NEW l \in B PROVE h2 \in pa2[l] /\ pa2[l] \subseteq Block
      OBVIOUS
    <3>1. h \in pa[l] /\ pa[l] \subseteq Block
      BY DEF Shape, Rooted
    <3> QED
      BY <1>0, <1>2, <1>13, <3>1
  <2>3. h2 \in pa2[k]
    <3>1. CASE x = NULL
      BY <1>0, <1>7, <3>1
    <3>2. CASE x # NULL
      <4>1. x \in Low
        BY <1>2, <3>2
      <4>2. h \in Node /\ nd[h].pos <= nd[x].pos /\ h \in pa[j]
        BY <1>0, <1>2, <3>2 DEF Shape, HeadFirst, Rooted
      <4> QED
        BY <1>0, <1>1, <1>2, <1>7, <3>2, <4>1, <4>2
    <3> QED
      BY <3>1, <3>2
  <2>4. pa2[k] \subseteq Block
    BY <1>0, <1>7
  <2> QED
    BY <1>0, <2>1, <2>2, <2>3, <2>4 DEF Rooted
<1>21. Closed(nd2, pa2, B2)
  <2>1. ASSUME NEW l \in B, NEW n \in pa2[l] \cap Node PROVE Toward(nd2, n, l) \in pa2[l]
    <3>1. CASE n = m
      BY <1>9, <1>13, <2>1, <3>1
    <3>2. CASE n \in pa[l] /\ Turns(l, n)
      BY <1>7, <1>8, <1>11, <2>1, <3>2
    <3>3. CASE n \in pa[l] /\ ~Turns(l, n)
      <4>1. Toward(nd, n, l) \in pa[l]
        BY <2>1, <3>3 DEF Shape, Closed
      <4> QED
        BY <1>7, <1>8, <2>1, <3>3, <4>1
    <3> QED
      BY <1>7, <2>1, <3>1, <3>2, <3>3
  <2>2. ASSUME NEW n \in pa2[k] \cap Node PROVE Toward(nd2, n, k) \in pa2[k]
    BY <1>0, <1>6, <1>7, <1>9, <1>10, <2>2
  <2> QED
    BY <1>0, <2>1, <2>2 DEF Closed
<1>22. Reached(h2, nd2, pa2, B2)
  <2>1. ASSUME NEW l \in B, NEW b \in pa2[l], b # h2
        PROVE  \E n \in pa2[l] \cap Node : b = Toward(nd2, n, l)
    <3>1. CASE b = m
      <4>1. q \in pa[l] /\ x # NULL
        BY <1>0, <1>7, <2>1, <3>1
      <4> QED
        BY <1>2, <1>4, <1>7, <1>8, <3>1, <4>1
    <3>2. CASE b = q /\ b # m
      BY <1>0, <1>7, <1>9, <2>1, <3>2
    <3>3. CASE b # q /\ b # m
      <4>1. b \in pa[l] /\ b # h
        BY <1>0, <1>2, <1>7, <2>1, <3>3
      <4>2. PICK n \in pa[l] \cap Node : b = Toward(nd, n, l)
        BY <4>1 DEF Shape, Reached
      <4> QED
        BY <1>7, <1>8, <1>11, <3>3, <4>2
    <3> QED
      BY <3>1, <3>2, <3>3
  <2>2. ASSUME NEW b \in pa2[k], b # h2
        PROVE  \E n \in pa2[k] \cap Node : b = Toward(nd2, n, k)
    <3>1. CASE b = s
      BY <1>0, <1>7, <1>9, <3>1
    <3>2. CASE b = m
      <4>1. x # NULL /\ x \in Low
        BY <1>0, <1>2, <2>2, <3>2
      <4> QED
        BY <1>7, <1>10, <3>2, <4>1
    <3>3. CASE b \in Low
      <4>1. b # h /\ b \in pa[j] /\ x # NULL
        BY <1>0, <1>6, <2>2, <3>3
      <4>2. PICK n \in pa[j] \cap Node : b = Toward(nd, n, j)
        BY <1>0, <4>1 DEF Shape, Reached
      <4>3. nd[n].pos < nd[b].pos
        BY <1>0, <3>3, <4>2 DEF Shape, Ascending
      <4>4. n \in Low
        BY <1>0, <1>1, <3>3, <4>2, <4>3
      <4>5. n # x
        BY <1>0, <1>1, <1>2, <3>3, <4>1, <4>2
      <4> QED
        BY <1>7, <1>10, <4>2, <4>4, <4>5
    <3> QED
      BY <1>7, <2>2, <3>1, <3>2, <3>3
  <2> QED
    BY <1>0, <2>1, <2>2 DEF Reached
<1>23. HeadFirst(h2, nd2, pa2, B2)
  <2>1. CASE x = NULL
    <3>1. Low = {}
      BY <1>6, <2>1
    <3>2. \A l \in B : \A n \in pa[l] \cap Node : i < nd[n].pos
      <4> SUFFICES ASSUME NEW l \in B, NEW n \in pa[l] \cap Node PROVE i < nd[n].pos
        OBVIOUS
      <4>1. q \in Node /\ nd[q].pos <= nd[n].pos
        BY <1>2, <2>1 DEF Shape, HeadFirst
      <4> QED
        BY <1>0, <1>1, <1>2, <4>1
    <3>3. h2 = m /\ nd2[m].pos = i
      BY <1>0, <1>1, <2>1
    <3> QED
      <4>1. ASSUME NEW l \in B, NEW n \in pa2[l] \cap Node PROVE nd2[h2].pos <= nd2[n].pos
        BY <1>0, <1>1, <1>13, <3>1, <3>2, <3>3, <4>1
      <4>2. ASSUME NEW n \in pa2[k] \cap Node PROVE nd2[h2].pos <= nd2[n].pos
        BY <1>0, <1>1, <1>7, <3>1, <3>2, <3>3, <4>2
      <4> QED
        BY <1>0, <3>1, <3>3, <4>1, <4>2 DEF HeadFirst
  <2>2. CASE x # NULL
    <3>1. h2 = h /\ h \in Node /\ h # m /\ nd[h].pos <= nd[x].pos
      BY <1>0, <1>2, <2>2 DEF Shape, HeadFirst, Rooted
    <3>2. \A l \in B : \A n \in pa[l] \cap Node : nd[h].pos <= nd[n].pos
      BY DEF Shape, HeadFirst
    <3>3. nd[h].pos < i /\ nd2[h].pos = nd[h].pos
      BY <1>0, <1>1, <1>2, <2>2, <3>1
    <3> QED
      <4>1. ASSUME NEW l \in B, NEW n \in pa2[l] \cap Node PROVE nd2[h2].pos <= nd2[n].pos
        BY <1>0, <1>1, <1>13, <3>1, <3>2, <3>3, <4>1
      <4>2. ASSUME NEW n \in pa2[k] \cap Node PROVE nd2[h2].pos <= nd2[n].pos
        BY <1>0, <1>1, <1>7, <3>1, <3>2, <3>3, <4>2
      <4> QED
        BY <1>0, <3>1, <3>3, <4>1, <4>2 DEF HeadFirst
  <2> QED
    BY <2>1, <2>2
<1>24. Ascending(nd2, pa2, B2)
  <2>1. ASSUME NEW l \in B, NEW n \in pa2[l] \cap Node, Toward(nd2, n, l) \in Node
        PROVE  nd2[n].pos < nd2[Toward(nd2, n, l)].pos
    <3>1. CASE n = m
      BY <1>0, <1>1, <1>2, <1>9, <1>13, <2>1, <3>1
    <3>2. CASE n \in pa[l] /\ Turns(l, n)
      <4>1. n = x /\ x # NULL
        BY <1>0, <2>1, <3>2 DEF Turns
      <4> QED
        BY <1>0, <1>1, <1>2, <1>8, <2>1, <3>2, <4>1
    <3>3. CASE n \in pa[l] /\ ~Turns(l, n)
      <4>1. Toward(nd2, n, l) = Toward(nd, n, l) /\ Toward(nd, n, l) \in pa[l]
        BY <1>8, <2>1, <3>3 DEF Shape, Closed
      <4>2. nd[n].pos < nd[Toward(nd, n, l)].pos
        BY <2>1, <3>3, <4>1 DEF Shape, Ascending
      <4> QED
        BY <1>0, <1>1, <2>1, <3>3, <4>1, <4>2
    <3> QED
      BY <1>7, <2>1, <3>1, <3>2, <3>3
  <2>2. ASSUME NEW n \in pa2[k] \cap Node, Toward(nd2, n, k) \in Node
        PROVE  nd2[n].pos < nd2[Toward(nd2, n, k)].pos
    <3>1. CASE n = m
      BY <1>0, <1>9, <2>2, <3>1
    <3>2. CASE n \in Low /\ n = x
      BY <1>0, <1>1, <1>10, <3>2
    <3>3. CASE n \in Low /\ n # x
      <4>1. Toward(nd2, n, k) = Toward(nd, n, j) /\ Toward(nd, n, j) \in Low
        BY <1>6, <1>10, <3>3
      <4>2. nd[n].pos < nd[Toward(nd, n, j)].pos
        BY <1>0, <3>3, <4>1 DEF Shape, Ascending
      <4> QED
        BY <1>0, <1>1, <3>3, <4>1, <4>2
    <3> QED
      BY <1>0, <1>7, <2>2, <3>1, <3>2, <3>3
  <2> QED
    BY <1>0, <2>1, <2>2 DEF Ascending
<1>25. NextIsNext(nd2, pa2, B2)
  <2>1. ASSUME NEW l \in B, NEW a \in pa2[l] \cap Node, NEW c \in pa2[l] \cap Node,
               nd2[a].pos < nd2[c].pos
        PROVE  Toward(nd2, a, l) \in Node /\ nd2[Toward(nd2, a, l)].pos <= nd2[c].pos
    <3>1. CASE a = m
      <4>0. c # m
        BY <1>0, <1>1, <2>1, <3>1
      <4>1. c \in pa[l] /\ c # m /\ q \in pa[l] /\ Toward(nd2, a, l) = q
        BY <1>9, <1>13, <2>1, <3>1, <4>0
      <4>2. q \in Node /\ nd[q].pos <= nd[c].pos
        BY <1>0, <1>1, <1>5, <2>1, <3>1, <4>1
      <4> QED
        BY <1>0, <1>1, <1>2, <2>1, <4>1, <4>2
    <3>2. CASE a \in pa[l] /\ Turns(l, a)
      <4>1. Toward(nd2, a, l) = m /\ q \in pa[l] /\ q = Toward(nd, a, l)
        BY <1>8, <1>11, <2>1, <3>2
      <4>2. CASE c = m
        BY <1>0, <1>1, <4>1, <4>2
      <4>3. CASE c \in pa[l]
        <5>1. q \in Node /\ nd[q].pos <= nd[c].pos
          BY <1>0, <1>1, <2>1, <3>2, <4>1, <4>3 DEF Shape, NextIsNext
        <5> QED
          BY <1>0, <1>1, <1>2, <2>1, <4>1, <4>3, <5>1
      <4> QED
        BY <1>13, <2>1, <4>2, <4>3
    <3>3. CASE a \in pa[l] /\ ~Turns(l, a)
      <4>1. Toward(nd2, a, l) = Toward(nd, a, l) /\ Toward(nd, a, l) \in pa[l] /\ a # m
        BY <1>0, <1>8, <2>1, <3>3 DEF Shape, Closed
      <4>2. CASE c \in pa[l]
        <5>1. Toward(nd, a, l) \in Node /\ nd[Toward(nd, a, l)].pos <= nd[c].pos
          BY <1>0, <1>1, <2>1, <3>3, <4>2 DEF Shape, NextIsNext
        <5> QED
          BY <1>0, <1>1, <2>1, <4>1, <4>2, <5>1
      <4>3. CASE c = m
        <5>1. q \in pa[l] /\ nd[a].pos < i /\ a \in Low
          BY <1>0, <1>1, <1>12, <1>13, <2>1, <3>3, <4>3
        <5>2. a # x
          BY <1>0, <1>2, <1>4, <3>3, <5>1
        <5>3. Toward(nd, a, j) \in Low
          BY <1>6, <5>1, <5>2
        <5>4. Toward(nd, a, l) = Toward(nd, a, j)
          BY <1>0, <1>1, <1>3, <2>1, <5>1 DEF Toward
        <5> QED
          BY <1>0, <1>1, <4>1, <4>3, <5>3, <5>4
      <4> QED
        BY <1>13, <2>1, <4>2, <4>3
    <3> QED
      BY <1>13, <2>1, <3>1, <3>2, <3>3
  <2>2. ASSUME NEW a \in pa2[k] \cap Node, NEW c \in pa2[k] \cap Node, nd2[a].pos < nd2[c].pos
        PROVE  Toward(nd2, a, k) \in Node /\ nd2[Toward(nd2, a, k)].pos <= nd2[c].pos
    <3>1. a \in Low /\ a # m
      BY <1>0, <1>1, <1>7, <2>2
    <3>2. CASE c = m
      BY <1>0, <1>1, <1>6, <1>10, <3>1, <3>2
    <3>3. CASE c \in Low
      <4>1. Toward(nd, a, j) \in Node /\ nd[Toward(nd, a, j)].pos <= nd[c].pos
        BY <1>0, <1>1, <2>2, <3>1, <3>3 DEF Shape, NextIsNext
      <4>2. a # x
        BY <1>0, <1>1, <1>2, <3>1, <3>3, <4>1
      <4>3. Toward(nd2, a, k) = Toward(nd, a, j) /\ Toward(nd, a, j) \in Low
        BY <1>6, <1>10, <3>1, <4>2
      <4> QED
        BY <1>0, <1>1, <3>3, <4>1, <4>3
    <3> QED
      BY <1>0, <1>7, <2>2, <3>2, <3>3
  <2> QED
    BY <1>0, <2>1, <2>2 DEF NextIsNext
<1>26. Distinct(nd2, pa2, B2)
  <2>1. ASSUME NEW l \in B, NEW n \in pa2[l] \cap Node, n # m PROVE nd[n].pos # i \/ q \notin pa[l]
    BY <1>0, <1>1, <1>2, <1>5, <1>13, <2>1
  <2>2. ASSUME NEW l \in B, NEW a \in pa2[l] \cap Node, NEW c \in pa2[l] \cap Node,
               nd2[a].pos = nd2[c].pos
        PROVE  a = c
    <3>1. CASE a = m \/ c = m
      BY <1>0, <1>1, <1>13, <2>1, <2>2, <3>1
    <3>2. CASE a # m /\ c # m
      BY <1>1, <1>13, <2>2, <3>2 DEF Shape, Distinct
    <3> QED
      BY <3>1, <3>2
  <2>3. ASSUME NEW a \in pa2[k] \cap Node, NEW c \in pa2[k] \cap Node, nd2[a].pos = nd2[c].pos
        PROVE  a = c
    <3>1. CASE a = m \/ c = m
      BY <1>0, <1>1, <1>7, <2>3, <3>1
    <3>2. CASE a # m /\ c # m
      <4>1. a \in Low /\ c \in Low /\ nd[a].pos = nd[c].pos
        BY <1>0, <1>1, <1>7, <2>3, <3>2
      <4> QED
        BY <1>0, <4>1 DEF Shape, Distinct
    <3> QED
      BY <3>1, <3>2
  <2> QED
    BY <1>0, <2>2, <2>3 DEF Distinct
<1>27. Shared(nd2, pa2, B2)
  <2>1. ASSUME NEW g \in B, NEW l \in B, NEW b \in pa2[g] \cap pa2[l] \cap Node,
               NEW n \in pa2[l] \cap Node, nd2[n].pos < nd2[b].pos
        PROVE  n \in pa2[g]
    <3>1. CASE b = m
      <4>1. n \in pa[l] /\ n # m /\ q \in pa[g] /\ q \in pa[l]
        BY <1>0, <1>1, <1>13, <2>1, <3>1
      <4> QED
        BY <1>0, <1>1, <1>12, <1>13, <2>1, <3>1, <4>1
    <3>2. CASE b # m /\ n = m
      <4>1. b \in pa[g] /\ b \in pa[l] /\ q \in pa[l]
        BY <1>13, <2>1, <3>2
      <4>2. q \in Node /\ nd[q].pos <= nd[b].pos
        BY <1>0, <1>1, <1>5, <2>1, <3>2, <4>1
      <4>3. CASE q = b
        BY <1>13, <3>2, <4>1, <4>3
      <4>4. CASE nd[q].pos < nd[b].pos
        <5>1. q \in pa[g]
          BY <2>1, <4>1, <4>2, <4>4 DEF Shape, Shared
        <5> QED
          BY <1>13, <3>2, <5>1
      <4> QED
        BY <1>0, <1>1, <2>1, <4>1, <4>2, <4>3, <4>4 DEF Shape, Distinct
    <3>3. CASE b # m /\ n # m
      <4>1. b \in pa[g] /\ b \in pa[l] /\ n \in pa[l] /\ nd[n].pos < nd[b].pos
        BY <1>1, <1>13, <2>1, <3>3
      <4>2. n \in pa[g]
        BY <2>1, <4>1 DEF Shape, Shared
      <4> QED
        BY <1>13, <4>2
    <3> QED
      BY <3>1, <3>2, <3>3
  <2>2. ASSUME NEW l \in B, NEW b \in pa2[k] \cap pa2[l] \cap Node,
               NEW n \in pa2[l] \cap Node, nd2[n].pos < nd2[b].pos
        PROVE  n \in pa2[k]
    <3>1. CASE b = m
      <4>1. n \in pa[l] /\ n # m /\ q \in pa[l] /\ nd[n].pos < i
        BY <1>0, <1>1, <1>13, <2>2, <3>1
      <4> QED
        BY <1>7, <1>12, <2>2, <4>1
    <3>2. CASE b # m
      <4>1. b \in Low /\ b \in pa[l] /\ b \in pa[j]
        BY <1>0, <1>7, <1>13, <2>2, <3>2
      <4>2. n # m /\ n \in pa[l] /\ nd[n].pos < nd[b].pos
        BY <1>0, <1>1, <1>13, <2>2, <3>2, <4>1
      <4>3. n \in pa[j]
        BY <1>0, <2>2, <4>1, <4>2 DEF Shape, Shared
      <4> QED
        BY <1>0, <1>1, <1>7, <2>2, <4>1, <4>2, <4>3
    <3> QED
      BY <3>1, <3>2
  <2>3. ASSUME NEW g \in B, NEW b \in pa2[g] \cap pa2[k] \cap Node,
               NEW n \in pa2[k] \cap Node, nd2[n].pos < nd2[b].pos
        PROVE  n \in pa2[g]
    <3>1. n \in Low /\ n # m
      BY <1>0, <1>1, <1>7, <2>3
    <3>2. CASE b = m
      BY <1>12, <1>13, <2>3, <3>1, <3>2
    <3>3. CASE b # m
      <4>1. b \in Low /\ b \in pa[g] /\ b \in pa[j] /\ nd[n].pos < nd[b].pos
        BY <1>0, <1>1, <1>7, <1>13, <2>3, <3>1, <3>3
      <4>2. n \in pa[g]
        BY <1>0, <2>3, <3>1, <4>1 DEF Shape, Shared
      <4> QED
        BY <1>13, <4>2
    <3> QED
      BY <3>2, <3>3
  <2> QED
    BY <1>0, <2>1, <2>2, <2>3 DEF Shared
<1>28. Agree(nd2, pa2, B2)
  <2>1. ASSUME NEW g \in B, NEW l \in B, NEW n \in pa2[g] \cap pa2[l] \cap Node,
               NEW e \in Pos, e < nd2[n].pos
        PROVE  Bit[g][e] = Bit[l][e]
    <3>1. CASE n = m
      <4>1. q \in pa[g] /\ q \in pa[l] /\ e <= i
        BY <1>0, <1>1, <1>13, <2>1, <3>1 DEF Pos
      <4> QED
        BY <1>3, <2>1, <4>1
    <3>2. CASE n # m
      <4>1. n \in pa[g] /\ n \in pa[l] /\ e < nd[n].pos
        BY <1>1, <1>13, <2>1, <3>2
      <4> QED
        BY <2>1, <4>1 DEF Shape, Agree
    <3> QED
      BY <3>1, <3>2
  <2>2. ASSUME NEW l \in B, NEW n \in pa2[k] \cap pa2[l] \cap Node,
               NEW e \in Pos, e < nd2[n].pos
        PROVE  Bit[k][e] = Bit[l][e]
    <3>1. e < i /\ e <= i
      BY <1>0, <1>1, <1>7, <2>2 DEF Pos
    <3>2. Bit[k][e] = Bit[j][e]
      BY <1>0, <2>2, <3>1 DEF FirstDiff
    <3>3. CASE n = m
      BY <1>3, <1>13, <2>2, <3>1, <3>2, <3>3
    <3>4. CASE n # m
      <4>1. n \in pa[j] /\ n \in pa[l] /\ e < nd[n].pos
        BY <1>0, <1>1, <1>7, <1>13, <2>2, <3>4
      <4>2. Bit[j][e] = Bit[l][e]
        BY <1>0, <2>2, <4>1 DEF Shape, Agree
      <4> QED
        BY <3>2, <4>2
    <3> QED
      BY <3>3, <3>4
  <2>3. ASSUME NEW l \in B, NEW n \in pa2[l] \cap pa2[k] \cap Node,
               NEW e \in Pos, e < nd2[n].pos
        PROVE  Bit[l][e] = Bit[k][e]
    BY <2>2, <2>3
  <2> QED
    BY <1>0, <2>1, <2>2, <2>3 DEF Agree
<1>29. BothSides(nd2, pa2, B2)
  <2>1. ASSUME NEW l \in B, NEW n \in pa[l] \cap Node, NEW d \in Dirs
        PROVE  \E g \in B2 : n \in pa2[g] /\ Bit[g][nd2[n].pos] = d
    <3>1. PICK g \in B : n \in pa[g] /\ Bit[g][nd[n].pos] = d
      BY <2>1 DEF Shape, BothSides
    <3> QED
      BY <1>0, <1>1, <1>13, <2>1, <3>1
  <2>2. ASSUME NEW d \in Dirs PROVE \E g \in B2 : m \in pa2[g] /\ Bit[g][nd2[m].pos] = d
    <3>1. Bit[k][i] \in Dirs /\ Bit[j][i] \in Dirs
      BY <1>0, KeyAssumption
    <3>2. d = Bit[k][i] \/ d = Bit[j][i]
      BY <1>0, <2>2, <3>1 DEF Dirs
    <3>3. m \in pa2[k] /\ m \in pa2[j] /\ k \in B2 /\ j \in B2 /\ nd2[m].pos = i
      BY <1>0, <1>1, <1>2, <1>7, <1>13
    <3> QED
      BY <3>2, <3>3
  <2>3. ASSUME NEW l \in B, NEW n \in pa2[l] \cap Node PROVE n = m \/ n \in pa[l]
    BY <1>13, <2>3
  <2>4. ASSUME NEW n \in pa2[k] \cap Node PROVE n = m \/ n \in pa[j]
    BY <1>0, <1>7, <2>4
  <2> QED
    BY <1>0, <2>1, <2>2, <2>3, <2>4 DEF BothSides
<1>30. \A l \in B : pa2[l] \cap Str = pa[l] \cap Str
  BY <1>0, <1>13
<1>31. pa2[k] \cap Str = {s}
  BY <1>0, <1>7
<1>32. OneString(pa2, B2)
  <2>1. \A l \in B : \E b \in Str : pa[l] \cap Str = {b}
    BY DEF Shape, OneString
  <2> QED
    BY <1>0, <1>30, <1>31, <2>1 DEF OneString
<1>33. OwnString(pa2, B2)
  <2>1. \A g, l \in B : pa[g] \cap pa[l] \cap Str # {} => g = l
    BY DEF Shape, OwnString
  <2>2. \A l \in B : s \notin pa[l]
    BY <1>0
  <2> SUFFICES ASSUME NEW g \in B2, NEW l \in B2, NEW b \in Str, b \in pa2[g], b \in pa2[l]
               PROVE  g = l
    BY DEF OwnString
  <2>3. \A e \in B : b \in pa2[e] => b \in pa[e]
    BY <1>30
  <2>4. b \in pa2[k] => b = s
    BY <1>31
  <2> QED
    BY <1>0, <2>1, <2>2, <2>3, <2>4
<1> QED
  BY <1>0, <1>20, <1>21, <1>22, <1>23, <1>24, <1>25, <1>26, <1>27, <1>28, <1>29, <1>32, <1>33
     DEF Shape, Insertion

(***************************************************************************)
(* The store of critbit_delete: the sibling b of the string of key k takes *)
(* the place of their parent node q below node x (NULL: the head).         *)
(***************************************************************************)
Deletion(h, nd, pa, B, h2, nd2, pa2, B2, k, x, q, b) ==
  /\ k \in B
  /\ q \in pa[k] \cap Node
  /\ Toward(nd, q, k) \in Str
  /\ b = nd[q].child[1 - Bit[k][nd[q].pos]]
  /\ \/ x = NULL /\ q = h
     \/ x \in pa[k] \cap Node /\ q = Toward(nd, x, k)
  /\ nd2 \in [Node -> NodeRec]
  /\ \A n \in Node :
       /\ nd2[n].pos = nd[n].pos
       /\ \A d \in Dirs :
            nd2[n].child[d] = IF n = x /\ d = Bit[k][nd[x].pos] THEN b ELSE nd[n].child[d]
  /\ h2 = IF x = NULL THEN b ELSE h
  /\ B2 = B \ {k}
  /\ pa2 = [l \in Key |-> IF l = k THEN {} ELSE pa[l] \ {q}]

(* The other paths through q go to the sibling and no other path does;     *)
(* all of them have come through x.                                        *)
LEMMA DeletionFacts ==
  ASSUME NEW h, NEW nd, NEW pa, NEW B, Shape(h, nd, pa, B),
         NEW h2, NEW nd2, NEW pa2, NEW B2, NEW k, NEW x, NEW q, NEW b,
         Deletion(h, nd, pa, B, h2, nd2, pa2, B2, k, x, q, b)
  PROVE  /\ \A l \in B \ {k} : q \in pa[l] => Toward(nd, q, l) = b /\ b \in pa[l]
         /\ \A l \in B : b \in pa[l] => q \in pa[l] /\ l # k
         /\ \E l \in B \ {k} : q \in pa[l]
         /\ b \in Block /\ b # q
         /\ b \in Node => nd[q].pos < nd[b].pos
         /\ x # NULL => /\ x \in pa[k] \cap Node /\ nd[x].pos < nd[q].pos
                        /\ \A l \in B : q \in pa[l] =>
                             x \in pa[l] /\ Bit[l][nd[x].pos] = Bit[k][nd[x].pos]
<1> DEFINE d == Bit[k][nd[q].pos]
<1>1. /\ k \in B /\ k \in Key /\ q \in pa[k] /\ q \in Node /\ Toward(nd, q, k) \in Str
      /\ b = nd[q].child[1 - d]
      /\ \/ x = NULL /\ q = h
         \/ x \in pa[k] \cap Node /\ q = Toward(nd, x, k)
      /\ B \subseteq Key /\ nd \in [Node -> NodeRec]
  BY DEF Deletion, Shape
<1>2. /\ \A n \in Node : nd[n].pos \in Pos /\ nd[n].pos \in Int
      /\ \A n \in Node, l \in B : Bit[l][nd[n].pos] \in Dirs
  BY <1>1, ShapeTypes
<1>3. d \in Dirs /\ 1 - d \in Dirs /\ 1 - d # d /\ \A e \in Dirs : e = d \/ e = 1 - d
  <2>1. d \in Dirs
    BY <1>1, <1>2
  <2> HIDE DEF d
  <2> QED
    BY <2>1 DEF Dirs
<1>4. ASSUME NEW l \in B \ {k}, q \in pa[l] PROVE Toward(nd, q, l) = b /\ b \in pa[l]
  <2>1. Toward(nd, q, l) \in pa[l] /\ Toward(nd, q, k) \in pa[k]
    BY <1>1, <1>4 DEF Shape, Closed
  <2>2. Toward(nd, q, l) # Toward(nd, q, k)
    BY <1>1, <1>4, <2>1 DEF Shape, OwnString
  <2>3. Bit[l][nd[q].pos] # d
    BY <2>2 DEF Toward
  <2>4. Bit[l][nd[q].pos] = 1 - d
    BY <1>1, <1>2, <1>3, <1>4, <2>3
  <2> QED
    BY <1>1, <2>1, <2>4 DEF Toward
<1>5. ASSUME NEW l \in B, b \in pa[l] PROVE q \in pa[l] /\ l # k
  <2> DEFINE e == 1 - d
  <2>1. e \in Dirs /\ e # d /\ q \in pa[k] \cap Node /\ k \in B /\ nd[q].child[e] \in pa[l]
    BY <1>1, <1>3, <1>5
  <2> HIDE DEF e
  <2>2. q \in pa[l] /\ Bit[l][nd[q].pos] = e
    BY <2>1, ChildOnPath
  <2> QED
    BY <2>1, <2>2
<1>6. PICK l \in B \ {k} : q \in pa[l]
  <2>1. PICK l \in B : q \in pa[l] /\ Bit[l][nd[q].pos] = 1 - d
    BY <1>1, <1>3 DEF Shape, BothSides
  <2> QED
    BY <1>3, <2>1
<1>7. b \in Block /\ b # q /\ (b \in Node => nd[q].pos < nd[b].pos)
  <2>1. Toward(nd, q, l) = b /\ b \in pa[l]
    BY <1>4, <1>6
  <2>2. b \in Block /\ (b \in Node => nd[q].pos < nd[b].pos)
    BY <1>1, <1>6, <2>1 DEF Shape, Rooted, Ascending
  <2>3. q \in Node /\ nd[q].pos \in Int
    BY <1>1, <1>2
  <2> QED
    BY <2>2, <2>3
<1>8. ASSUME x # NULL
      PROVE  /\ x \in pa[k] \cap Node /\ nd[x].pos < nd[q].pos
             /\ \A g \in B : q \in pa[g] =>
                  x \in pa[g] /\ Bit[g][nd[x].pos] = Bit[k][nd[x].pos]
  <2>1. x \in pa[k] \cap Node /\ q = Toward(nd, x, k)
    BY <1>1, <1>8
  <2>2. nd[x].pos < nd[q].pos
    BY <1>1, <2>1 DEF Shape, Ascending
  <2>3. ASSUME NEW g \in B, q \in pa[g]
        PROVE  x \in pa[g] /\ Bit[g][nd[x].pos] = Bit[k][nd[x].pos]
    BY <1>1, <2>1, <2>3, TowardOnPath
  <2> QED
    BY <2>1, <2>2, <2>3
<1> QED
  BY <1>4, <1>5, <1>6, <1>7, <1>8

(* Unlinking a key and its parent node keeps the shape of the tree.        *)
LEMMA DeletionShape ==
  ASSUME NEW h, NEW nd, NEW pa, NEW B, Shape(h, nd, pa, B),
         NEW h2, NEW nd2, NEW pa2, NEW B2, NEW k, NEW x, NEW q, NEW b,
         Deletion(h, nd, pa, B, h2, nd2, pa2, B2, k, x, q, b)
  PROVE  Shape(h2, nd2, pa2, B2)
<1> DEFINE Turns(l, n) == n = x /\ Bit[l][nd[x].pos] = Bit[k][nd[x].pos]
<1>0. /\ B \subseteq Key /\ k \in B /\ k \in Key /\ B2 = B \ {k} /\ B2 \subseteq B
      /\ q \in Node /\ q \in pa[k] /\ Toward(nd, q, k) \in Str
      /\ h2 = IF x = NULL THEN b ELSE h
      /\ x = NULL => q = h
      /\ x # NULL => q = Toward(nd, x, k)
      /\ Block = Node \cup Str /\ Node \cap Str = {} /\ NULL \notin Block
  BY AddressAssumption DEF Deletion, Shape, Block
<1>1. /\ \A n \in Node : nd[n].pos \in Pos /\ nd[n].pos \in Int
      /\ \A n \in Node : nd2[n].pos = nd[n].pos
      /\ \A n \in Node, l \in B : Bit[l][nd[n].pos] \in Dirs
  BY ShapeTypes DEF Shape, Deletion
<1>2. \A l \in B2 : q \in pa[l] => Toward(nd, q, l) = b /\ b \in pa[l]
  BY <1>0, DeletionFacts
<1>3. PICK o \in B2 : q \in pa[o]
  BY <1>0, DeletionFacts
<1>4. b \in Block /\ b # q /\ (b \in Node => nd[q].pos < nd[b].pos)
  BY DeletionFacts
<1>5. x # NULL => /\ x \in pa[k] /\ x \in Node /\ nd[x].pos < nd[q].pos /\ x # q
                  /\ \A l \in B : q \in pa[l] => x \in pa[l] /\ Turns(l, x)
  <2>1. x # NULL => /\ x \in pa[k] \cap Node /\ nd[x].pos < nd[q].pos
                    /\ \A l \in B : q \in pa[l] =>
                         x \in pa[l] /\ Bit[l][nd[x].pos] = Bit[k][nd[x].pos]
    BY DeletionFacts
  <2> QED
    BY <1>0, <1>1, <2>1
<1>6. \A l \in B2 : \A n \in Node : n \in pa2[l] <=> n \in pa[l] /\ n # q
  BY <1>0 DEF Deletion
<1>7. \A l \in B2 : pa2[l] \subseteq pa[l] /\ q \notin pa2[l] /\ \A c \in pa[l] : c # q => c \in pa2[l]
  BY <1>0 DEF Deletion
<1>8. \A l \in B2 : \A n \in pa[l] \cap Node :
        Toward(nd2, n, l) = IF Turns(l, n) THEN b ELSE Toward(nd, n, l)
  <2> SUFFICES ASSUME NEW l \in B2, NEW n \in pa[l] \cap Node
               PROVE  Toward(nd2, n, l) = IF Turns(l, n) THEN b ELSE Toward(nd, n, l)
    OBVIOUS
  <2>1. Bit[l][nd[n].pos] \in Dirs /\ nd2[n].pos = nd[n].pos
    BY <1>0, <1>1
  <2>2. \A d \in Dirs :
          nd2[n].child[d] = IF n = x /\ d = Bit[k][nd[x].pos] THEN b ELSE nd[n].child[d]
    BY DEF Deletion
  <2> QED
    BY <2>1, <2>2 DEF Toward
<1>9. \A l \in B2 : \A n \in pa[l] \cap Node : Turns(l, n) => Toward(nd, n, l) = q /\ q \in pa[l]
  <2> SUFFICES ASSUME NEW l \in B2, NEW n \in pa[l] \cap Node, Turns(l, n)
               PROVE  Toward(nd, n, l) = q /\ q \in pa[l]
    OBVIOUS
  <2>1. Toward(nd, n, l) = q
    BY <1>0 DEF Toward
  <2> QED
    BY <1>0, <2>1 DEF Shape, Closed
<1>10. \A l \in B2 : \A n \in pa[l] \cap Node : Toward(nd, n, l) = q => Turns(l, n)
  <2> SUFFICES ASSUME NEW l \in B2, NEW n \in pa[l] \cap Node, Toward(nd, n, l) = q
               PROVE  Turns(l, n)
    OBVIOUS
  <2>1. nd[n].pos < nd[q].pos /\ q \in pa[l]
    BY <1>0 DEF Shape, Ascending, Closed
  <2>2. x # NULL
    <3> SUFFICES ASSUME x = NULL PROVE FALSE
      OBVIOUS
    <3>1. nd[q].pos <= nd[n].pos
      BY <1>0 DEF Shape, HeadFirst
    <3> QED
      BY <1>0, <1>1, <2>1, <3>1
  <2>3. x \in pa[l] /\ x \in Node /\ Turns(l, x) /\ nd[x].pos < nd[q].pos
    BY <1>0, <1>5, <2>1, <2>2
  <2>4. Toward(nd, x, l) = q
    BY <1>9, <2>3
  <2> HIDE DEF Turns
  <2>5. ~(nd[n].pos < nd[x].pos)
    <3> SUFFICES ASSUME nd[n].pos < nd[x].pos PROVE FALSE
      OBVIOUS
    <3>1. nd[q].pos <= nd[x].pos
      BY <1>0, <2>3 DEF Shape, NextIsNext
    <3> QED
      BY <1>0, <1>1, <2>3, <3>1
  <2>6. ~(nd[x].pos < nd[n].pos)
    <3> SUFFICES ASSUME nd[x].pos < nd[n].pos PROVE FALSE
      OBVIOUS
    <3>1. nd[q].pos <= nd[n].pos
      BY <1>0, <2>3, <2>4 DEF Shape, NextIsNext
    <3> QED
      BY <1>0, <1>1, <2>1, <3>1
  <2>7. nd[n].pos = nd[x].pos
    BY <1>1, <2>3, <2>5, <2>6
  <2>8. n = x
    BY <1>0, <2>3, <2>7 DEF Shape, Distinct
  <2> QED
    BY <2>3, <2>8
<1>11. \A l \in B2 : \A n \in pa[l] \cap Node : Turns(l, n) => n # q /\ nd[n].pos < nd[q].pos
  BY <1>0, <1>5
<1> HIDE DEF Turns
<1>20. Rooted(h2, pa2, B2)
  <2>1. \A l \in Key \ B2 : pa2[l] = {}
    BY <1>0 DEF Deletion, Shape, Rooted
  <2>2. ASSUME NEW l \in B2 PROVE h2 \in pa2[l] /\ pa2[l] \subseteq Block
    <3>1. h \in pa[l] /\ pa[l] \subseteq Block
      BY <1>0, <2>2 DEF Shape, Rooted
    <3>2. CASE x = NULL
      BY <1>0, <1>2, <1>4, <1>7, <2>2, <3>1, <3>2
    <3>3. CASE x # NULL
      <4>1. h \in Node /\ nd[h].pos <= nd[x].pos
        BY <1>0, <1>5, <3>3 DEF Shape, HeadFirst
      <4>2. h # q
        BY <1>0, <1>1, <1>5, <3>3, <4>1
      <4> QED
        BY <1>0, <1>7, <2>2, <3>1, <3>3, <4>2
    <3> QED
      BY <3>2, <3>3
  <2> QED
    BY <2>1, <2>2 DEF Rooted
<1>21. Closed(nd2, pa2, B2)
  <2> SUFFICES ASSUME NEW l \in B2, NEW n \in pa2[l] \cap Node PROVE Toward(nd2, n, l) \in pa2[l]
    BY DEF Closed
  <2>1. n \in pa[l] \cap Node /\ n # q
    BY <1>6
  <2>2. CASE Turns(l, n)
    BY <1>2, <1>4, <1>7, <1>8, <1>9, <2>1, <2>2
  <2>3. CASE ~Turns(l, n)
    <3>1. Toward(nd, n, l) \in pa[l]
      BY <1>0, <2>1 DEF Shape, Closed
    <3> QED
      BY <1>7, <1>8, <1>10, <2>1, <2>3, <3>1
  <2> QED
    BY <2>2, <2>3
<1>22. Reached(h2, nd2, pa2, B2)
  <2> SUFFICES ASSUME NEW l \in B2, NEW c \in pa2[l], c # h2
               PROVE  \E n \in pa2[l] \cap Node : c = Toward(nd2, n, l)
    BY DEF Reached
  <2>1. c \in pa[l] /\ c # q /\ c # h
    BY <1>0, <1>7
  <2>2. PICK n \in pa[l] \cap Node : c = Toward(nd, n, l)
    BY <1>0, <2>1 DEF Shape, Reached
  <2>3. CASE n # q
    BY <1>6, <1>8, <1>9, <2>1, <2>2, <2>3
  <2>4. CASE n = q
    <3>1. c = b /\ x # NULL
      BY <1>0, <1>2, <2>2, <2>4
    <3>2. x \in pa2[l] \cap Node /\ Turns(l, x)
      BY <1>0, <1>5, <1>6, <2>2, <2>4, <3>1
    <3> QED
      BY <1>6, <1>8, <3>1, <3>2
  <2> QED
    BY <2>3, <2>4
<1>23. \A l \in B2 : \A n \in pa[l] \cap Node :
         q \in pa[l] /\ nd[q].pos < nd[n].pos => b \in Node /\ nd[b].pos <= nd[n].pos
  <2> SUFFICES ASSUME NEW l \in B2, NEW n \in pa[l] \cap Node, q \in pa[l], nd[q].pos < nd[n].pos
               PROVE  b \in Node /\ nd[b].pos <= nd[n].pos
    OBVIOUS
  <2>1. Toward(nd, q, l) \in Node /\ nd[Toward(nd, q, l)].pos <= nd[n].pos
    BY <1>0 DEF Shape, NextIsNext
  <2> QED
    BY <1>2, <2>1
<1>24. \A l \in B2 : \A n \in pa2[l] \cap Node : q \in pa[l] => nd[n].pos # nd[q].pos
  BY <1>0, <1>6 DEF Shape, Distinct
<1>25. HeadFirst(h2, nd2, pa2, B2)
  <2> SUFFICES ASSUME NEW l \in B2, NEW n \in pa2[l] \cap Node
               PROVE  h2 \in Node /\ nd2[h2].pos <= nd2[n].pos
    BY DEF HeadFirst
  <2>1. n \in pa[l] /\ h \in Node /\ nd[h].pos <= nd[n].pos /\ h \in pa[l]
    BY <1>0, <1>6 DEF Shape, HeadFirst, Rooted
  <2>2. CASE x = NULL
    <3>1. nd[q].pos < nd[n].pos /\ q \in pa[l]
      BY <1>0, <1>1, <1>24, <2>1, <2>2
    <3> QED
      BY <1>0, <1>1, <1>23, <2>1, <2>2, <3>1
  <2>3. CASE x # NULL
    BY <1>0, <1>1, <2>1, <2>3
  <2> QED
    BY <2>2, <2>3
<1>26. Ascending(nd2, pa2, B2)
  <2> SUFFICES ASSUME NEW l \in B2, NEW n \in pa2[l] \cap Node, Toward(nd2, n, l) \in Node
               PROVE  nd2[n].pos < nd2[Toward(nd2, n, l)].pos
    BY DEF Ascending
  <2>1. n \in pa[l] \cap Node
    BY <1>6
  <2>2. CASE Turns(l, n)
    <3>1. Toward(nd2, n, l) = b /\ nd[n].pos < nd[q].pos
      BY <1>8, <1>11, <2>1, <2>2
    <3> QED
      BY <1>0, <1>1, <1>4, <2>1, <3>1
  <2>3. CASE ~Turns(l, n)
    <3>1. Toward(nd2, n, l) = Toward(nd, n, l)
      BY <1>8, <2>1, <2>3
    <3>2. nd[n].pos < nd[Toward(nd, n, l)].pos
      BY <1>0, <2>1, <3>1 DEF Shape, Ascending
    <3> QED
      BY <1>1, <2>1, <3>1, <3>2
  <2> QED
    BY <2>2, <2>3
<1>27. NextIsNext(nd2, pa2, B2)
  <2> SUFFICES ASSUME NEW l \in B2, NEW a \in pa2[l] \cap Node, NEW c \in pa2[l] \cap Node,
                      nd2[a].pos < nd2[c].pos
               PROVE  Toward(nd2, a, l) \in Node /\ nd2[Toward(nd2, a, l)].pos <= nd2[c].pos
    BY DEF NextIsNext
  <2>1. a \in pa[l] \cap Node /\ c \in pa[l] \cap Node /\ nd[a].pos < nd[c].pos
    BY <1>1, <1>6
  <2>2. Toward(nd, a, l) \in Node /\ nd[Toward(nd, a, l)].pos <= nd[c].pos
    BY <1>0, <2>1 DEF Shape, NextIsNext
  <2>3. CASE Turns(l, a)
    <3>1. q \in pa[l] /\ Toward(nd, a, l) = q /\ Toward(nd2, a, l) = b
      BY <1>8, <1>9, <2>1, <2>3
    <3>2. nd[q].pos < nd[c].pos
      BY <1>0, <1>1, <1>24, <2>1, <2>2, <3>1
    <3> QED
      BY <1>1, <1>23, <2>1, <3>1, <3>2
  <2>4. CASE ~Turns(l, a)
    BY <1>1, <1>8, <2>1, <2>2, <2>4
  <2> QED
    BY <2>3, <2>4
<1>28. Distinct(nd2, pa2, B2)
  BY <1>0, <1>1, <1>6 DEF Shape, Distinct
<1>29. Shared(nd2, pa2, B2)
  <2> SUFFICES ASSUME NEW g \in B2, NEW l \in B2, NEW c \in pa2[g] \cap pa2[l] \cap Node,
                      NEW n \in pa2[l] \cap Node, nd2[n].pos < nd2[c].pos
               PROVE  n \in pa2[g]
    BY DEF Shared
  <2>1. /\ c \in pa[g] \cap pa[l] \cap Node /\ n \in pa[l] \cap Node /\ n # q
        /\ nd[n].pos < nd[c].pos
    BY <1>1, <1>6
  <2>2. n \in pa[g]
    BY <1>0, <2>1 DEF Shape, Shared
  <2> QED
    BY <1>6, <2>1, <2>2
<1>30. Agree(nd2, pa2, B2)
  <2> SUFFICES ASSUME NEW g \in B2, NEW l \in B2, NEW n \in pa2[g] \cap pa2[l] \cap Node,
                      NEW e \in Pos, e < nd2[n].pos
               PROVE  Bit[g][e] = Bit[l][e]
    BY DEF Agree
  <2>1. n \in pa[g] \cap pa[l] \cap Node /\ e < nd[n].pos
    BY <1>1, <1>6
  <2> QED
    BY <1>0, <2>1 DEF Shape, Agree
<1>31. BothSides(nd2, pa2, B2)
  <2> SUFFICES ASSUME NEW l \in B2, NEW n \in pa2[l] \cap Node, NEW d \in Dirs
               PROVE  \E g \in B2 : n \in pa2[g] /\ Bit[g][nd[n].pos] = d
    BY <1>1 DEF BothSides
  <2>1. n \in pa[l] \cap Node /\ n # q
    BY <1>6
  <2>2. PICK g \in B : n \in pa[g] /\ Bit[g][nd[n].pos] = d
    BY <1>0, <2>1 DEF Shape, BothSides
  <2>3. CASE g # k
    BY <1>0, <1>6, <2>1, <2>2, <2>3
  <2>4. CASE g = k
    <3>1. nd[n].pos # nd[q].pos
      BY <1>0, <2>1, <2>2, <2>4 DEF Shape, Distinct
    <3>2. ~(nd[q].pos < nd[n].pos)
      BY <1>0, <2>1, <2>2, <2>4 DEF Shape, NextIsNext
    <3>3. nd[n].pos < nd[q].pos
      BY <1>0, <1>1, <2>1, <3>1, <3>2
    <3>4. n \in pa[o]
      BY <1>0, <1>3, <2>1, <2>2, <2>4, <3>3 DEF Shape, Shared
    <3>5. Bit[o][nd[n].pos] = Bit[k][nd[n].pos]
      BY <1>0, <1>1, <1>3, <2>1, <3>3 DEF Shape, Agree
    <3> QED
      BY <1>3, <1>6, <2>1, <2>2, <2>4, <3>4, <3>5
  <2> QED
    BY <2>3, <2>4
<1>32. \A l \in B2 : pa2[l] \cap Str = pa[l] \cap Str
  BY <1>0, <1>7
<1>33. OneString(pa2, B2)
  BY <1>0, <1>32 DEF Shape, OneString
<1>34. OwnString(pa2, B2)
  <2> SUFFICES ASSUME NEW g \in B2, NEW l \in B2, pa2[g] \cap pa2[l] \cap Str # {} PROVE g = l
    BY DEF OwnString
  <2>1. pa[g] \cap pa[l] \cap Str # {}
    BY <1>32
  <2> QED
    BY <1>0, <2>1 DEF Shape, OwnString
<1> QED
  BY <1>0, <1>3, <1>20, <1>21, <1>22, <1>25, <1>26, <1>27, <1>28, <1>29, <1>30, <1>31, <1>33, <1>34
     DEF Shape, Deletion

(* The blocks of the tree after the two stores.                            *)
LEMMA InsertionTree ==
  ASSUME NEW h, NEW nd, NEW pa, NEW B, Shape(h, nd, pa, B),
         NEW h2, NEW nd2, NEW pa2, NEW B2, NEW j, NEW k, NEW m, NEW s, NEW i, NEW x, NEW q,
         Insertion(h, nd, pa, B, h2, nd2, pa2, B2, j, k, m, s, i, x, q)
  PROVE  /\ \A l \in B : pa[l] \subseteq pa2[l]
         /\ m \in pa2[k] /\ pa2[k] \cap Str = {s}
         /\ \A l \in B2 : \A c \in pa2[l] : c = m \/ c = s \/ \E g \in B : c \in pa[g]
<1>1. Node \cap Str = {} /\ B \subseteq Key /\ B2 = B \cup {k} /\ k \notin B /\ k \in Key
  BY AddressAssumption DEF Shape, Insertion
<1>2. \A l \in B : pa2[l] = IF q \in pa[l] THEN pa[l] \cup {m} ELSE pa[l]
  BY <1>1 DEF Insertion
<1>3. pa2[k] = {n \in pa[j] \cap Node : nd[n].pos < i} \cup {m, s} /\ j \in B /\ m \in Node /\ s \in Str
  BY <1>1 DEF Insertion
<1> QED
  BY <1>1, <1>2, <1>3

(* ... and after the splice of a deletion.                                 *)
LEMMA DeletionTree ==
  ASSUME NEW h, NEW nd, NEW pa, NEW B, Shape(h, nd, pa, B),
         NEW h2, NEW nd2, NEW pa2, NEW B2, NEW k, NEW x, NEW q, NEW b,
         Deletion(h, nd, pa, B, h2, nd2, pa2, B2, k, x, q, b)
  PROVE  /\ \A l \in B2 : \A c \in pa2[l] : c \in pa[l] /\ c # q /\ c # Toward(nd, q, k)
         /\ \A l \in B : \A c \in pa[l] :
              c = q \/ c = Toward(nd, q, k) \/ \E g \in B2 : c \in pa2[g]
         /\ \E g \in B2 : b \in pa2[g]
         /\ x # q
<1>0. /\ B \subseteq Key /\ k \in B /\ B2 = B \ {k} /\ q \in Node /\ q \in pa[k]
      /\ Toward(nd, q, k) \in Str /\ Node \cap Str = {}
      /\ pa2 = [l \in Key |-> IF l = k THEN {} ELSE pa[l] \ {q}]
      /\ \A n \in Node : nd[n].pos \in Int
  BY ShapeTypes, AddressAssumption DEF Shape, Deletion
<1>1. \A l \in B2 : pa2[l] = pa[l] \ {q}
  BY <1>0
<1>2. \A l \in B : pa[l] \subseteq Block
  BY DEF Shape, Rooted
<1>3. Toward(nd, q, k) \in pa[k]
  BY <1>0 DEF Shape, Closed
<1>4. PICK o \in B2 : q \in pa[o]
  BY <1>0, DeletionFacts
<1>5. b \in pa[o] /\ b # q
  BY <1>0, <1>4, DeletionFacts
<1>6. \A l \in B2 : Toward(nd, q, k) \notin pa[l]
  BY <1>0, <1>3 DEF Shape, OwnString
<1>7. ASSUME NEW c \in pa[k], c # q, c # Toward(nd, q, k) PROVE c \in pa[o]
  <2>1. c \notin Str
    BY <1>0, <1>3, <1>7 DEF Shape, OneString
  <2>2. c \in Node
    BY <1>0, <1>2, <1>7, <2>1 DEF Block
  <2>3. nd[c].pos # nd[q].pos /\ ~(nd[q].pos < nd[c].pos)
    BY <1>0, <1>7, <2>2 DEF Shape, Distinct, NextIsNext
  <2>4. nd[c].pos < nd[q].pos
    BY <1>0, <2>2, <2>3
  <2> QED
    BY <1>0, <1>4, <1>7, <2>2, <2>4 DEF Shape, Shared
<1>8. x # q
  <2>1. x # NULL => nd[x].pos < nd[q].pos
    BY DeletionFacts
  <2> QED
    BY <1>0, <2>1, AddressAssumption
<1>9. ASSUME NEW l \in B, NEW c \in pa[l], c # q, c # Toward(nd, q, k)
      PROVE  \E g \in B2 : c \in pa2[g]
  BY <1>0, <1>1, <1>4, <1>7, <1>9
<1>10. \A l \in B2 : \A c \in pa2[l] : c \in pa[l] /\ c # q /\ c # Toward(nd, q, k)
  BY <1>1, <1>6
<1> QED
  BY <1>1, <1>4, <1>5, <1>8, <1>9, <1>10

(* The tree without keys.                                                  *)
LEMMA EmptyShape ==
  ASSUME NEW nd \in [Node -> NodeRec], NEW pa, \A k \in Key : pa[k] = {}
  PROVE  Shape(NULL, nd, pa, {})
BY DEF Shape, Rooted, Closed, Reached, HeadFirst, Ascending, NextIsNext, Distinct, Shared, Agree,
       BothSides, OneString, OwnString

(* The tree of one key.                                                    *)
LEMMA SingleShape ==
  ASSUME NEW nd \in [Node -> NodeRec], NEW pa, NEW k \in Key, NEW s \in Str, pa[k] = {s},
         \A l \in Key : l # k => pa[l] = {}
  PROVE  Shape(s, nd, pa, {k})
<1>1. s \notin Node /\ s \in Block
  BY AddressAssumption DEF Block
<1> QED
  BY <1>1
   DEF Shape, Rooted, Closed, Reached, HeadFirst, Ascending, NextIsNext, Distinct, Shared, Agree,
       BothSides, OneString, OwnString

(* Nodes outside of the tree do not matter.                                *)
LEMMA SameShape ==
  ASSUME NEW h, NEW nd, NEW nd2 \in [Node -> NodeRec], NEW pa, NEW B, Shape(h, nd, pa, B),
         \A k \in B : \A n \in pa[k] \cap Node : nd2[n] = nd[n]
  PROVE  Shape(h, nd2, pa, B)
<1>1. \A k, l \in B : \A n \in pa[k] \cap Node : Toward(nd2, n, l) = Toward(nd, n, l)
  BY DEF Toward
<1>2. HeadFirst(h, nd2, pa, B)
  BY DEF Shape, HeadFirst, Rooted
<1>3. Closed(nd2, pa, B) /\ Reached(h, nd2, pa, B)
  BY <1>1 DEF Shape, Closed, Reached
<1>4. Ascending(nd2, pa, B) /\ NextIsNext(nd2, pa, B)
  BY <1>1 DEF Shape, Closed, Ascending, NextIsNext
<1>5. Distinct(nd2, pa, B) /\ Shared(nd2, pa, B)
  BY DEF Shape, Distinct, Shared
<1>6. Agree(nd2, pa, B) /\ BothSides(nd2, pa, B)
  BY DEF Shape, Agree, BothSides
<1> QED
  BY <1>2, <1>3, <1>4, <1>5, <1>6 DEF Shape

-----------------------------------------------------------------------------
(***************************************************************************)
(* The walks of the writers.                                               *)
(***************************************************************************)

(* Block b is in the tree, and on the path of k if k is in the tree.       *)
Follows(pa, B, b, k) == (\E l \in B : b \in pa[l]) /\ (k \in B => b \in pa[k])

(* A walk for k has got to b: k agrees with the keys below b in all the    *)
(* positions tested above b.                                               *)
OnWalk(nd, pa, B, b, k) ==
  /\ Follows(pa, B, b, k)
  /\ \A j \in B : b \in pa[j] => \A n \in pa[j] \cap Node :
       (b \in Str \/ nd[n].pos < nd[b].pos) => Bit[j][nd[n].pos] = Bit[k][nd[n].pos]

(* A walk that starts at the head is on its way ...                        *)
LEMMA WalkStart ==
  ASSUME NEW h, NEW nd, NEW pa, NEW B, Shape(h, nd, pa, B), NEW k \in Key, h # NULL
  PROVE  OnWalk(nd, pa, B, h, k)
<1>1. B # {} /\ (\A l \in B : h \in pa[l]) /\ Node \cap Str = {}
  BY AddressAssumption DEF Shape, Rooted
<1>2. \A j \in B : \A n \in pa[j] \cap Node :
        h \in Node /\ nd[h].pos <= nd[n].pos /\ nd[h].pos \in Int /\ nd[n].pos \in Int
  BY ShapeTypes DEF Shape, HeadFirst
<1> QED
  BY <1>1, <1>2 DEF OnWalk, Follows

(* ... and one edge further it still is, at a later position.              *)
LEMMA WalkStep ==
  ASSUME NEW h, NEW nd, NEW pa, NEW B, Shape(h, nd, pa, B), NEW k \in Key,
         NEW b \in Node, Follows(pa, B, b, k)
  PROVE  /\ Follows(pa, B, Toward(nd, b, k), k)
         /\ OnWalk(nd, pa, B, b, k) => OnWalk(nd, pa, B, Toward(nd, b, k), k)
<1> DEFINE c == Toward(nd, b, k)
           d == Bit[k][nd[b].pos]
<1>0. /\ \A n \in Node : nd[n].pos \in Int
      /\ B \subseteq Key /\ nd \in [Node -> NodeRec] /\ d \in Dirs /\ c = nd[b].child[d]
      /\ Node \cap Str = {}
  BY ShapeTypes, AddressAssumption DEF Shape, Toward
<1>1. PICK l \in B : b \in pa[l]
  BY DEF Follows
<1>2. PICK g \in B : b \in pa[g] /\ Bit[g][nd[b].pos] = d
  BY <1>0, <1>1 DEF Shape, BothSides
<1>3. c \in pa[g]
  BY <1>2 DEF Toward, Shape, Closed
<1>4. k \in B => c \in pa[k]
  BY DEF Follows, Shape, Closed
<1>5. ASSUME NEW j \in B, c \in pa[j] PROVE b \in pa[j] /\ Bit[j][nd[b].pos] = d
  <2>1. d \in Dirs /\ nd[b].child[d] \in pa[j] /\ b \in pa[l] \cap Node
    BY <1>0, <1>1, <1>5
  <2> HIDE DEF d, c
  <2> QED
    BY <2>1, ChildOnPath
<1>6. ASSUME NEW j \in B, c \in pa[j], NEW n \in pa[j] \cap Node, c \in Str \/ nd[n].pos < nd[c].pos,
             OnWalk(nd, pa, B, b, k)
      PROVE  Bit[j][nd[n].pos] = Bit[k][nd[n].pos]
  <2>1. b \in pa[j] /\ Bit[j][nd[b].pos] = d
    BY <1>5, <1>6
  <2>2. CASE nd[n].pos < nd[b].pos
    BY <1>6, <2>1, <2>2 DEF OnWalk
  <2>3. CASE nd[n].pos = nd[b].pos
    BY <2>1, <2>3
  <2>4. CASE nd[b].pos < nd[n].pos
    <3>1. Toward(nd, b, j) = c
      BY <2>1 DEF Toward
    <3>2. c \in Node /\ nd[c].pos <= nd[n].pos
      BY <1>6, <2>1, <2>4, <3>1 DEF Shape, NextIsNext
    <3> QED
      BY <1>0, <1>6, <3>2
  <2> QED
    BY <1>0, <1>6, <2>2, <2>3, <2>4
<1>7. Follows(pa, B, c, k)
  BY <1>2, <1>3, <1>4 DEF Follows
<1> QED
  BY <1>6, <1>7 DEF OnWalk

(* A walk does not notice stores outside of the tree.                      *)
LEMMA SameWalk ==
  ASSUME NEW nd, NEW nd2, NEW pa, NEW B, NEW b, NEW k, OnWalk(nd, pa, B, b, k),
         \A l \in B : \A n \in pa[l] \cap Node : nd2[n] = nd[n],
         b \in Block
  PROVE  OnWalk(nd2, pa, B, b, k)
BY AddressAssumption DEF OnWalk, Block

-----------------------------------------------------------------------------
(* Walk and Reach satisfy the equations that define them.                  *)
LEMMA WalkEquation ==
  ASSUME TypeOK, NEW k \in Key
  PROVE  /\ Walk(k)[0] = head
         /\ \A i \in 0 .. NBits : i # 0 =>
              Walk(k)[i] = IF IsInternal(Walk(k)[i - 1])
                           THEN node[Walk(k)[i - 1]].child[GetDirection(Walk(k)[i - 1], k)]
                           ELSE Walk(k)[i - 1]
<1> DEFINE F == [b \in Ptr |-> IF IsInternal(b) THEN node[b].child[GetDirection(b, k)] ELSE b]
           G == [i \in 1 .. NBits |-> F]
           E(f) == f = [i \in 0 .. NBits |->
                          IF i = 0 THEN head
                          ELSE IF IsInternal(f[i - 1]) THEN node[f[i - 1]].child[GetDirection(f[i - 1], k)]
                          ELSE f[i - 1]]
<1>1. F \in [Ptr -> Ptr]
  <2> SUFFICES ASSUME NEW b \in Node PROVE node[b].child[GetDirection(b, k)] \in Ptr
    BY DEF IsInternal
  <2>1. node[b].pos \in Pos /\ node[b].child \in [Dirs -> Ptr]
    BY DEF TypeOK, NodeRec
  <2>2. GetDirection(b, k) \in Dirs
    BY <2>1, KeyAssumption DEF GetDirection
  <2> QED
    BY <2>1, <2>2
<1>2. NBits \in Nat /\ head \in Ptr
  BY KeyAssumption DEF TypeOK
<1>3. PICK f : Iterated(NBits, Ptr, head, G, f)
  <2>1. G \in [1 .. NBits -> [Ptr -> Ptr]]
    BY <1>1
  <2> HIDE DEF F, G
  <2> QED
    BY <1>2, <2>1, Iterates
<1>4. \A i \in 0 .. NBits : i # 0 =>
        f[i] = IF IsInternal(f[i - 1]) THEN node[f[i - 1]].child[GetDirection(f[i - 1], k)] ELSE f[i - 1]
  <2> SUFFICES ASSUME NEW i \in 0 .. NBits, i # 0
               PROVE  f[i] = IF IsInternal(f[i - 1]) THEN node[f[i - 1]].child[GetDirection(f[i - 1], k)]
                             ELSE f[i - 1]
    OBVIOUS
  <2>0. i \in 1 .. NBits /\ i - 1 \in 0 .. NBits
    BY <1>2
  <2>1. i \in 1 .. NBits /\ f[i - 1] \in Ptr /\ f[i] = G[i][f[i - 1]]
    <3> HIDE DEF F, G
    <3> QED
      BY <1>3, <2>0 DEF Iterated
  <2>2. f[i] = F[f[i - 1]]
    BY <2>1
  <2> QED
    BY <2>1, <2>2
<1>5. E(f)
  BY <1>2, <1>3, <1>4 DEF Iterated
<1>6. E(Walk(k))
  BY <1>5 DEF Walk
<1> HIDE DEF F, G
<1>7. PICK w : w = Walk(k)
  OBVIOUS
<1>8. E(w)
  BY <1>6, <1>7
<1>9. w[0] = head
  BY <1>2, <1>8
<1>10. ASSUME NEW i \in 0 .. NBits, i # 0
       PROVE  w[i] = IF IsInternal(w[i - 1]) THEN node[w[i - 1]].child[GetDirection(w[i - 1], k)] ELSE w[i - 1]
  BY <1>8, <1>10
<1> QED
  BY <1>7, <1>9, <1>10

(* The same for Reach.                                                     *)
LEMMA ReachEquation ==
  ASSUME TypeOK
  PROVE  /\ Reach[0] = {head} \ {NULL}
         /\ \A i \in 0 .. NBits : i # 0 => Reach[i] = Reach[i - 1] \cup Children(Reach[i - 1])
<1> DEFINE E(f) == f = [i \in 0 .. NBits |->
                          IF i = 0 THEN {head} \ {NULL} ELSE f[i - 1] \cup Children(f[i - 1])]
<1>0. PICK S : S = SUBSET Ptr
  OBVIOUS
<1>1. PICK a : a = {head} \ {NULL}
  OBVIOUS
<1>2. PICK F : F = [X \in S |-> X \cup Children(X)]
  OBVIOUS
<1>3. F \in [S -> S] /\ a \in S /\ NBits \in Nat
  <2>1. \A X \in S : X \cup Children(X) \in S
    BY <1>0 DEF TypeOK, NodeRec, Children
  <2> QED
    BY <1>0, <1>1, <1>2, <2>1, KeyAssumption DEF TypeOK
<1>4. PICK f : Iterated(NBits, S, a, [i \in 1 .. NBits |-> F], f)
  BY <1>3, Iterates
<1>5. \A i \in 0 .. NBits : i # 0 => f[i] = f[i - 1] \cup Children(f[i - 1])
  <2> SUFFICES ASSUME NEW i \in 0 .. NBits, i # 0 PROVE f[i] = f[i - 1] \cup Children(f[i - 1])
    OBVIOUS
  <2>1. i \in 1 .. NBits /\ i - 1 \in 0 .. NBits
    BY <1>3
  <2>2. f[i - 1] \in S /\ f[i] = F[f[i - 1]]
    BY <1>4, <2>1 DEF Iterated
  <2> QED
    BY <1>2, <2>2
<1>6. E(f)
  BY <1>1, <1>3, <1>4, <1>5 DEF Iterated
<1>7. E(Reach)
  BY <1>6 DEF Reach
<1>8. 0 \in 0 .. NBits
  BY <1>3
<1> QED
  BY <1>7, <1>8

-----------------------------------------------------------------------------
(* The string at the end of a path holds the key and its value.            *)
Leaves ==
  \A k \in Bound : \A s \in path[k] \cap Str : str[s] = [key |-> k, val |-> map[k]]

ShapeInv == Shape(head, node, path, Bound) /\ Leaves

(* In a tree with keys, both children of a node are blocks of the tree,    *)
(* and a node below another one tests a later position.                    *)
LEMMA ChildInTree ==
  ASSUME TypeOK, ShapeInv, NEW n \in Tree \cap Node, NEW d \in Dirs
  PROVE  LET c == node[n].child[d]
         IN  c \in Tree /\ c \in Block /\ (c \in Node => node[n].pos < node[c].pos)
<1>1. Shape(head, node, path, Bound)
  BY DEF ShapeInv
<1>2. PICK j \in Bound : n \in path[j]
  BY <1>1 DEF Shape, Rooted, Tree
<1>3. PICK k \in Bound : n \in path[k] /\ Bit[k][node[n].pos] = d
  BY <1>1, <1>2 DEF Shape, BothSides
<1>4. node[n].child[d] = Toward(node, n, k)
  BY <1>3 DEF Toward
<1>5. node[n].child[d] \in path[k] /\ k \in Key
  BY <1>1, <1>3, <1>4 DEF Shape, Closed
<1>6. node[n].child[d] \in Tree /\ node[n].child[d] \in Block
  BY <1>1, <1>3, <1>5 DEF Shape, Rooted, Tree
<1>7. node[n].child[d] \in Node => node[n].pos < node[node[n].child[d]].pos
  BY <1>1, <1>3, <1>4 DEF Shape, Ascending
<1> QED
  BY <1>6, <1>7

(* The head of a tree with keys is in it.                                  *)
LEMMA HeadInTree ==
  ASSUME TypeOK, ShapeInv
  PROVE  IF Bound = {} THEN head = NULL /\ Tree = {}
         ELSE head \in Tree /\ head \in Block
<1>1. Shape(head, node, path, Bound)
  BY DEF ShapeInv
<1>2. CASE Bound = {}
  BY <1>1, <1>2 DEF Shape, Rooted, Tree
<1>3. CASE Bound # {}
  BY <1>1, <1>3 DEF Shape, Rooted, Tree
<1> QED
  BY <1>2, <1>3

(* After i edges the walk is in the tree, at a position i or later, and on *)
(* the path of its key if that is in the tree.                             *)
LEMMA WalkInTree ==
  ASSUME TypeOK, ShapeInv, NEW k \in Key, Bound # {}, NEW e \in 0 .. NBits
  PROVE  /\ Walk(k)[e] \in Tree /\ Walk(k)[e] \in Block
         /\ Walk(k)[e] \in Node => node[Walk(k)[e]].pos >= e
         /\ k \in Bound => Walk(k)[e] \in path[k]
<1> DEFINE P(i) == /\ Walk(k)[i] \in Tree /\ Walk(k)[i] \in Block
                   /\ Walk(k)[i] \in Node => node[Walk(k)[i]].pos >= i
                   /\ k \in Bound => Walk(k)[i] \in path[k]
           T == {i \in 0 .. NBits : P(i)}
<1>0. NBits \in Nat /\ \A n \in Node : node[n].pos \in Int /\ node[n].pos \in Pos /\ node[n].pos >= 0
  BY KeyAssumption DEF TypeOK, NodeRec, Pos
<1>1. P(0)
  <2>1. Walk(k)[0] = head
    BY WalkEquation
  <2>2. head \in Tree /\ head \in Block
    BY HeadInTree
  <2>3. k \in Bound => head \in path[k]
    BY DEF ShapeInv, Shape, Rooted
  <2> QED
    BY <1>0, <2>1, <2>2, <2>3
<1>2. ASSUME NEW i \in 0 .. NBits, i < NBits, P(i) PROVE P(i + 1)
  <2> DEFINE b == Walk(k)[i]
             c == Walk(k)[i + 1]
  <2>1. c = IF b \in Node THEN node[b].child[GetDirection(b, k)] ELSE b
    <3>1. i + 1 \in 0 .. NBits /\ i + 1 # 0 /\ (i + 1) - 1 = i
      BY <1>0, <1>2
    <3> QED
      BY <3>1, WalkEquation DEF IsInternal
  <2>2. CASE b \notin Node
    BY <1>2, <2>1, <2>2
  <2>3. CASE b \in Node
    <3>1. c = Toward(node, b, k)
      BY <2>1, <2>3 DEF Toward, GetDirection
    <3>2. GetDirection(b, k) \in Dirs
      BY <1>0, <2>3, KeyAssumption DEF GetDirection
    <3>3. b \in Tree \cap Node /\ node[b].pos >= i
      BY <1>2, <2>3
    <3> HIDE DEF b, c
    <3>4. c \in Tree /\ c \in Block /\ (c \in Node => node[b].pos < node[c].pos)
      BY <2>1, <2>3, <3>2, <3>3, ChildInTree
    <3>5. c \in Node => node[c].pos >= i + 1
      BY <1>0, <1>2, <2>3, <3>3, <3>4
    <3>6. k \in Bound => c \in path[k]
      BY <1>2, <2>3, <3>1 DEF b, ShapeInv, Shape, Closed
    <3> QED
      BY <3>4, <3>5, <3>6 DEF c
  <2> QED
    BY <2>2, <2>3
<1>3. T = 0 .. NBits
  <2>1. T \in SUBSET (0 .. NBits) /\ 0 \in T /\ \A i \in T : i < NBits => i + 1 \in T
    <3> HIDE DEF P
    <3> QED
      BY <1>0, <1>1, <1>2
  <2> HIDE DEF T
  <2> QED
    BY <1>0, <2>1, Induction
<1> QED
  BY <1>3

(* The walk for a key stops at a string after at most NBits edges.         *)
LEMMA WalkEnds ==
  ASSUME TypeOK, ShapeInv, NEW k \in Key, Bound # {}
  PROVE  Walk(k)[NBits] \in Str
<1>1. NBits \in 0 .. NBits /\ \A n \in Node : node[n].pos \in Int /\ node[n].pos < NBits
  BY KeyAssumption DEF TypeOK, NodeRec, Pos
<1>2. Walk(k)[NBits] \in Block /\ (Walk(k)[NBits] \in Node => node[Walk(k)[NBits]].pos >= NBits)
  BY <1>1, WalkInTree
<1> QED
  BY <1>1, <1>2, KeyAssumption DEF Block

(* The walk in an empty tree stays at NULL.                                *)
LEMMA WalkEmpty ==
  ASSUME TypeOK, ShapeInv, NEW k \in Key, Bound = {}
  PROVE  Walk(k)[NBits] = NULL
<1> DEFINE T == {i \in 0 .. NBits : Walk(k)[i] = NULL}
<1>0. NBits \in Nat /\ NULL \notin Node
  BY KeyAssumption, AddressAssumption
<1>1. Walk(k)[0] = NULL
  BY HeadInTree, WalkEquation
<1>2. ASSUME NEW i \in 0 .. NBits, i < NBits, Walk(k)[i] = NULL PROVE Walk(k)[i + 1] = NULL
  <2>1. i + 1 \in 0 .. NBits /\ i + 1 # 0 /\ (i + 1) - 1 = i
    BY <1>0, <1>2
  <2> QED
    BY <1>0, <1>2, <2>1, WalkEquation DEF IsInternal
<1>3. T \in SUBSET (0 .. NBits) /\ 0 \in T /\ \A i \in T : i < NBits => i + 1 \in T
  BY <1>0, <1>1, <1>2
<1>4. T = 0 .. NBits
  <2> HIDE DEF T
  <2> QED
    BY <1>0, <1>3, Induction
<1> QED
  BY <1>0, <1>4

(* The walks find the map.                                                 *)
LEMMA WalksFindMap ==
  ASSUME TypeOK, ShapeInv
  PROVE  TreeMap = map
<1> SUFFICES ASSUME NEW k \in Key
             PROVE  (IF Walk(k)[NBits] \in Str /\ str[Walk(k)[NBits]].key = k
                     THEN str[Walk(k)[NBits]].val ELSE NULL) = map[k]
  BY DEF TreeMap, TypeOK
<1> DEFINE s == Walk(k)[NBits]
<1>0. NBits \in 0 .. NBits
  BY KeyAssumption
<1>1. CASE Bound = {}
  <2>1. s = NULL
    BY <1>1, WalkEmpty
  <2> QED
    BY <1>1, <2>1, AddressAssumption DEF Bound
<1>2. CASE Bound # {}
  <2>1. s \in Str /\ s \in Tree /\ (k \in Bound => s \in path[k])
    BY <1>0, <1>2, WalkInTree, WalkEnds
  <2> HIDE DEF s
  <2>2. CASE k \in Bound
    <3>1. str[s] = [key |-> k, val |-> map[k]]
      BY <2>1, <2>2 DEF ShapeInv, Leaves
    <3> QED
      BY <2>1, <3>1 DEF s
  <2>3. CASE k \notin Bound
    <3>1. PICK j \in Bound : s \in path[j]
      BY <2>1 DEF Tree, ShapeInv, Shape, Rooted
    <3>2. str[s] = [key |-> j, val |-> map[j]]
      BY <2>1, <3>1 DEF ShapeInv, Leaves
    <3>3. map[k] = NULL
      BY <2>3 DEF Bound
    <3> QED
      BY <2>3, <3>1, <3>2, <3>3 DEF s
  <2> QED
    BY <2>2, <2>3
<1> QED
  BY <1>1, <1>2

(* A path consists of the blocks of the walk for its key.                  *)
LEMMA WalkCoversPath ==
  ASSUME TypeOK, ShapeInv, NEW k \in Bound
  PROVE  path[k] = {Walk(k)[i] : i \in 0 .. NBits}
<1> DEFINE W == {Walk(k)[i] : i \in 0 .. NBits}
<1>0. /\ NBits \in Nat /\ k \in Key
      /\ \A n \in Node : node[n].pos \in Nat /\ node[n].pos < NBits
  BY KeyAssumption DEF TypeOK, NodeRec, Pos, Bound
<1>1. W \subseteq path[k]
  BY <1>0, WalkInTree
<1>2. head \in W
  BY <1>0, WalkEquation
<1>3. ASSUME NEW n \in W \cap Node PROVE Toward(node, n, k) \in W
  <2>1. PICK i \in 0 .. NBits : n = Walk(k)[i]
    BY <1>3
  <2>2. node[n].pos >= i
    BY <1>0, <1>3, <2>1, WalkInTree
  <2>3. i + 1 \in 0 .. NBits /\ i + 1 # 0 /\ (i + 1) - 1 = i
    BY <1>0, <1>3, <2>2
  <2>4. Walk(k)[i + 1] = Toward(node, n, k)
    BY <1>0, <1>3, <2>1, <2>3, WalkEquation DEF IsInternal, Toward, GetDirection
  <2> QED
    BY <2>3, <2>4
<1> HIDE DEF W
<1> DEFINE Missed == {n \in path[k] \cap Node : n \notin W}
<1>4. Missed = {}
  <2> SUFFICES ASSUME Missed # {} PROVE FALSE
    OBVIOUS
  <2> DEFINE T == {node[n].pos : n \in Missed}
  <2>1. T \in SUBSET Nat /\ T # {}
    BY <1>0
  <2>2. PICK i \in T : \A j \in T : i <= j
    <3> HIDE DEF T
    <3> QED
      BY <2>1, Least
  <2>3. PICK n \in Missed : i = node[n].pos
    BY <2>2
  <2>4. PICK m \in path[k] \cap Node : n = Toward(node, m, k)
    BY <1>2, <2>3 DEF ShapeInv, Shape, Reached
  <2>5. node[m].pos < node[n].pos
    BY <2>3, <2>4 DEF ShapeInv, Shape, Ascending
  <2>6. m \in Missed
    BY <1>3, <2>3, <2>4
  <2>7. i <= node[m].pos
    BY <2>2, <2>6
  <2> QED
    BY <1>0, <2>3, <2>4, <2>5, <2>7
<1>5. ASSUME NEW b \in path[k] PROVE b \in W
  <2>1. CASE b = head
    BY <1>2, <2>1
  <2>2. CASE b # head
    <3>1. PICK m \in path[k] \cap Node : b = Toward(node, m, k)
      BY <1>5, <2>2 DEF ShapeInv, Shape, Reached
    <3>2. m \in W
      BY <1>4, <3>1
    <3> QED
      BY <1>3, <3>1, <3>2
  <2> QED
    BY <2>1, <2>2
<1> QED
  BY <1>1, <1>5 DEF W

(* The blocks reached from the head are those of the tree.                 *)
LEMMA LinkedIsTree ==
  ASSUME TypeOK, ShapeInv
  PROVE  Linked = Tree
<1>0. NBits \in Nat /\ NBits \in 0 .. NBits /\ 0 \in 0 .. NBits
  BY KeyAssumption
<1>1. Reach[NBits] \subseteq Tree
  <2> DEFINE T == {i \in 0 .. NBits : Reach[i] \subseteq Tree}
  <2>1. Reach[0] \subseteq Tree
    BY ReachEquation, HeadInTree
  <2>2. ASSUME NEW i \in 0 .. NBits, i < NBits, Reach[i] \subseteq Tree PROVE Reach[i + 1] \subseteq Tree
    <3>1. Reach[i + 1] = Reach[i] \cup Children(Reach[i])
      <4>1. i + 1 \in 0 .. NBits /\ i + 1 # 0 /\ (i + 1) - 1 = i
        BY <1>0, <2>2
      <4> QED
        BY <4>1, ReachEquation
    <3>2. \A n \in Reach[i] \cap Node, d \in Dirs : node[n].child[d] \in Tree
      BY <2>2, ChildInTree
    <3>3. Children(Reach[i]) \subseteq Tree
      BY <3>2 DEF Children
    <3> QED
      BY <2>2, <3>1, <3>3
  <2>3. T \in SUBSET (0 .. NBits) /\ 0 \in T /\ \A i \in T : i < NBits => i + 1 \in T
    BY <1>0, <2>1, <2>2
  <2>4. T = 0 .. NBits
    <3> HIDE DEF T
    <3> QED
      BY <1>0, <2>3, Induction
  <2> QED
    BY <1>0, <2>4
<1>2. ASSUME NEW k \in Bound PROVE path[k] \subseteq Reach[NBits]
  <2> DEFINE P(i) == \A j \in 0 .. i : Walk(k)[j] \in Reach[i]
             T == {i \in 0 .. NBits : P(i)}
  <2>0. k \in Key /\ Bound # {}
    BY DEF Bound
  <2>1. P(0)
    <3>1. head \in Block /\ NULL \notin Block
      BY <2>0, HeadInTree, AddressAssumption DEF Block
    <3>2. Walk(k)[0] \in Reach[0]
      BY <2>0, <3>1, WalkEquation, ReachEquation
    <3>3. \A j \in 0 .. 0 : j = 0
      OBVIOUS
    <3> QED
      BY <3>2, <3>3
  <2>2. ASSUME NEW i \in 0 .. NBits, i < NBits, P(i) PROVE P(i + 1)
    <3>1. i + 1 \in 0 .. NBits /\ i + 1 # 0 /\ (i + 1) - 1 = i
      BY <1>0, <2>2
    <3>2. Reach[i + 1] = Reach[i] \cup Children(Reach[i])
      BY <3>1, ReachEquation
    <3>3. Walk(k)[i] \in Reach[i]
      BY <2>2
    <3>4. Walk(k)[i + 1] = IF Walk(k)[i] \in Node
                           THEN node[Walk(k)[i]].child[GetDirection(Walk(k)[i], k)] ELSE Walk(k)[i]
      BY <2>0, <3>1, WalkEquation DEF IsInternal
    <3>5. Walk(k)[i + 1] \in Reach[i + 1]
      <4>1. CASE Walk(k)[i] \in Node
        <5>1. GetDirection(Walk(k)[i], k) \in Dirs
          BY <2>0, <4>1, KeyAssumption DEF GetDirection, TypeOK, NodeRec
        <5> QED
          BY <3>2, <3>3, <3>4, <4>1, <5>1 DEF Children
      <4>2. CASE Walk(k)[i] \notin Node
        BY <3>2, <3>3, <3>4, <4>2
      <4> QED
        BY <4>1, <4>2
    <3>6. \A j \in 0 .. i + 1 : j = i + 1 \/ j \in 0 .. i
      BY <1>0, <2>2
    <3> QED
      BY <2>2, <3>2, <3>5, <3>6
  <2>3. T \in SUBSET (0 .. NBits) /\ 0 \in T /\ \A i \in T : i < NBits => i + 1 \in T
    <3> HIDE DEF P
    <3> QED
      BY <1>0, <2>1, <2>2
  <2>4. T = 0 .. NBits
    <3> HIDE DEF T
    <3> QED
      BY <1>0, <2>3, Induction
  <2>5. P(NBits)
    BY <1>0, <2>4
  <2>6. path[k] = {Walk(k)[i] : i \in 0 .. NBits}
    BY <1>2, WalkCoversPath
  <2> QED
    BY <2>5, <2>6
<1>3. Tree \subseteq Reach[NBits]
  <2>1. \A k \in Key : k \notin Bound => path[k] = {}
    BY DEF ShapeInv, Shape, Rooted
  <2> QED
    BY <1>2, <2>1 DEF Tree
<1> QED
  BY <1>1, <1>3 DEF Linked

(* A node of the tree tests the first position at which keys below it      *)
(* differ.                                                                 *)
LEMMA NodesAreCritical ==
  ASSUME TypeOK, ShapeInv
  PROVE  CriticalBits
<1> SUFFICES ASSUME NEW n \in Tree \cap Node
             PROVE  /\ \E j, k \in Through(n) : FirstDiff(j, k, node[n].pos)
                    /\ \A j, k \in Through(n), i \in Pos : i < node[n].pos => Bit[j][i] = Bit[k][i]
  BY LinkedIsTree DEF CriticalBits
<1>1. Shape(head, node, path, Bound)
  BY DEF ShapeInv
<1>2. \A j, k \in Through(n), i \in Pos : i < node[n].pos => Bit[j][i] = Bit[k][i]
  BY <1>1 DEF Shape, Agree, Through
<1>3. PICK l \in Bound : n \in path[l]
  BY <1>1 DEF Shape, Rooted, Tree
<1>4. PICK j \in Bound : n \in path[j] /\ Bit[j][node[n].pos] = 0
  BY <1>1, <1>3 DEF Shape, BothSides, Dirs
<1>5. PICK k \in Bound : n \in path[k] /\ Bit[k][node[n].pos] = 1
  BY <1>1, <1>3 DEF Shape, BothSides, Dirs
<1>6. j \in Through(n) /\ k \in Through(n)
  BY <1>4, <1>5 DEF Through
<1> QED
  BY <1>2, <1>4, <1>5, <1>6 DEF FirstDiff

(* A tree of the right shape holds the map.                                *)
LEMMA ShapeHoldsMap ==
  ASSUME TypeOK, ShapeInv
  PROVE  TreeHoldsMap
BY WalksFindMap, WalkCoversPath, LinkedIsTree DEF TreeHoldsMap

-----------------------------------------------------------------------------
(* The steps of the threads.                                               *)

(* An operation under way has a key; a writer linking a new node has made  *)
(* it, a delete that looks for its string has unlinked a node.             *)
ArgsOK ==
  \A t \in Thread :
    /\ pc[t] # "idle" => key[t] \in Key
    /\ pc[t] = "i_slot" => made[t] \in Node
    /\ pc[t] = "d_cmp" => p[t] \in Node

(* An allocated string holds a key.                                        *)
StringsOK == \A s \in Str \cap live : str[s].key \in Key

TypeInv == TypeOK /\ ArgsOK /\ StringsOK

-----------------------------------------------------------------------------
(* The critical bit of two different keys is a position.                   *)
LEMMA CritPosType ==
  \A j, k \in Key : j # k => CritPos(j, k) \in Pos /\ FirstDiff(j, k, CritPos(j, k))
BY KeyAssumption DEF CritPos

(* The direction a walk takes is 0 or 1.                                   *)
LEMMA DirectionType ==
  ASSUME TypeOK, NEW n \in Node, NEW k \in Key
  PROVE  GetDirection(n, k) \in Dirs
BY KeyAssumption DEF TypeOK, GetDirection, NodeRec

(* The types of what a step reads and writes.                              *)
LEMMA ConstTypes ==
  /\ HeadSlot \in Slot
  /\ NoNode \in NodeRec
  /\ NoStr \in StrRec
  /\ NULL \in Ptr
  /\ "left" \in Lock
BY KeyAssumption DEF HeadSlot, Slot, NoNode, NoStr, NodeRec, StrRec, Ptr, Lock, Pos, Dirs

(* A child is a pointer ...                                                *)
LEMMA ChildType ==
  ASSUME TypeOK, NEW n \in Node, NEW d \in Dirs
  PROVE  node[n].child[d] \in Ptr
BY DEF TypeOK, NodeRec

(* ... and so is what a slot holds.                                        *)
LEMMA AtType ==
  ASSUME TypeOK, NEW s \in Slot
  PROVE  At(s) \in Ptr
BY ChildType DEF At, Slot, TypeOK

(* A store of a pointer keeps the types of the tree.                       *)
LEMMA StoreType ==
  ASSUME TypeOK, NEW s \in Slot, NEW ptr \in Ptr, NEW ns \in [Node -> NodeRec],
         Store(s, ptr, ns)
  PROVE  head' \in Ptr /\ node' \in [Node -> NodeRec]
<1>1. head' \in Ptr
  BY DEF Store, TypeOK
<1>2. CASE s.in = NULL
  BY <1>1, <1>2 DEF Store
<1>3. CASE s.in # NULL
  <2>1. s.in \in Node /\ s.dir \in Dirs
    BY <1>3 DEF Slot
  <2>2. ns[s.in] \in NodeRec
    BY <2>1
  <2>3. [ns[s.in] EXCEPT !.child[s.dir] = ptr] \in NodeRec
    BY <2>1, <2>2 DEF NodeRec
  <2>4. node' = [ns EXCEPT ![s.in] = [ns[s.in] EXCEPT !.child[s.dir] = ptr]]
    BY <1>3 DEF Store
  <2> QED
    BY <1>1, <2>1, <2>3, <2>4
<1> QED
  BY <1>2, <1>3

(* free keeps the types, and the strings that stay allocated.              *)
LEMMA ReleaseType ==
  ASSUME TypeOK, StringsOK, NEW B, Release(B)
  PROVE  /\ live' \in SUBSET Block
         /\ node' \in [Node -> NodeRec]
         /\ str' \in [Str -> StrRec]
         /\ StringsOK'
BY ConstTypes DEF Release, TypeOK, StringsOK

(* The types of the new tree.                                              *)
LEMMA TypeInit == Init => TypeInv
BY KeyAssumption, AddressAssumption
   DEF Init, TypeInv, TypeOK, ArgsOK, StringsOK, NoNode, NoStr, HeadSlot, Slot, Ptr, Block,
       NodeRec, StrRec, Lock, PC, Pos, Dirs

(* Every step of Critbit keeps the types.                                  *)
LEMMA TypeStep == TypeInv /\ [Next]_vars => TypeInv'
<1> SUFFICES ASSUME TypeInv, [Next]_vars PROVE TypeInv'
  OBVIOUS
<1> USE KeyAssumption, AddressAssumption DEF TypeInv, TypeOK, ArgsOK, StringsOK, vars, heap,
        sync, locals, history, Goto, Return, Bind, Ptr, Block, Lock, PC
<1>1. ASSUME NEW t \in Thread, NEW k \in Key, GetStart(t, k) PROVE TypeInv'
  BY <1>1 DEF GetStart
<1>2. ASSUME NEW t \in Thread, GetRdLock(t) PROVE TypeInv'
  BY <1>2 DEF GetRdLock
<1>3. ASSUME NEW t \in Thread, GetHead(t) PROVE TypeInv'
  BY <1>3 DEF GetHead
<1>4. ASSUME NEW t \in Thread, GetWalk(t) PROVE TypeInv'
  <2>1. node[p[t]].child[GetDirection(p[t], key[t])] \in Ptr
    BY <1>4, DirectionType, ChildType DEF GetWalk, IsInternal
  <2> QED
    BY <1>4, <2>1 DEF GetWalk
<1>5. ASSUME NEW t \in Thread, GetCompare(t) PROVE TypeInv'
  BY <1>5 DEF GetCompare, StrRec
<1>6. ASSUME NEW t \in Thread, GetUnlock(t) PROVE TypeInv'
  BY <1>6, ConstTypes DEF GetUnlock
<1>7. ASSUME NEW t \in Thread, NEW k \in Key, NEW v \in Val, InsertLock(t, k, v) PROVE TypeInv'
  BY <1>7 DEF InsertLock
<1>8. ASSUME NEW t \in Thread, InsertFirst(t) PROVE TypeInv'
  BY <1>8 DEF InsertFirst, StrRec
<1>9. ASSUME NEW t \in Thread, InsertNear(t) PROVE TypeInv'
  <2>1. node[p[t]].child[GetDirection(p[t], key[t])] \in Ptr
    BY <1>9, DirectionType, ChildType DEF InsertNear, IsInternal
  <2> QED
    BY <1>9, <2>1 DEF InsertNear
<1>10. ASSUME NEW t \in Thread, InsertExists(t) PROVE TypeInv'
  BY <1>10 DEF InsertExists
<1>11. ASSUME NEW t \in Thread, InsertAlloc(t) PROVE TypeInv'
  <2> DEFINE j == str[p[t]].key
             i == CritPos(j, key[t])
             d == Bit[j][i]
  <2>1. j \in Key /\ key[t] \in Key /\ j # key[t]
    BY <1>11 DEF InsertAlloc
  <2>2. i \in Pos /\ d \in Dirs
    BY <2>1, CritPosType
  <2>3. PICK n \in Node \ live, s \in Str \ live :
          /\ live' = live \cup {n, s}
          /\ str' = [str EXCEPT ![s] = [key |-> key[t], val |-> val[t]]]
          /\ node' = [node EXCEPT ![n] =
               [pos |-> i, child |-> [NoNode.child EXCEPT ![1 - d] = s]]]
          /\ made' = [made EXCEPT ![t] = n]
    BY <1>11 DEF InsertAlloc
  <2>4. [pos |-> i, child |-> [NoNode.child EXCEPT ![1 - d] = s]] \in NodeRec
    BY <2>2, ConstTypes DEF NodeRec
  <2>5. [key |-> key[t], val |-> val[t]] \in StrRec
    BY DEF StrRec
  <2>6. /\ live' \in SUBSET Block /\ node' \in [Node -> NodeRec] /\ str' \in [Str -> StrRec]
        /\ made' \in [Thread -> Node \cup {NULL}]
    BY ZenonT(40), <2>3, <2>4, <2>5
  <2>7. StringsOK'
    BY SMTT(90), <2>1, <2>3
  <2>8. /\ pc[t] = "i_near" /\ Goto(t, "i_slot")
        /\ UNCHANGED <<root, head, sync, key, val, lock, p, slot, gslot, ret, fault, history>>
    BY <1>11 DEF InsertAlloc
  <2>9. pc' \in [Thread -> PC] /\ ArgsOK'
    BY SMTT(40), <2>1, <2>3, <2>8
  <2> HIDE DEF StringsOK, ArgsOK, PC
  <2> QED
    BY <2>6, <2>7, <2>8, <2>9
<1>12. ASSUME NEW t \in Thread, InsertNoMem(t) PROVE TypeInv'
  BY <1>12 DEF InsertNoMem
<1>13. ASSUME NEW t \in Thread, InsertDescend(t) PROVE TypeInv'
  <2> DEFINE q == At(slot[t])
  <2>1. q \in Node /\ GetDirection(q, key[t]) \in Dirs
    BY <1>13, DirectionType DEF InsertDescend, IsInternal
  <2>2. [in |-> q, dir |-> GetDirection(q, key[t])] \in Slot
    BY <2>1 DEF Slot
  <2> QED
    BY <1>13, <2>2 DEF InsertDescend
<1>14. ASSUME NEW t \in Thread, InsertLink(t) PROVE TypeInv'
  <2> DEFINE n == made[t]
             q == At(slot[t])
             d == 1 - GetDirection(n, key[t])
             ns == [node EXCEPT ![n].child[d] = q]
  <2>1. n \in Node /\ q \in Ptr /\ slot[t] \in Slot
    BY <1>14, AtType DEF InsertLink
  <2>2. [node[n] EXCEPT !.child[d] = q] \in NodeRec
    <3>1. node[n] \in NodeRec
      BY <2>1
    <3> HIDE DEF d, q
    <3> QED
      BY <2>1, <3>1 DEF NodeRec
  <2>3. ns \in [Node -> NodeRec]
    BY <2>1, <2>2
  <2>4. Store(slot[t], n, ns)
    BY <1>14 DEF InsertLink
  <2>5. head' \in Ptr /\ node' \in [Node -> NodeRec]
    BY <2>1, <2>3, <2>4, StoreType
  <2>6. path' \in [Key -> SUBSET Ptr]
    <3>1. 1 - d \in Dirs
      <4>1. GetDirection(n, key[t]) \in Dirs
        BY <1>14, <2>1, DirectionType DEF InsertLink
      <4> QED
        BY <4>1 DEF Dirs
    <3>2. n \in Ptr /\ node[n].child[1 - d] \in Ptr
      BY <2>1, <3>1, ChildType
    <3> QED
      BY <1>14, <3>2 DEF InsertLink
  <2> QED
    BY SMTT(90), <1>14, <2>5, <2>6 DEF InsertLink
<1>15. ASSUME NEW t \in Thread, WriterUnlock(t) PROVE TypeInv'
  BY <1>15, ConstTypes DEF WriterUnlock
<1>16. ASSUME NEW t \in Thread, NEW k \in Key, DeleteLock(t, k) PROVE TypeInv'
  BY <1>16 DEF DeleteLock
<1>17. ASSUME NEW t \in Thread, DeleteWalk(t) PROVE TypeInv'
  <2>1. p[t] \in Node /\ GetDirection(p[t], key[t]) \in Dirs
    BY <1>17, DirectionType DEF DeleteWalk, IsInternal
  <2>2. node[p[t]].child[GetDirection(p[t], key[t])] \in Ptr
    BY <2>1, ChildType
  <2>3. [in |-> p[t], dir |-> GetDirection(p[t], key[t])] \in Slot
    BY <2>1 DEF Slot
  <2> QED
    BY <1>17, <2>2, <2>3 DEF DeleteWalk
<1>18. ASSUME NEW t \in Thread, DeleteAbsent(t) PROVE TypeInv'
  BY <1>18 DEF DeleteAbsent
<1>19. ASSUME NEW t \in Thread, DeleteUnlink(t) PROVE TypeInv'
  <2>1. CASE slot[t].in = NULL
    BY <1>19, <2>1 DEF DeleteUnlink
  <2>2. CASE slot[t].in # NULL
    <3>0. slot[t] \in Slot
      OBVIOUS
    <3>1. slot[t].in \in Node /\ 1 - slot[t].dir \in Dirs
      BY <2>2, <3>0 DEF Slot, Dirs
    <3>2. Sibling(slot[t]) \in Ptr
      BY <3>1, ChildType DEF Sibling
    <3>3. head' \in Ptr /\ node' \in [Node -> NodeRec]
      BY <1>19, <2>2, <3>2, StoreType DEF DeleteUnlink
    <3> QED
      BY <1>19, <2>2, <3>1, <3>3 DEF DeleteUnlink
  <2> QED
    BY <2>1, <2>2
<1>20. ASSUME NEW t \in Thread, DeleteSwap(t) PROVE TypeInv'
  BY <1>20 DEF DeleteSwap
<1>21. ASSUME NEW t \in Thread, DeleteWait(t) PROVE TypeInv'
  BY <1>21 DEF DeleteWait
<1>22. ASSUME NEW t \in Thread, DeleteUnlock(t) PROVE TypeInv'
  <2>1. CASE p[t] = NULL
    <3>1. /\ pc[t] = "d_unlock" /\ wlock' = NULL /\ Return(t)
          /\ UNCHANGED <<heap, cur, prev, rd, fault, history>>
      BY <1>22, <2>1 DEF DeleteUnlock
    <3> QED
      BY <3>1, ConstTypes
  <2>2. CASE p[t] # NULL
    BY SMTT(30), <1>22, <2>2 DEF DeleteUnlock, IsInternal
  <2> QED
    BY <2>1, <2>2
<1>23. ASSUME NEW t \in Thread, DeleteCompare(t) PROVE TypeInv'
  <2>1. [in |-> p[t], dir |-> IF FirstIsMine(t) THEN 0 ELSE 1] \in Slot
    BY <1>23 DEF DeleteCompare, Slot, Dirs
  <2> QED
    BY <1>23, <2>1 DEF DeleteCompare
<1>24. ASSUME NEW t \in Thread, DeleteFree(t) PROVE TypeInv'
  <2>1. /\ live' \in SUBSET Block /\ node' \in [Node -> NodeRec] /\ str' \in [Str -> StrRec]
        /\ StringsOK'
    BY <1>24, ReleaseType DEF DeleteFree
  <2> HIDE DEF StringsOK
  <2> QED
    BY <1>24, <2>1, ConstTypes DEF DeleteFree
<1>25. ASSUME Clear PROVE TypeInv'
  <2>1. /\ live' \in SUBSET Block /\ node' \in [Node -> NodeRec] /\ str' \in [Str -> StrRec]
        /\ StringsOK'
    BY <1>25, ReleaseType DEF Clear
  <2> HIDE DEF StringsOK
  <2> QED
    BY <1>25, <2>1 DEF Clear
<1>26. ASSUME New PROVE TypeInv'
  BY <1>26 DEF New
<1>27. ASSUME NEW t \in Thread, Fault(t) PROVE TypeInv'
  BY <1>27 DEF Fault, NullRead, FreedRead, DoubleFree
<1>28. CASE UNCHANGED vars
  BY <1>28
<1> HIDE DEF TypeInv
<1>29. QED
  BY <1>1, <1>2, <1>3, <1>4, <1>5, <1>6, <1>7, <1>8, <1>9, <1>10, <1>11, <1>12, <1>13, <1>14, <1>15, <1>16, <1>17, <1>18, <1>19, <1>20, <1>21, <1>22, <1>23, <1>24, <1>25, <1>26, <1>27, <1>28
     DEF Next, Call, Step, Get, Insert, Delete, Halted

-----------------------------------------------------------------------------
(* The locks.  Threads inside wlock's critical section.                    *)
Writing(t) ==
  pc[t] \in {"i_near", "i_slot", "w_unlock", "d_walk", "d_swap", "d_wait", "d_unlock"}

(* The inductive invariant of the locking protocol: wlock and the read     *)
(* locks are held exactly by the threads inside, and a waiting delete      *)
(* waits for the lock that is not current.                                 *)
LockInv ==
  /\ cur # prev
  /\ \A t \in Thread : wlock = t <=> Writing(t)
  /\ \A t \in Thread, l \in Lock : t \in rd[l] <=> Reading(t) /\ lock[t] = l
  /\ \A t \in Thread : pc[t] = "d_wait" => lock[t] = prev
  /\ ~root => \A t \in Thread : pc[t] = "idle"
  /\ GracePeriod

(* The types LockInv is about.                                             *)
SyncType ==
  /\ wlock \in Thread \cup {NULL}
  /\ cur \in Lock /\ prev \in Lock
  /\ rd \in [Lock -> SUBSET Thread]
  /\ pc \in [Thread -> PC]
  /\ lock \in [Thread -> Lock]
  /\ fresh \in [Thread -> BOOLEAN]

(* The locks of the new tree.                                              *)
LEMMA LockInit == Init => LockInv
BY AddressAssumption
   DEF Init, LockInv, Writing, Reading, GracePeriod, Lock

(* Every step keeps the locking invariant.                                 *)
LEMMA LockStep == TypeInv /\ LockInv /\ [Next]_vars => LockInv'
<1> SUFFICES ASSUME TypeInv, LockInv, [Next]_vars PROVE LockInv'
  OBVIOUS
<1>0. SyncType
  BY DEF TypeInv, TypeOK, SyncType
<1> USE <1>0, AddressAssumption DEF LockInv, GracePeriod, Writing, Reading, SyncType, vars, heap,
        sync, locals, history, Goto, Return, Bind, Lock, PC
<1>1. ASSUME NEW t \in Thread, NEW k \in Key, GetStart(t, k) PROVE LockInv'
  BY <1>1 DEF GetStart
<1>2. ASSUME NEW t \in Thread, GetRdLock(t) PROVE LockInv'
  <2>1. \A u \in Thread, l \in Lock : u \in rd'[l] <=> Reading(u)' /\ lock'[u] = l
    BY <1>2 DEF GetRdLock
  <2>2. GracePeriod'
    <3> SUFFICES ASSUME NEW u \in Thread, Reading(u)', fresh'[u]
                 PROVE  \/ lock'[u] = cur'
                        \/ \E d \in Thread : /\ wlock' = d /\ pc'[d] = "d_wait"
                                             /\ lock'[d] = lock'[u]
      BY DEF GracePeriod
    <3>1. CASE u = t
      <4>1. fresh' = [fresh EXCEPT ![t] = (lock[t] = cur)] /\ UNCHANGED <<lock, cur>>
        BY <1>2 DEF GetRdLock
      <4>2. lock[t] = cur
        BY <3>1, <4>1, Zenon
      <4> QED
        BY <3>1, <4>1, <4>2
    <3>2. CASE u # t
      BY <1>2, <3>2 DEF GetRdLock
    <3> QED
      BY <3>1, <3>2
  <2> QED
    BY <1>2, <2>1, <2>2 DEF GetRdLock
<1>3. ASSUME NEW t \in Thread, GetHead(t) PROVE LockInv'
  BY <1>3 DEF GetHead
<1>4. ASSUME NEW t \in Thread, GetWalk(t) PROVE LockInv'
  BY <1>4 DEF GetWalk
<1>5. ASSUME NEW t \in Thread, GetCompare(t) PROVE LockInv'
  BY <1>5 DEF GetCompare
<1>6. ASSUME NEW t \in Thread, GetUnlock(t) PROVE LockInv'
  BY <1>6 DEF GetUnlock
<1>7. ASSUME NEW t \in Thread, NEW k \in Key, NEW v \in Val, InsertLock(t, k, v) PROVE LockInv'
  BY <1>7 DEF InsertLock
<1>8. ASSUME NEW t \in Thread, InsertFirst(t) PROVE LockInv'
  BY <1>8 DEF InsertFirst
<1>9. ASSUME NEW t \in Thread, InsertNear(t) PROVE LockInv'
  BY <1>9 DEF InsertNear
<1>10. ASSUME NEW t \in Thread, InsertExists(t) PROVE LockInv'
  BY <1>10 DEF InsertExists
<1>11. ASSUME NEW t \in Thread, InsertAlloc(t) PROVE LockInv'
  <2>1. pc[t] = "i_near" /\ Goto(t, "i_slot") /\ UNCHANGED <<root, sync, lock, history>>
    BY <1>11 DEF InsertAlloc
  <2> QED
    BY <2>1
<1>12. ASSUME NEW t \in Thread, InsertNoMem(t) PROVE LockInv'
  BY <1>12 DEF InsertNoMem
<1>13. ASSUME NEW t \in Thread, InsertDescend(t) PROVE LockInv'
  BY <1>13 DEF InsertDescend
<1>14. ASSUME NEW t \in Thread, InsertLink(t) PROVE LockInv'
  BY <1>14 DEF InsertLink
<1>15. ASSUME NEW t \in Thread, WriterUnlock(t) PROVE LockInv'
  BY <1>15 DEF WriterUnlock
<1>16. ASSUME NEW t \in Thread, NEW k \in Key, DeleteLock(t, k) PROVE LockInv'
  BY <1>16 DEF DeleteLock
<1>17. ASSUME NEW t \in Thread, DeleteWalk(t) PROVE LockInv'
  BY <1>17 DEF DeleteWalk
<1>18. ASSUME NEW t \in Thread, DeleteAbsent(t) PROVE LockInv'
  BY <1>18 DEF DeleteAbsent
<1>19. ASSUME NEW t \in Thread, DeleteUnlink(t) PROVE LockInv'
  BY <1>19 DEF DeleteUnlink
<1>20. ASSUME NEW t \in Thread, DeleteSwap(t) PROVE LockInv'
  BY <1>20 DEF DeleteSwap
<1>21. ASSUME NEW t \in Thread, DeleteWait(t) PROVE LockInv'
  BY <1>21 DEF DeleteWait
<1>22. ASSUME NEW t \in Thread, DeleteUnlock(t) PROVE LockInv'
  BY <1>22 DEF DeleteUnlock
<1>23. ASSUME NEW t \in Thread, DeleteCompare(t) PROVE LockInv'
  BY <1>23 DEF DeleteCompare
<1>24. ASSUME NEW t \in Thread, DeleteFree(t) PROVE LockInv'
  BY <1>24 DEF DeleteFree
<1>25. ASSUME Clear PROVE LockInv'
  BY <1>25 DEF Clear, Idle
<1>26. ASSUME New PROVE LockInv'
  BY <1>26 DEF New, Idle
<1>27. ASSUME NEW t \in Thread, Fault(t) PROVE LockInv'
  BY <1>27 DEF Fault, NullRead, FreedRead, DoubleFree
<1>28. CASE UNCHANGED vars
  BY <1>28
<1> HIDE DEF LockInv
<1>29. QED
  BY <1>1, <1>2, <1>3, <1>4, <1>5, <1>6, <1>7, <1>8, <1>9, <1>10, <1>11, <1>12, <1>13, <1>14, <1>15, <1>16, <1>17, <1>18, <1>19, <1>20, <1>21, <1>22, <1>23, <1>24, <1>25, <1>26, <1>27, <1>28
     DEF Next, Call, Step, Get, Insert, Delete, Halted

(* The lock protocol and the types hold in every reachable state.          *)
LEMMA LockAlways == Spec => [](TypeInv /\ LockInv)
<1>1. Init => TypeInv /\ LockInv
  BY TypeInit, LockInit
<1>2. TypeInv /\ LockInv /\ [Next]_vars => (TypeInv /\ LockInv)'
  BY TypeStep, LockStep
<1> QED
  BY <1>1, <1>2, PTL DEF Spec

(* Variables keep their types whatever threads call whatever operations.   *)
THEOREM TypesCorrect == Spec => []TypeOK
<1>1. TypeInv /\ LockInv => TypeOK
  BY DEF TypeInv
<1> QED
  BY <1>1, LockAlways, PTL

(* The protocol of the two read locks: a reader that took the current lock *)
(* holds the current lock or one that the delete inside the critical       *)
(* section waits for.                                                      *)
THEOREM GracePeriodHolds == Spec => []GracePeriod
<1>1. TypeInv /\ LockInv => GracePeriod
  BY DEF LockInv
<1> QED
  BY <1>1, LockAlways, PTL

-----------------------------------------------------------------------------

(* At most one thread calls critbit_delete.  With two, the comparison that *)
(* critbit_delete makes after its critical section may read a string that  *)
(* the other has released.                                                 *)
OneDeleter == \A t, u \in Thread : "delete" \in May[t] /\ "delete" \in May[u] => t = u

(* The blocks a critbit_delete has unlinked and not yet released ...       *)
Unlinking == {"d_swap", "d_wait", "d_unlock", "d_cmp", "d_free"}
Unlinked(c, b, sl, nd) ==
  IF c \notin Unlinking \/ b = NULL THEN {}
  ELSE IF b \in Node THEN {b, nd[b].child[sl.dir]} ELSE {b}
Gone(t) == Unlinked(pc[t], p[t], slot[t], node)

(* ... and those a critbit_insert has made and not yet linked.             *)
Unpublished(c, m, k, nd) == IF c = "i_slot" THEN {m, Toward(nd, m, k)} ELSE {}
Made(t) == Unpublished(pc[t], made[t], key[t], node)

(* Every allocated block is in the tree or belongs to one operation.       *)
HeapInv ==
  /\ Tree \subseteq live
  /\ \A t \in Thread : Gone(t) \subseteq live /\ Made(t) \subseteq live
  /\ \A b \in live : b \in Tree \/ \E t \in Thread : b \in Gone(t) \/ b \in Made(t)
  /\ \A t \in Thread : Gone(t) \cap Tree = {} /\ Made(t) \cap Tree = {}
  /\ \A t, u \in Thread : Gone(t) \cap Made(u) = {}

(* An operation starts with its walk at the head.                          *)
StartOK(t) ==
  /\ pc[t] = "idle" => slot[t] = HeadSlot
  /\ pc[t] \in {"idle", "g_rdlock", "g_head"} => p[t] = NULL

(* critbit_insert: the walk to the nearest key j, and then the walk along  *)
(* the path of j to the slot of the new node.                              *)
InsertOK(t) ==
  /\ pc[t] \in {"i_near", "i_slot"} => val[t] \in Val
  /\ pc[t] = "i_near" =>
       /\ slot[t] = HeadSlot
       /\ p[t] = NULL => head = NULL
       /\ p[t] # NULL => OnWalk(node, path, Bound, p[t], key[t])
  /\ pc[t] = "i_slot" =>
       /\ p[t] \in Str /\ OnWalk(node, path, Bound, p[t], key[t])
       /\ str[p[t]].key \in Bound /\ p[t] \in path[str[p[t]].key]
       /\ key[t] \notin Bound
       /\ FirstDiff(str[p[t]].key, key[t], node[made[t]].pos)
       /\ Toward(node, made[t], key[t]) \in Str
       /\ str[Toward(node, made[t], key[t])] = [key |-> key[t], val |-> val[t]]
       /\ \/ slot[t] = HeadSlot
          \/ /\ slot[t].in \in path[str[p[t]].key] \cap Node
             /\ slot[t].dir = Bit[str[p[t]].key][node[slot[t].in].pos]
             /\ node[slot[t].in].pos < node[made[t]].pos

(* critbit_delete: the walk with the parent and the grandparent behind it, *)
(* and then the unlinked blocks.  The sibling stays in the tree.           *)
DeleteOK(t) ==
  /\ pc[t] \in Unlinking \cup {"d_walk"} => "delete" \in May[t]
  /\ pc[t] = "d_walk" =>
       /\ p[t] = NULL => head = NULL
       /\ p[t] # NULL => Follows(path, Bound, p[t], key[t])
       /\ \/ slot[t] = HeadSlot /\ p[t] = head
          \/ /\ slot[t].in \in Node /\ Follows(path, Bound, slot[t].in, key[t])
             /\ slot[t].dir = Bit[key[t]][node[slot[t].in].pos]
             /\ p[t] = Toward(node, slot[t].in, key[t])
             /\ \/ gslot[t] = HeadSlot /\ slot[t].in = head
                \/ /\ gslot[t].in \in Node /\ Follows(path, Bound, gslot[t].in, key[t])
                   /\ gslot[t].dir = Bit[key[t]][node[gslot[t].in].pos]
                   /\ slot[t].in = Toward(node, gslot[t].in, key[t])
  /\ pc[t] \in Unlinking /\ p[t] \in Str => str[p[t]].key = key[t]
  /\ pc[t] \in Unlinking /\ p[t] \in Node =>
       /\ slot[t].in = p[t]
       /\ node[p[t]].child[slot[t].dir] \in Str
       /\ str[node[p[t]].child[slot[t].dir]].key = key[t]
       /\ Sibling(slot[t]) \in Tree
       /\ Sibling(slot[t]) \in Str => str[Sibling(slot[t])].key # key[t]
  /\ pc[t] = "d_free" => p[t] # NULL

(* critbit_get.  A reader with the current lock is in the tree or on the   *)
(* blocks of a delete that has not yet waited for it.  As long as its key  *)
(* has been bound all the time it is on the path of its key, or on the     *)
(* node unlinked last and about to come back to it.                        *)
Getting(t) == pc[t] \in {"g_rdlock", "g_head", "g_walk", "g_unlock"}
Watched(r, d) == \/ pc[d] = "d_swap" /\ lock[r] = cur
                 \/ pc[d] = "d_wait" /\ lock[r] = lock[d]
ReaderOK(r) ==
  /\ Getting(r) => map[key[r]] \in seen[r]
  /\ ~Getting(r) => seen[r] = {}
  /\ Reading(r) /\ fresh[r] =>
       /\ \/ p[r] \in Tree \cup {NULL}
          \/ \E d \in Thread : Watched(r, d) /\ p[r] \in Gone(d)
       /\ \A d \in Thread : p[r] \in Gone(d) /\ key[r] = key[d] =>
            \A s \in Gone(d) \cap Str : str[s].val \in seen[r]
       /\ pc[r] = "g_walk" /\ NULL \notin seen[r] =>
            \/ p[r] \in path[key[r]]
            \/ /\ p[r] \in Node /\ \E d \in Thread : p[r] \in Gone(d)
               /\ Toward(node, p[r], key[r]) \in path[key[r]]
       /\ pc[r] = "g_unlock" => ret[r] \in seen[r]

TreeInv ==
  /\ ShapeInv
  /\ HeapInv
  /\ \A t \in Thread : StartOK(t) /\ InsertOK(t) /\ DeleteOK(t) /\ ReaderOK(t)

(* Without a root there is no tree: the next critbit_new loses none.       *)
RootInv == ~root => head = NULL

Inv == TypeInv /\ LockInv /\ RootInv /\ TreeInv

-----------------------------------------------------------------------------
(* The empty tree.                                                         *)
LEMMA TreeInit == Init => TreeInv
<1> SUFFICES ASSUME Init PROVE TreeInv
  OBVIOUS
<1>1. Bound = {} /\ Tree = {} /\ node \in [Node -> NodeRec]
  BY ConstTypes DEF Init, Bound, Tree
<1>2. Shape(head, node, path, Bound)
  BY <1>1, EmptyShape DEF Init
<1>3. Leaves
  BY <1>1 DEF Leaves
<1>4. \A t \in Thread : Gone(t) = {} /\ Made(t) = {} /\ pc[t] = "idle"
  BY DEF Init, Gone, Made, Unlinked, Unpublished, Unlinking
<1>5. HeapInv
  BY <1>1, <1>4 DEF HeapInv, Init
<1>6. \A t \in Thread : StartOK(t) /\ InsertOK(t) /\ DeleteOK(t) /\ ReaderOK(t)
  BY <1>4 DEF StartOK, InsertOK, DeleteOK, ReaderOK, Init, Unlinking, Getting, Reading
<1> QED
  BY <1>2, <1>3, <1>5, <1>6 DEF TreeInv, ShapeInv

-----------------------------------------------------------------------------
(* Facts about the invariant's state.                                      *)

(* A block of the tree is on the path of a key in it.                      *)
LEMMA TreePath ==
  ASSUME ShapeInv, NEW b
  PROVE  b \in Tree <=> \E k \in Bound : b \in path[k]
BY DEF ShapeInv, Shape, Rooted, Tree, Bound

(* A string of the tree holds the key on whose path it is, and its value.  *)
LEMMA TreeString ==
  ASSUME ShapeInv, NEW s \in Str, s \in Tree
  PROVE  /\ str[s].key \in Bound /\ s \in path[str[s].key]
         /\ str[s].val = map[str[s].key]
<1>1. PICK k \in Bound : s \in path[k]
  BY TreePath
<1>2. str[s] = [key |-> k, val |-> map[k]]
  BY <1>1 DEF ShapeInv, Leaves
<1> QED
  BY <1>1, <1>2

(* Only the writer inside the critical section walks, links or unlinks.    *)
LEMMA OneWriter ==
  ASSUME LockInv, NEW t \in Thread, NEW u \in Thread, t # u, Writing(t)
  PROVE  pc[u] \notin {"i_near", "i_slot", "w_unlock", "d_walk", "d_swap", "d_wait", "d_unlock"}
BY DEF LockInv, Writing

-----------------------------------------------------------------------------
(***************************************************************************)
(* Steps that leave the memory alone.                                      *)
(***************************************************************************)
Untouched(u) ==
  /\ pc'[u] = pc[u] /\ key'[u] = key[u] /\ val'[u] = val[u] /\ lock'[u] = lock[u]
  /\ p'[u] = p[u] /\ slot'[u] = slot[u] /\ gslot'[u] = gslot[u] /\ made'[u] = made[u]
  /\ ret'[u] = ret[u]

(* A step that leaves the tree alone does not disturb the other writers    *)
(* ...                                                                     *)
LEMMA OthersKeep ==
  ASSUME UNCHANGED <<head, node, str, map, path>>, NEW u \in Thread, Untouched(u),
         StartOK(u), InsertOK(u), DeleteOK(u)
  PROVE  /\ StartOK(u)' /\ InsertOK(u)' /\ DeleteOK(u)'
         /\ Gone(u)' = Gone(u) /\ Made(u)' = Made(u)
<1> USE DEF Untouched
<1>1. Bound' = Bound /\ Tree' = Tree
  BY DEF Bound, Tree
<1>2. Gone(u)' = Gone(u) /\ Made(u)' = Made(u)
  BY DEF Gone, Made
<1>3. StartOK(u)'
  BY DEF StartOK
<1>4. InsertOK(u)'
  BY <1>1 DEF InsertOK
<1>5. DeleteOK(u)'
  BY <1>1 DEF DeleteOK, Sibling
<1> QED
  BY <1>2, <1>3, <1>4, <1>5

(* ... nor the other readers, while the blocks unlinked stay the same ...  *)
LEMMA ReaderKeeps ==
  ASSUME UNCHANGED <<node, str, map, path>>, NEW r \in Thread, Untouched(r), ReaderOK(r),
         seen'[r] = seen[r], fresh'[r] = fresh[r],
         \A d \in Thread : Gone(d)' = Gone(d),
         \A d \in Thread : Gone(d) # {} => key'[d] = key[d],
         \A d \in Thread : Reading(r) /\ fresh[r] /\ Gone(d) # {} /\ Watched(r, d) => Watched(r, d)'
  PROVE  ReaderOK(r)'
<1> USE DEF Untouched
<1>1. Tree' = Tree /\ (Getting(r)' <=> Getting(r)) /\ (Reading(r)' <=> Reading(r))
  BY DEF Tree, Getting, Reading
<1>2. (Getting(r) => map[key[r]] \in seen[r])' /\ (~Getting(r) => seen[r] = {})'
  BY <1>1 DEF ReaderOK, Getting
<1>3. ASSUME Reading(r)', fresh'[r]
      PROVE  /\ (p[r] \in Tree \cup {NULL} \/ \E d \in Thread : Watched(r, d) /\ p[r] \in Gone(d))'
             /\ (\A d \in Thread : p[r] \in Gone(d) /\ key[r] = key[d] =>
                   \A s \in Gone(d) \cap Str : str[s].val \in seen[r])'
             /\ (pc[r] = "g_walk" /\ NULL \notin seen[r] =>
                   \/ p[r] \in path[key[r]]
                   \/ /\ p[r] \in Node /\ \E d \in Thread : p[r] \in Gone(d)
                      /\ Toward(node, p[r], key[r]) \in path[key[r]])'
             /\ (pc[r] = "g_unlock" => ret[r] \in seen[r])'
  <2>1. Reading(r) /\ fresh[r]
    BY <1>1, <1>3
  <2>2. (p[r] \in Tree \cup {NULL} \/ \E d \in Thread : Watched(r, d) /\ p[r] \in Gone(d))'
    BY <1>1, <2>1 DEF ReaderOK
  <2>3. (\A d \in Thread : p[r] \in Gone(d) /\ key[r] = key[d] =>
           \A s \in Gone(d) \cap Str : str[s].val \in seen[r])'
    BY <2>1 DEF ReaderOK
  <2>4. (pc[r] = "g_walk" /\ NULL \notin seen[r] =>
           \/ p[r] \in path[key[r]]
           \/ /\ p[r] \in Node /\ \E d \in Thread : p[r] \in Gone(d)
              /\ Toward(node, p[r], key[r]) \in path[key[r]])'
    BY <2>1 DEF ReaderOK
  <2>5. (pc[r] = "g_unlock" => ret[r] \in seen[r])'
    BY <2>1 DEF ReaderOK
  <2> QED
    BY <2>2, <2>3, <2>4, <2>5
<1> QED
  BY <1>2, <1>3 DEF ReaderOK

(* ... nor the accounts of the heap, while no operation takes or gives a   *)
(* block.                                                                  *)
LEMMA HeapKeeps ==
  ASSUME HeapInv, UNCHANGED <<live, path>>,
         \A u \in Thread : Gone(u)' = Gone(u) /\ Made(u)' = Made(u)
  PROVE  HeapInv'
<1>1. Tree' = Tree
  BY DEF Tree
<1> QED
  BY <1>1 DEF HeapInv

(* A step of t that leaves the memory and the blocks of the operations     *)
(* alone need only be looked at for t itself.                              *)
LEMMA QuietStep ==
  ASSUME TreeInv, NEW t \in Thread,
         UNCHANGED <<head, node, str, live, map, path>>,
         \A u \in Thread \ {t} : Untouched(u) /\ seen'[u] = seen[u] /\ fresh'[u] = fresh[u],
         Gone(t)' = Gone(t), Made(t)' = Made(t), Gone(t) # {} => key'[t] = key[t],
         \A r \in Thread \ {t} : \A d \in Thread :
           Reading(r) /\ fresh[r] /\ Gone(d) # {} /\ Watched(r, d) => Watched(r, d)',
         StartOK(t)', InsertOK(t)', DeleteOK(t)', ReaderOK(t)'
  PROVE  TreeInv'
<1>1. ShapeInv'
  BY DEF TreeInv, ShapeInv, Leaves, Bound
<1>2. \A u \in Thread \ {t} : /\ StartOK(u)' /\ InsertOK(u)' /\ DeleteOK(u)'
                              /\ Gone(u)' = Gone(u) /\ Made(u)' = Made(u)
  BY OthersKeep DEF TreeInv
<1>3. \A u \in Thread : Gone(u)' = Gone(u) /\ Made(u)' = Made(u)
  BY <1>2
<1>4. HeapInv'
  BY <1>3, HeapKeeps DEF TreeInv
<1>5. ASSUME NEW r \in Thread \ {t} PROVE ReaderOK(r)'
  <2>1. \A d \in Thread : Gone(d) # {} => key'[d] = key[d]
    BY DEF Untouched
  <2> QED
    BY <1>3, <1>5, <2>1, ReaderKeeps DEF TreeInv
<1> QED
  BY <1>1, <1>2, <1>4, <1>5 DEF TreeInv

(* Such a step of an operation that owns no blocks.                        *)
LEMMA PlainStep ==
  ASSUME TreeInv, NEW t \in Thread,
         UNCHANGED <<head, node, str, live, map, path, cur>>,
         \A u \in Thread \ {t} : Untouched(u) /\ seen'[u] = seen[u] /\ fresh'[u] = fresh[u],
         pc[t] \notin Unlinking \cup {"i_slot"}, pc'[t] \notin Unlinking \cup {"i_slot"},
         StartOK(t)', InsertOK(t)', DeleteOK(t)', ReaderOK(t)'
  PROVE  TreeInv'
<1>1. Gone(t) = {} /\ Made(t) = {} /\ Gone(t)' = {} /\ Made(t)' = {}
  BY DEF Gone, Made, Unlinked, Unpublished
<1>2. \A r \in Thread \ {t} : \A d \in Thread :
        Reading(r) /\ fresh[r] /\ Gone(d) # {} /\ Watched(r, d) => Watched(r, d)'
  BY <1>1 DEF Watched, Untouched
<1> QED
  BY <1>1, <1>2, QuietStep

(* The blocks of a delete: the node, whose other child is in the tree, and *)
(* the string of the key.                                                  *)
LEMMA GoneFacts ==
  ASSUME Inv, NEW d \in Thread, NEW b \in Gone(d)
  PROVE  /\ b \in Block /\ b # NULL /\ b \notin Tree /\ b \in live
         /\ pc[d] \in Unlinking /\ "delete" \in May[d]
         /\ b \in Node => /\ b = p[d] /\ slot[d].dir \in Dirs
                          /\ node[b].child[slot[d].dir] \in Gone(d)
                          /\ node[b].child[1 - slot[d].dir] \in Tree
         /\ b \in Str => str[b].key = key[d]
<1>1. b \in live /\ b \notin Tree /\ b \in Block /\ b # NULL /\ Node \cap Str = {}
  BY AddressAssumption DEF Inv, TreeInv, HeapInv, TypeInv, TypeOK, Block
<1>2. pc[d] \in Unlinking /\ p[d] # NULL /\ p[d] \in Block /\ slot[d] \in Slot
  BY DEF Gone, Unlinked, Inv, TypeInv, TypeOK, Ptr
<1>3. "delete" \in May[d]
  BY <1>2 DEF Inv, TreeInv, DeleteOK
<1>4. CASE p[d] \in Node
  <2>1. Gone(d) = {p[d], node[p[d]].child[slot[d].dir]}
    BY <1>2, <1>4 DEF Gone, Unlinked
  <2>2. /\ slot[d].in = p[d] /\ node[p[d]].child[slot[d].dir] \in Str
        /\ str[node[p[d]].child[slot[d].dir]].key = key[d]
        /\ Sibling(slot[d]) \in Tree
    BY <1>2, <1>4 DEF Inv, TreeInv, DeleteOK
  <2>3. slot[d].dir \in Dirs
    BY <1>2 DEF Slot
  <2>4. node[p[d]].child[1 - slot[d].dir] \in Tree
    BY <2>2 DEF Sibling
  <2>5. b = p[d] \/ (b \in Str /\ b \notin Node /\ str[b].key = key[d])
    BY <1>1, <2>1, <2>2
  <2> QED
    BY <1>1, <1>2, <1>3, <1>4, <2>1, <2>3, <2>4, <2>5
<1>5. CASE p[d] \in Str
  <2>1. Gone(d) = {p[d]} /\ str[p[d]].key = key[d]
    BY <1>1, <1>2, <1>5 DEF Gone, Unlinked, Inv, TreeInv, DeleteOK
  <2> QED
    BY <1>1, <1>2, <1>3, <1>5, <2>1
<1> QED
  BY <1>2, <1>4, <1>5 DEF Block

-----------------------------------------------------------------------------
(***************************************************************************)
(* The steps of critbit_get.                                               *)
(***************************************************************************)
LEMMA GetStartStep ==
  ASSUME Inv, NEW t \in Thread, NEW k \in Key, GetStart(t, k)
  PROVE  TreeInv'
<1>1. /\ UNCHANGED <<head, node, str, live, map, path, cur>>
      /\ \A u \in Thread \ {t} : Untouched(u) /\ seen'[u] = seen[u] /\ fresh'[u] = fresh[u]
      /\ pc[t] = "idle" /\ pc'[t] = "g_rdlock" /\ p'[t] = p[t] /\ key'[t] = k
      /\ seen'[t] = {map[k]} /\ map' = map
  BY DEF GetStart, Goto, Inv, TypeInv, TypeOK, heap, sync, Untouched
<1>2. StartOK(t)' /\ InsertOK(t)' /\ DeleteOK(t)'
  BY <1>1 DEF Inv, TreeInv, StartOK, InsertOK, DeleteOK, Unlinking
<1>3. ReaderOK(t)'
  BY <1>1 DEF ReaderOK, Getting, Reading
<1> QED
  BY <1>1, <1>2, <1>3, PlainStep DEF Inv, Unlinking

(* GetRdLock: the reader is not in the tree yet.                           *)
LEMMA GetRdLockStep ==
  ASSUME Inv, NEW t \in Thread, GetRdLock(t)
  PROVE  TreeInv'
<1>1. /\ UNCHANGED <<head, node, str, live, map, path, cur>>
      /\ \A u \in Thread \ {t} : Untouched(u) /\ seen'[u] = seen[u] /\ fresh'[u] = fresh[u]
      /\ pc[t] = "g_rdlock" /\ pc'[t] = "g_head" /\ p'[t] = p[t] /\ key'[t] = key[t]
      /\ seen'[t] = seen[t]
  BY DEF GetRdLock, Goto, Inv, TypeInv, TypeOK, heap, locals, Untouched
<1>2. StartOK(t)' /\ InsertOK(t)' /\ DeleteOK(t)' /\ p[t] = NULL
  BY <1>1 DEF Inv, TreeInv, StartOK, InsertOK, DeleteOK, Unlinking
<1>4. \A d \in Thread : NULL \notin Gone(d)
  BY GoneFacts
<1>5. \A d \in Thread : p'[t] \notin Gone(d)'
  <2>1. Gone(t)' = {}
    BY <1>1 DEF Gone, Unlinked, Unlinking
  <2>2. \A d \in Thread \ {t} : Gone(d)' = Gone(d)
    BY <1>1 DEF Gone, Untouched
  <2> QED
    BY <1>1, <1>2, <1>4, <2>1, <2>2
<1>6. ReaderOK(t)'
  BY <1>1, <1>2, <1>5 DEF ReaderOK, Getting, Reading, Inv, TreeInv
<1> QED
  BY <1>1, <1>2, <1>6, PlainStep DEF Inv, Unlinking

(* The walk of a reader: p goes on to q, which is the head or below p.     *)
LEMMA ReaderWalks ==
  ASSUME Inv, OneDeleter, NEW t \in Thread, NEW q,
         UNCHANGED <<head, node, str, live, map, path, cur>>,
         \A u \in Thread \ {t} : Untouched(u) /\ seen'[u] = seen[u] /\ fresh'[u] = fresh[u],
         pc[t] \in {"g_head", "g_walk"}, pc'[t] = "g_walk", p'[t] = q,
         key'[t] = key[t], seen'[t] = seen[t], fresh'[t] = fresh[t], lock'[t] = lock[t],
         fresh[t] =>
           /\ \/ q \in Tree \cup {NULL}
              \/ \E d \in Thread : Watched(t, d) /\ q \in Gone(d) /\ p[t] \in Gone(d)
           /\ NULL \notin seen[t] => q \in path[key[t]]
  PROVE  TreeInv'
<1>1. StartOK(t)' /\ InsertOK(t)' /\ DeleteOK(t)'
  BY DEF StartOK, InsertOK, DeleteOK, Unlinking
<1>2. Gone(t)' = {} /\ Gone(t) = {} /\ Tree' = Tree
  BY DEF Gone, Unlinked, Unlinking, Tree
<1>3. \A d \in Thread : Gone(d)' = Gone(d)
  <2>1. \A d \in Thread \ {t} : Gone(d)' = Gone(d)
    BY DEF Gone, Untouched
  <2> QED
    BY <1>2, <2>1
<1>4. \A d \in Thread : q \in Gone(d) /\ fresh[t] => p[t] \in Gone(d)
  <2> SUFFICES ASSUME NEW d \in Thread, q \in Gone(d), fresh[t] PROVE p[t] \in Gone(d)
    OBVIOUS
  <2>1. q \notin Tree /\ q # NULL /\ "delete" \in May[d]
    BY GoneFacts
  <2>2. PICK e \in Thread : q \in Gone(e) /\ p[t] \in Gone(e)
    BY <2>1
  <2>3. "delete" \in May[e]
    BY <2>2, GoneFacts
  <2> QED
    BY <2>1, <2>2, <2>3 DEF OneDeleter
<1>5. Reading(t) /\ Getting(t) /\ ReaderOK(t) /\ Getting(t)' /\ Reading(t)'
  BY DEF Reading, Getting, Inv, TreeInv
<1>6. \A d \in Thread : Gone(d) # {} => d # t
  BY <1>2
<1>7. \A d \in Thread : Watched(t, d) /\ Gone(d) # {} => Watched(t, d)'
  BY <1>6 DEF Watched, Untouched
<1>8. ASSUME fresh'[t]
      PROVE  /\ \/ p'[t] \in Tree' \cup {NULL}
                \/ \E d \in Thread : Watched(t, d)' /\ p'[t] \in Gone(d)'
             /\ \A d \in Thread : p'[t] \in Gone(d)' /\ key'[t] = key'[d] =>
                  \A s \in Gone(d)' \cap Str : str'[s].val \in seen'[t]
             /\ NULL \notin seen'[t] => p'[t] \in path'[key'[t]]
  <2>1. \/ p'[t] \in Tree' \cup {NULL}
        \/ \E d \in Thread : Watched(t, d)' /\ p'[t] \in Gone(d)'
    BY <1>2, <1>3, <1>7, <1>8
  <2>2. ASSUME NEW d \in Thread, p'[t] \in Gone(d)', key'[t] = key'[d], NEW s \in Gone(d)' \cap Str
        PROVE  str'[s].val \in seen'[t]
    <3>1. p[t] \in Gone(d) /\ key[d] = key[t] /\ s \in Gone(d)
      BY <1>3, <1>4, <1>6, <1>8, <2>2 DEF Untouched
    <3>2. str[s].val \in seen[t]
      BY <1>5, <1>8, <2>2, <3>1 DEF ReaderOK
    <3> QED
      BY <3>2
  <2>3. NULL \notin seen'[t] => p'[t] \in path'[key'[t]]
    BY <1>8
  <2> QED
    BY <2>1, <2>2, <2>3
<1>9. ReaderOK(t)'
  BY <1>5, <1>8 DEF ReaderOK
<1> QED
  BY <1>1, <1>9, PlainStep DEF Inv, Unlinking

(* GetHead: the reader enters the tree.                                    *)
LEMMA GetHeadStep ==
  ASSUME Inv, OneDeleter, NEW t \in Thread, GetHead(t)
  PROVE  TreeInv'
<1>1. /\ UNCHANGED <<head, node, str, live, map, path, cur>>
      /\ \A u \in Thread \ {t} : Untouched(u) /\ seen'[u] = seen[u] /\ fresh'[u] = fresh[u]
      /\ pc[t] = "g_head" /\ pc'[t] = "g_walk" /\ p'[t] = head
      /\ key'[t] = key[t] /\ seen'[t] = seen[t] /\ fresh'[t] = fresh[t] /\ lock'[t] = lock[t]
  BY DEF GetHead, Goto, Inv, TypeInv, TypeOK, heap, sync, history, Untouched
<1>2. head \in Tree \cup {NULL}
  BY HeadInTree DEF Inv, TreeInv, TypeInv
<1>3. NULL \notin seen[t] => head \in path[key[t]]
  <2> SUFFICES ASSUME NULL \notin seen[t] PROVE head \in path[key[t]]
    OBVIOUS
  <2>1. key[t] \in Bound
    BY <1>1 DEF Inv, TreeInv, ReaderOK, Getting, Bound, TypeInv, ArgsOK
  <2> QED
    BY <2>1 DEF Inv, TreeInv, ShapeInv, Shape, Rooted
<1> QED
  BY <1>1, <1>2, <1>3, ReaderWalks

(* GetWalk: from a block of the tree, or of a delete that waits for the    *)
(* reader, the reader gets to another one.                                 *)
LEMMA GetWalkStep ==
  ASSUME Inv, OneDeleter, NEW t \in Thread, GetWalk(t)
  PROVE  TreeInv'
<1> DEFINE q == Toward(node, p[t], key[t])
           i == Bit[key[t]][node[p[t]].pos]
<1>1. /\ UNCHANGED <<head, node, str, live, map, path, cur>>
      /\ \A u \in Thread \ {t} : Untouched(u) /\ seen'[u] = seen[u] /\ fresh'[u] = fresh[u]
      /\ pc[t] = "g_walk" /\ pc'[t] = "g_walk" /\ p'[t] = q /\ p[t] \in Node
      /\ key'[t] = key[t] /\ seen'[t] = seen[t] /\ fresh'[t] = fresh[t] /\ lock'[t] = lock[t]
  BY DEF GetWalk, Goto, Inv, TypeInv, TypeOK, heap, sync, history, Untouched, Toward, GetDirection,
         IsInternal
<1>2. ReaderOK(t) /\ Reading(t) /\ key[t] \in Key /\ i \in Dirs /\ q = node[p[t]].child[i]
  BY <1>1, DirectionType DEF Inv, TreeInv, TypeInv, ArgsOK, Reading, Toward, GetDirection
<1>3. ASSUME fresh[t]
      PROVE  \/ q \in Tree
             \/ \E d \in Thread : Watched(t, d) /\ q \in Gone(d) /\ p[t] \in Gone(d)
  <2>1. CASE p[t] \in Tree
    BY <1>1, <1>2, <2>1, ChildInTree DEF Inv, TreeInv, TypeInv
  <2>2. CASE \E d \in Thread : Watched(t, d) /\ p[t] \in Gone(d)
    <3>1. PICK d \in Thread : Watched(t, d) /\ p[t] \in Gone(d)
      BY <2>2
    <3>2. /\ slot[d].dir \in Dirs
          /\ node[p[t]].child[slot[d].dir] \in Gone(d)
          /\ node[p[t]].child[1 - slot[d].dir] \in Tree
      BY <1>1, <3>1, GoneFacts
    <3>3. i = slot[d].dir \/ i = 1 - slot[d].dir
      <4> HIDE DEF i
      <4> QED
        BY <1>2, <3>2 DEF Dirs
    <3> HIDE DEF i, q
    <3> QED
      BY <1>2, <3>1, <3>2, <3>3
  <2> QED
    BY <1>1, <1>2, <1>3, <2>1, <2>2, AddressAssumption DEF ReaderOK
<1>4. ASSUME fresh[t], NULL \notin seen[t] PROVE q \in path[key[t]]
  <2>1. CASE p[t] \in path[key[t]]
    <3>1. key[t] \in Bound
      BY <1>2, <2>1 DEF Inv, TreeInv, ShapeInv, Shape, Rooted
    <3> QED
      BY <1>1, <2>1, <3>1 DEF Inv, TreeInv, ShapeInv, Shape, Closed
  <2>2. CASE p[t] \notin path[key[t]]
    BY <1>1, <1>2, <1>4, <2>2 DEF ReaderOK
  <2> QED
    BY <2>1, <2>2
<1> HIDE DEF q, i
<1> QED
  BY <1>1, <1>3, <1>4, ReaderWalks

(* GetCompare: the string reached decides, and the answer has been seen.   *)
LEMMA GetCompareStep ==
  ASSUME Inv, NEW t \in Thread, GetCompare(t)
  PROVE  TreeInv'
<1>1. /\ UNCHANGED <<head, node, str, live, map, path, cur>>
      /\ \A u \in Thread \ {t} : Untouched(u) /\ seen'[u] = seen[u] /\ fresh'[u] = fresh[u]
      /\ pc[t] = "g_walk" /\ pc'[t] = "g_unlock" /\ p'[t] = p[t] /\ p[t] \in Str
      /\ key'[t] = key[t] /\ seen'[t] = seen[t] /\ fresh'[t] = fresh[t] /\ lock'[t] = lock[t]
      /\ ret'[t] = IF str[p[t]].key = key[t] THEN str[p[t]].val ELSE NULL
  BY DEF GetCompare, Goto, Inv, TypeInv, TypeOK, heap, sync, history, locals, Untouched
<1>2. ReaderOK(t) /\ Reading(t) /\ Getting(t) /\ Reading(t)' /\ Getting(t)' /\ key[t] \in Key /\ p[t] # NULL
  BY <1>1, AddressAssumption DEF Inv, TreeInv, TypeInv, ArgsOK, Reading, Getting
<1>3. Gone(t) = {} /\ Gone(t)' = {} /\ \A d \in Thread \ {t} : Gone(d)' = Gone(d)
  BY <1>1 DEF Gone, Unlinked, Unlinking, Untouched
<1>4. Tree' = Tree /\ \A d \in Thread : Gone(d)' = Gone(d) /\ (Gone(d) # {} => d # t)
  BY <1>1, <1>3 DEF Tree
<1>5. ASSUME fresh[t] PROVE ret'[t] \in seen[t]
  <2>1. CASE str[p[t]].key = key[t]
    <3>1. CASE p[t] \in Tree
      <4>1. str[p[t]].val = map[key[t]]
        BY <1>1, <2>1, <3>1, TreeString DEF Inv, TreeInv
      <4> QED
        BY <1>1, <1>2, <2>1, <4>1 DEF ReaderOK
    <3>2. CASE p[t] \notin Tree
      <4>1. PICK d \in Thread : p[t] \in Gone(d)
        BY <1>2, <1>5, <3>2 DEF ReaderOK
      <4>2. key[d] = key[t]
        BY <1>1, <2>1, <4>1, GoneFacts
      <4>3. str[p[t]].val \in seen[t]
        BY <1>1, <1>2, <1>5, <4>1, <4>2 DEF ReaderOK
      <4> QED
        BY <1>1, <2>1, <4>3
    <3> QED
      BY <3>1, <3>2
  <2>2. CASE str[p[t]].key # key[t]
    <3> SUFFICES ASSUME NULL \notin seen[t] PROVE FALSE
      BY <1>1, <2>2
    <3>1. p[t] \in path[key[t]]
      BY <1>1, <1>2, <1>5, AddressAssumption DEF ReaderOK
    <3>2. key[t] \in Bound
      BY <1>2, <3>1 DEF Inv, TreeInv, ShapeInv, Shape, Rooted
    <3>3. str[p[t]] = [key |-> key[t], val |-> map[key[t]]]
      BY <1>1, <3>1, <3>2 DEF Inv, TreeInv, ShapeInv, Leaves
    <3> QED
      BY <2>2, <3>3
  <2> QED
    BY <2>1, <2>2
<1>6. \A d \in Thread : Watched(t, d) /\ Gone(d) # {} => Watched(t, d)'
  BY <1>1, <1>4 DEF Watched, Untouched
<1>7. ASSUME fresh'[t]
      PROVE  /\ \/ p'[t] \in Tree' \cup {NULL}
                \/ \E d \in Thread : Watched(t, d)' /\ p'[t] \in Gone(d)'
             /\ \A d \in Thread : p'[t] \in Gone(d)' /\ key'[t] = key'[d] =>
                  \A s \in Gone(d)' \cap Str : str'[s].val \in seen'[t]
             /\ ret'[t] \in seen'[t]
  <2>1. \/ p'[t] \in Tree' \cup {NULL}
        \/ \E d \in Thread : Watched(t, d)' /\ p'[t] \in Gone(d)'
    BY <1>1, <1>2, <1>4, <1>6, <1>7 DEF ReaderOK
  <2>2. ASSUME NEW d \in Thread, p'[t] \in Gone(d)', key'[t] = key'[d], NEW s \in Gone(d)' \cap Str
        PROVE  str'[s].val \in seen'[t]
    <3>1. p[t] \in Gone(d) /\ key[d] = key[t] /\ s \in Gone(d)
      BY <1>1, <1>4, <2>2 DEF Untouched
    <3>2. str[s].val \in seen[t]
      BY <1>1, <1>2, <1>7, <2>2, <3>1 DEF ReaderOK
    <3> QED
      BY <1>1, <3>2
  <2> QED
    BY <1>1, <1>5, <1>7, <2>1, <2>2
<1>8. ReaderOK(t)'
  BY <1>1, <1>2, <1>7 DEF ReaderOK
<1>9. StartOK(t)' /\ InsertOK(t)' /\ DeleteOK(t)'
  BY <1>1 DEF StartOK, InsertOK, DeleteOK, Unlinking
<1> QED
  BY <1>1, <1>8, <1>9, PlainStep DEF Inv, Unlinking

(* GetUnlock.                                                              *)
LEMMA GetUnlockStep ==
  ASSUME Inv, NEW t \in Thread, GetUnlock(t)
  PROVE  TreeInv'
<1>1. /\ UNCHANGED <<head, node, str, live, map, path, cur>>
      /\ \A u \in Thread \ {t} : Untouched(u) /\ seen'[u] = seen[u] /\ fresh'[u] = fresh[u]
      /\ pc[t] = "g_unlock" /\ pc'[t] = "idle" /\ p'[t] = NULL /\ slot'[t] = HeadSlot
      /\ seen'[t] = {}
  BY DEF GetUnlock, Goto, Return, Inv, TypeInv, TypeOK, heap, Untouched
<1>2. StartOK(t)' /\ InsertOK(t)' /\ DeleteOK(t)'
  BY <1>1 DEF StartOK, InsertOK, DeleteOK, Unlinking
<1>3. ReaderOK(t)'
  BY <1>1 DEF ReaderOK, Getting, Reading
<1> QED
  BY <1>1, <1>2, <1>3, PlainStep DEF Inv, Unlinking

-----------------------------------------------------------------------------
(***************************************************************************)
(* The walks of critbit_insert and critbit_delete.                         *)
(***************************************************************************)
LEMMA WriterNoReader ==
  ASSUME Inv, NEW t \in Thread, ~Getting(t), ~Getting(t)', seen'[t] = seen[t]
  PROVE  ReaderOK(t)'
BY DEF Inv, TreeInv, ReaderOK, Getting, Reading

(* InsertLock: the walk to the nearest key starts at the head.             *)
LEMMA InsertLockStep ==
  ASSUME Inv, NEW t \in Thread, NEW k \in Key, NEW v \in Val, InsertLock(t, k, v)
  PROVE  TreeInv'
<1>1. /\ UNCHANGED <<head, node, str, live, map, path, cur>>
      /\ \A u \in Thread \ {t} : Untouched(u) /\ seen'[u] = seen[u] /\ fresh'[u] = fresh[u]
      /\ pc[t] = "idle" /\ pc'[t] = "i_near" /\ p'[t] = head /\ slot'[t] = slot[t]
      /\ key'[t] = k /\ val'[t] = v /\ seen'[t] = seen[t]
  BY DEF InsertLock, Goto, Inv, TypeInv, TypeOK, heap, history, Untouched
<1>2. head # NULL => OnWalk(node, path, Bound, head, k)
  BY WalkStart DEF Inv, TreeInv, ShapeInv
<1>3. Bound' = Bound
  BY <1>1 DEF Bound
<1>4. InsertOK(t)'
  BY <1>1, <1>2, <1>3 DEF InsertOK, Inv, TreeInv, StartOK
<1>5. StartOK(t)' /\ DeleteOK(t)'
  BY <1>1 DEF StartOK, DeleteOK, Unlinking
<1>6. ReaderOK(t)'
  BY <1>1, WriterNoReader DEF Getting
<1> QED
  BY <1>1, <1>4, <1>5, <1>6, PlainStep DEF Inv, Unlinking

(* InsertNear: the walk stays on a path of the tree.                       *)
LEMMA InsertNearStep ==
  ASSUME Inv, NEW t \in Thread, InsertNear(t)
  PROVE  TreeInv'
<1>1. /\ UNCHANGED <<head, node, str, live, map, path, cur>>
      /\ \A u \in Thread \ {t} : Untouched(u) /\ seen'[u] = seen[u] /\ fresh'[u] = fresh[u]
      /\ pc[t] = "i_near" /\ pc'[t] = "i_near" /\ slot'[t] = slot[t]
      /\ p[t] \in Node /\ p'[t] = Toward(node, p[t], key[t])
      /\ key'[t] = key[t] /\ val'[t] = val[t] /\ seen'[t] = seen[t]
  BY DEF InsertNear, Goto, Inv, TypeInv, TypeOK, heap, sync, history, Untouched, Toward, GetDirection,
         IsInternal
<1>2. Bound' = Bound /\ key[t] \in Key /\ p[t] # NULL
  BY <1>1, AddressAssumption DEF Bound, Inv, TypeInv, ArgsOK
<1>3. OnWalk(node, path, Bound, p[t], key[t]) /\ slot[t] = HeadSlot /\ val[t] \in Val
  BY <1>1, <1>2 DEF Inv, TreeInv, InsertOK
<1>4. Follows(path, Bound, p[t], key[t])
  BY <1>3 DEF OnWalk
<1>5. OnWalk(node, path, Bound, p'[t], key[t])
  BY <1>1, <1>2, <1>3, <1>4, WalkStep DEF Inv, TreeInv, ShapeInv
<1>6. p'[t] # NULL
  <2>1. \E l \in Bound : p'[t] \in path[l]
    BY <1>5 DEF OnWalk, Follows
  <2> QED
    BY <2>1, AddressAssumption DEF Inv, TreeInv, ShapeInv, Shape, Rooted, Block
<1>7. InsertOK(t)'
  BY <1>1, <1>2, <1>3, <1>5, <1>6 DEF InsertOK
<1>8. StartOK(t)' /\ DeleteOK(t)'
  BY <1>1 DEF StartOK, DeleteOK, Unlinking
<1>9. ReaderOK(t)'
  BY <1>1, WriterNoReader DEF Getting
<1> QED
  BY <1>1, <1>7, <1>8, <1>9, PlainStep DEF Inv, Unlinking

(* InsertExists and InsertNoMem touch nothing.                             *)
LEMMA InsertFailStep ==
  ASSUME Inv, NEW t \in Thread, InsertExists(t) \/ InsertNoMem(t)
  PROVE  TreeInv'
<1>1. /\ UNCHANGED <<head, node, str, live, map, path, cur>>
      /\ \A u \in Thread \ {t} : Untouched(u) /\ seen'[u] = seen[u] /\ fresh'[u] = fresh[u]
      /\ pc[t] = "i_near" /\ pc'[t] = "w_unlock" /\ seen'[t] = seen[t]
  BY DEF InsertExists, InsertNoMem, Goto, Inv, TypeInv, TypeOK, heap, sync, history, locals, Untouched
<1>2. StartOK(t)' /\ InsertOK(t)' /\ DeleteOK(t)'
  BY <1>1 DEF StartOK, InsertOK, DeleteOK, Unlinking
<1>3. ReaderOK(t)'
  BY <1>1, WriterNoReader DEF Getting
<1> QED
  BY <1>1, <1>2, <1>3, PlainStep DEF Inv, Unlinking

(* WriterUnlock.                                                           *)
LEMMA WriterUnlockStep ==
  ASSUME Inv, NEW t \in Thread, WriterUnlock(t)
  PROVE  TreeInv'
<1>1. /\ UNCHANGED <<head, node, str, live, map, path, cur>>
      /\ \A u \in Thread \ {t} : Untouched(u) /\ seen'[u] = seen[u] /\ fresh'[u] = fresh[u]
      /\ pc[t] = "w_unlock" /\ pc'[t] = "idle" /\ seen'[t] = seen[t]
      /\ p'[t] = NULL /\ slot'[t] = HeadSlot
  BY DEF WriterUnlock, Return, Inv, TypeInv, TypeOK, heap, history, Untouched
<1>2. StartOK(t)' /\ InsertOK(t)' /\ DeleteOK(t)'
  BY <1>1 DEF StartOK, InsertOK, DeleteOK, Unlinking
<1>3. ReaderOK(t)'
  BY <1>1, WriterNoReader DEF Getting
<1> QED
  BY <1>1, <1>2, <1>3, PlainStep DEF Inv, Unlinking

(* The slot of the new node, whose position is i, is looked for on the     *)
(* path of the nearest key j.                                              *)
LEMMA SlotFacts ==
  ASSUME Inv, NEW t \in Thread, pc[t] = "i_slot"
  PROVE  LET j == str[p[t]].key
             q == At(slot[t])
             x == slot[t].in
         IN  /\ j \in Bound /\ key[t] \in Key /\ key[t] \notin Bound /\ made[t] \in Node
             /\ q \in path[j]
             /\ \/ x = NULL /\ q = head
                \/ /\ x \in path[j] \cap Node /\ node[x].pos < node[made[t]].pos
                   /\ q = Toward(node, x, j) /\ slot[t].dir = Bit[j][node[x].pos]
             /\ \A n \in path[j] \cap Node : Bit[j][node[n].pos] = Bit[key[t]][node[n].pos]
             /\ FirstDiff(j, key[t], node[made[t]].pos)
<1> DEFINE j == str[p[t]].key
           q == At(slot[t])
           x == slot[t].in
<1>1. /\ p[t] \in Str /\ OnWalk(node, path, Bound, p[t], key[t])
      /\ j \in Bound /\ p[t] \in path[j] /\ key[t] \notin Bound
      /\ FirstDiff(j, key[t], node[made[t]].pos)
      /\ \/ slot[t] = HeadSlot
         \/ /\ x \in path[j] \cap Node
            /\ slot[t].dir = Bit[j][node[x].pos]
            /\ node[x].pos < node[made[t]].pos
  BY DEF Inv, TreeInv, InsertOK
<1>2. \A n \in path[j] \cap Node : Bit[j][node[n].pos] = Bit[key[t]][node[n].pos]
  BY <1>1 DEF OnWalk
<1>3. key[t] \in Key /\ made[t] \in Node
  BY DEF Inv, TypeInv, ArgsOK
<1>4. \/ x = NULL /\ q = head
      \/ /\ x \in path[j] \cap Node /\ node[x].pos < node[made[t]].pos
         /\ q = Toward(node, x, j) /\ slot[t].dir = Bit[j][node[x].pos]
  <2>1. CASE slot[t] = HeadSlot
    BY <2>1 DEF HeadSlot, At
  <2>2. CASE slot[t] # HeadSlot
    <3>1. x \in Node /\ x # NULL
      BY <1>1, <2>2, AddressAssumption
    <3>2. q = node[x].child[slot[t].dir]
      BY <3>1 DEF At
    <3> QED
      BY <1>1, <2>2, <3>2 DEF Toward
  <2> QED
    BY <2>1, <2>2
<1> HIDE DEF q, x, j
<1>5. q \in path[j]
  BY <1>1, <1>4 DEF Inv, TreeInv, ShapeInv, Shape, Rooted, Closed
<1> QED
  BY <1>1, <1>2, <1>3, <1>4, <1>5 DEF q, x, j

(* InsertDescend: the slot stays above the new node's position, on the     *)
(* path of the nearest key.                                                *)
LEMMA InsertDescendStep ==
  ASSUME Inv, NEW t \in Thread, InsertDescend(t)
  PROVE  TreeInv'
<1> DEFINE j == str[p[t]].key
           q == At(slot[t])
<1>1. /\ UNCHANGED <<head, node, str, live, map, path, cur>>
      /\ \A u \in Thread \ {t} : Untouched(u) /\ seen'[u] = seen[u] /\ fresh'[u] = fresh[u]
      /\ pc[t] = "i_slot" /\ pc'[t] = "i_slot" /\ seen'[t] = seen[t] /\ p'[t] = p[t]
      /\ key'[t] = key[t] /\ val'[t] = val[t] /\ made'[t] = made[t]
      /\ q \in Node /\ node[q].pos <= node[made[t]].pos
      /\ slot'[t] = [in |-> q, dir |-> Bit[key[t]][node[q].pos]]
  BY DEF InsertDescend, Inv, TypeInv, TypeOK, heap, sync, history, Untouched, GoesBelow,
         GetDirection, IsInternal
<1>2. /\ j \in Bound /\ key[t] \in Key /\ key[t] \notin Bound /\ made[t] \in Node
      /\ q \in path[j]
      /\ \A n \in path[j] \cap Node : Bit[j][node[n].pos] = Bit[key[t]][node[n].pos]
      /\ FirstDiff(j, key[t], node[made[t]].pos)
  BY <1>1, SlotFacts
<1>3. node[q].pos < node[made[t]].pos
  <2>1. node[q].pos # node[made[t]].pos
    BY ZenonT(40), <1>1, <1>2 DEF FirstDiff
  <2>2. node[q].pos \in Int /\ node[made[t]].pos \in Int
    BY <1>1, <1>2 DEF Inv, TypeInv, TypeOK, NodeRec, Pos
  <2> QED
    BY <1>1, <2>1, <2>2
<1>4. Bound' = Bound
  BY <1>1 DEF Bound
<1>5. Gone(t) = {} /\ Gone(t)' = {} /\ Made(t)' = Made(t)
  BY <1>1 DEF Gone, Unlinked, Unlinking, Made
<1>6. \A r \in Thread \ {t} : \A d \in Thread :
        Reading(r) /\ fresh[r] /\ Gone(d) # {} /\ Watched(r, d) => Watched(r, d)'
  BY <1>1, <1>5 DEF Watched, Untouched
<1>7. slot'[t].in = q /\ slot'[t].dir = Bit[j][node[q].pos]
  BY <1>1, <1>2
<1> HIDE DEF q
<1>8. InsertOK(t)'
  BY <1>1, <1>2, <1>3, <1>4, <1>7 DEF InsertOK, Inv, TreeInv
<1>9. StartOK(t)' /\ DeleteOK(t)'
  BY <1>1 DEF StartOK, DeleteOK, Unlinking
<1>10. ReaderOK(t)'
  BY <1>1, WriterNoReader DEF Getting
<1> QED
  BY <1>1, <1>5, <1>6, <1>8, <1>9, <1>10, QuietStep DEF Inv

(* DeleteLock: the walk starts at the head.                                *)
LEMMA DeleteLockStep ==
  ASSUME Inv, NEW t \in Thread, NEW k \in Key, "delete" \in May[t], DeleteLock(t, k)
  PROVE  TreeInv'
<1>1. /\ UNCHANGED <<head, node, str, live, map, path, cur>>
      /\ \A u \in Thread \ {t} : Untouched(u) /\ seen'[u] = seen[u] /\ fresh'[u] = fresh[u]
      /\ pc[t] = "idle" /\ pc'[t] = "d_walk" /\ p'[t] = head /\ slot'[t] = slot[t]
      /\ key'[t] = k /\ seen'[t] = seen[t]
  BY DEF DeleteLock, Goto, Inv, TypeInv, TypeOK, heap, history, Untouched
<1>2. head # NULL => Follows(path, Bound, head, k)
  BY WalkStart DEF Inv, TreeInv, ShapeInv, OnWalk
<1>3. Bound' = Bound
  BY <1>1 DEF Bound
<1>4. DeleteOK(t)'
  BY <1>1, <1>2, <1>3 DEF DeleteOK, Inv, TreeInv, StartOK, Unlinking
<1>5. StartOK(t)' /\ InsertOK(t)'
  BY <1>1 DEF StartOK, InsertOK
<1>6. ReaderOK(t)'
  BY <1>1, WriterNoReader DEF Getting
<1> QED
  BY <1>1, <1>4, <1>5, <1>6, PlainStep DEF Inv, Unlinking

(* DeleteWalk: the slots of parent and grandparent follow the walk.        *)
LEMMA DeleteWalkStep ==
  ASSUME Inv, NEW t \in Thread, DeleteWalk(t)
  PROVE  TreeInv'
<1>1. /\ UNCHANGED <<head, node, str, live, map, path, cur>>
      /\ \A u \in Thread \ {t} : Untouched(u) /\ seen'[u] = seen[u] /\ fresh'[u] = fresh[u]
      /\ pc[t] = "d_walk" /\ pc'[t] = "d_walk" /\ key'[t] = key[t] /\ seen'[t] = seen[t]
      /\ p[t] \in Node /\ p'[t] = Toward(node, p[t], key[t])
      /\ slot'[t] = [in |-> p[t], dir |-> Bit[key[t]][node[p[t]].pos]]
      /\ gslot'[t] = slot[t]
  BY DEF DeleteWalk, Inv, TypeInv, TypeOK, heap, sync, history, Untouched, Toward, GetDirection, IsInternal
<1>2. Bound' = Bound /\ key[t] \in Key /\ p[t] # NULL
  BY <1>1, AddressAssumption DEF Bound, Inv, TypeInv, ArgsOK
<1>3. /\ Follows(path, Bound, p[t], key[t]) /\ "delete" \in May[t]
      /\ \/ slot[t] = HeadSlot /\ p[t] = head
         \/ /\ slot[t].in \in Node /\ Follows(path, Bound, slot[t].in, key[t])
            /\ slot[t].dir = Bit[key[t]][node[slot[t].in].pos]
            /\ p[t] = Toward(node, slot[t].in, key[t])
  BY <1>1, <1>2 DEF Inv, TreeInv, DeleteOK
<1>4. Follows(path, Bound, p'[t], key[t])
  BY <1>1, <1>2, <1>3, WalkStep DEF Inv, TreeInv, ShapeInv
<1>5. p'[t] # NULL
  BY <1>4, AddressAssumption DEF Follows, Inv, TreeInv, ShapeInv, Shape, Rooted, Block
<1>6. slot'[t].in = p[t] /\ slot'[t].dir = Bit[key[t]][node[p[t]].pos]
  BY <1>1
<1>7. DeleteOK(t)'
  BY <1>1, <1>2, <1>3, <1>4, <1>5, <1>6 DEF DeleteOK, Unlinking
<1>8. StartOK(t)' /\ InsertOK(t)'
  BY <1>1 DEF StartOK, InsertOK
<1>9. ReaderOK(t)'
  BY <1>1, WriterNoReader DEF Getting
<1> QED
  BY <1>1, <1>7, <1>8, <1>9, PlainStep DEF Inv, Unlinking

(* DeleteAbsent: the delete owns no block.                                 *)
LEMMA DeleteAbsentStep ==
  ASSUME Inv, NEW t \in Thread, DeleteAbsent(t)
  PROVE  TreeInv'
<1>1. /\ UNCHANGED <<head, node, str, live, map, path, cur>>
      /\ \A u \in Thread \ {t} : Untouched(u) /\ seen'[u] = seen[u] /\ fresh'[u] = fresh[u]
      /\ pc[t] = "d_walk" /\ pc'[t] = "d_swap" /\ seen'[t] = seen[t] /\ p'[t] = NULL
  BY DEF DeleteAbsent, Goto, Inv, TypeInv, TypeOK, heap, sync, history, Untouched
<1>2. Gone(t) = {} /\ Gone(t)' = {} /\ Made(t) = {} /\ Made(t)' = {}
  BY <1>1 DEF Gone, Unlinked, Unlinking, Made, Unpublished
<1>3. \A r \in Thread \ {t} : \A d \in Thread :
        Reading(r) /\ fresh[r] /\ Gone(d) # {} /\ Watched(r, d) => Watched(r, d)'
  BY <1>1, <1>2 DEF Watched, Untouched
<1>4. DeleteOK(t)'
  BY <1>1, AddressAssumption DEF DeleteOK, Unlinking, Inv, TreeInv
<1>5. StartOK(t)' /\ InsertOK(t)'
  BY <1>1 DEF StartOK, InsertOK
<1>6. ReaderOK(t)'
  BY <1>1, WriterNoReader DEF Getting
<1> QED
  BY <1>1, <1>2, <1>3, <1>4, <1>5, <1>6, QuietStep DEF Inv

-----------------------------------------------------------------------------
(***************************************************************************)
(* critbit_delete after the store: the swap of the read locks, the wait    *)
(* for the readers of the old one, and the choice of the string to free.   *)
(***************************************************************************)

(* A delete that keeps its locals, from one of its last steps to the next. *)
LEMMA UnlinkedStep ==
  ASSUME Inv, OneDeleter, NEW t \in Thread,
         UNCHANGED <<head, node, str, live, map, path>>,
         \A u \in Thread \ {t} : Untouched(u) /\ seen'[u] = seen[u] /\ fresh'[u] = fresh[u],
         pc[t] \in Unlinking, pc'[t] \in Unlinking,
         key'[t] = key[t], p'[t] = p[t], slot'[t] = slot[t], seen'[t] = seen[t],
         pc'[t] = "d_free" => p[t] # NULL,
         \A r \in Thread \ {t} : Reading(r) /\ fresh[r] /\ Watched(r, t) => Watched(r, t)'
  PROVE  TreeInv'
<1>1. Gone(t)' = Gone(t) /\ Made(t)' = Made(t)
  BY DEF Gone, Made, Unlinked, Unpublished, Unlinking
<1>2. "delete" \in May[t]
  BY DEF Inv, TreeInv, DeleteOK
<1>3. \A d \in Thread : Gone(d) # {} => d = t
  BY <1>2, GoneFacts DEF OneDeleter
<1>4. Tree' = Tree
  BY DEF Tree
<1>5. DeleteOK(t)'
  BY ZenonT(40), <1>4 DEF DeleteOK, Inv, TreeInv, Sibling, Unlinking
<1>6. StartOK(t)' /\ InsertOK(t)'
  BY DEF StartOK, InsertOK, Unlinking
<1>7. ReaderOK(t)'
  BY WriterNoReader DEF Getting, Unlinking
<1> QED
  BY <1>1, <1>3, <1>5, <1>6, <1>7, QuietStep DEF Inv

(* DeleteSwap: the readers of the current lock are the ones the delete     *)
(* will wait for.                                                          *)
LEMMA DeleteSwapStep ==
  ASSUME Inv, OneDeleter, NEW t \in Thread, DeleteSwap(t)
  PROVE  TreeInv'
<1>1. /\ UNCHANGED <<head, node, str, live, map, path>>
      /\ \A u \in Thread \ {t} : Untouched(u) /\ seen'[u] = seen[u] /\ fresh'[u] = fresh[u]
      /\ pc[t] = "d_swap" /\ pc'[t] = "d_wait" /\ key'[t] = key[t] /\ p'[t] = p[t]
      /\ slot'[t] = slot[t] /\ seen'[t] = seen[t] /\ lock'[t] = cur
  BY DEF DeleteSwap, Goto, Inv, TypeInv, TypeOK, heap, history, Untouched
<1>2. \A r \in Thread \ {t} : Watched(r, t) => Watched(r, t)'
  BY <1>1 DEF Watched, Untouched
<1> QED
  BY <1>1, <1>2, UnlinkedStep DEF Unlinking

(* No reader of the old lock is left, in particular none on the blocks of  *)
(* this delete.                                                            *)
LEMMA DeleteWaitStep ==
  ASSUME Inv, OneDeleter, NEW t \in Thread, DeleteWait(t)
  PROVE  TreeInv'
<1>1. /\ UNCHANGED <<head, node, str, live, map, path>>
      /\ \A u \in Thread \ {t} : Untouched(u) /\ seen'[u] = seen[u] /\ fresh'[u] = fresh[u]
      /\ pc[t] = "d_wait" /\ pc'[t] = "d_unlock" /\ key'[t] = key[t] /\ p'[t] = p[t]
      /\ slot'[t] = slot[t] /\ seen'[t] = seen[t] /\ rd[lock[t]] = {}
  BY DEF DeleteWait, Goto, Inv, TypeInv, TypeOK, heap, sync, locals, history, Untouched
<1>2. ASSUME NEW r \in Thread, Reading(r), Watched(r, t) PROVE FALSE
  <2>1. lock[r] = lock[t]
    BY <1>1, <1>2 DEF Watched
  <2>2. r \in rd[lock[r]]
    BY <1>2 DEF Inv, LockInv, TypeInv, TypeOK
  <2> QED
    BY <1>1, <2>1, <2>2
<1> QED
  BY <1>1, <1>2, UnlinkedStep DEF Unlinking

(* DeleteUnlock: with p = NULL the delete returns.                         *)
LEMMA DeleteUnlockStep ==
  ASSUME Inv, OneDeleter, NEW t \in Thread, DeleteUnlock(t)
  PROVE  TreeInv'
<1>1. /\ UNCHANGED <<head, node, str, live, map, path, cur>>
      /\ \A u \in Thread \ {t} : Untouched(u) /\ seen'[u] = seen[u] /\ fresh'[u] = fresh[u]
      /\ pc[t] = "d_unlock" /\ seen'[t] = seen[t]
  BY DEF DeleteUnlock, Goto, Return, Inv, TypeInv, TypeOK, heap, locals, history, Untouched
<1>2. CASE p[t] = NULL
  <2>1. pc'[t] = "idle" /\ p'[t] = NULL /\ slot'[t] = HeadSlot
    BY <1>2 DEF DeleteUnlock, Return, Inv, TypeInv, TypeOK
  <2>2. Gone(t) = {} /\ Gone(t)' = {} /\ Made(t) = {} /\ Made(t)' = {}
    BY <1>1, <1>2, <2>1 DEF Gone, Unlinked, Unlinking, Made, Unpublished
  <2>3. \A r \in Thread \ {t} : \A d \in Thread :
          Reading(r) /\ fresh[r] /\ Gone(d) # {} /\ Watched(r, d) => Watched(r, d)'
    BY <1>1, <2>2 DEF Watched, Untouched
  <2>4. StartOK(t)' /\ InsertOK(t)' /\ DeleteOK(t)'
    BY <2>1 DEF StartOK, InsertOK, DeleteOK, Unlinking
  <2>5. ReaderOK(t)'
    BY <1>1, <2>1, WriterNoReader DEF Getting
  <2> QED
    BY <1>1, <2>2, <2>3, <2>4, <2>5, QuietStep DEF Inv
<1>3. CASE p[t] # NULL
  <2>1. pc'[t] \in {"d_cmp", "d_free"} /\ key'[t] = key[t] /\ p'[t] = p[t] /\ slot'[t] = slot[t]
    BY <1>3 DEF DeleteUnlock, Goto, Inv, TypeInv, TypeOK, locals
  <2>2. \A r \in Thread \ {t} : ~Watched(r, t)
    BY <1>1 DEF Watched
  <2> QED
    BY <1>1, <1>3, <2>1, <2>2, UnlinkedStep DEF Unlinking
<1> QED
  BY <1>2, <1>3

(* The comparison finds the side on which the string of the key is, which  *)
(* slot still says.                                                        *)
LEMMA DeleteCompareStep ==
  ASSUME Inv, OneDeleter, NEW t \in Thread, DeleteCompare(t)
  PROVE  TreeInv'
<1>1. /\ UNCHANGED <<head, node, str, live, map, path>>
      /\ \A u \in Thread \ {t} : Untouched(u) /\ seen'[u] = seen[u] /\ fresh'[u] = fresh[u]
      /\ pc[t] = "d_cmp" /\ pc'[t] = "d_free" /\ key'[t] = key[t] /\ p'[t] = p[t]
      /\ seen'[t] = seen[t]
      /\ slot'[t] = [in |-> p[t], dir |-> IF FirstIsMine(t) THEN 0 ELSE 1]
      /\ slot[t] \in Slot
  BY DEF DeleteCompare, Goto, Inv, TypeInv, TypeOK, heap, sync, history, Untouched
<1>2. /\ p[t] \in Node /\ slot[t].in = p[t]
      /\ node[p[t]].child[slot[t].dir] \in Str
      /\ str[node[p[t]].child[slot[t].dir]].key = key[t]
      /\ Sibling(slot[t]) \in Tree
      /\ Sibling(slot[t]) \in Str => str[Sibling(slot[t])].key # key[t]
  BY <1>1 DEF Inv, TypeInv, ArgsOK, TreeInv, DeleteOK, Unlinking
<1>3. Node \cap Str = {} /\ Sibling(slot[t]) \in Block /\ NULL \notin Node
  <2>1. Sibling(slot[t]) \in live
    BY <1>2 DEF Inv, TreeInv, HeapInv
  <2> QED
    BY <2>1, AddressAssumption DEF Inv, TypeInv, TypeOK
<1>4. slot[t].dir = IF FirstIsMine(t) THEN 0 ELSE 1
  <2>1. CASE slot[t].dir = 0
    BY <1>2, <1>3, <2>1 DEF FirstIsMine, IsInternal
  <2>2. CASE slot[t].dir = 1
    <3>1. Sibling(slot[t]) = node[p[t]].child[0]
      BY <1>2, <2>2 DEF Sibling
    <3>2. ~FirstIsMine(t)
      BY <1>2, <1>3, <3>1 DEF FirstIsMine, IsInternal, Block
    <3> QED
      BY <2>2, <3>2
  <2> QED
    BY <1>1, <2>1, <2>2 DEF Slot, Dirs
<1>5. slot'[t] = slot[t]
  BY <1>1, <1>2, <1>4 DEF Slot
<1>6. p[t] # NULL /\ \A r \in Thread \ {t} : ~Watched(r, t)
  BY <1>1, <1>2, <1>3 DEF Watched
<1> QED
  BY <1>1, <1>5, <1>6, UnlinkedStep DEF Unlinking

-----------------------------------------------------------------------------
(***************************************************************************)
(* The steps of critbit_insert that change the memory.                     *)
(***************************************************************************)

(* The history of the bindings grows.                                      *)
LEMMA BindGrows ==
  ASSUME TypeOK, NEW k \in Key, NEW v, Bind(k, v), NEW r \in Thread,
         Getting(r) => key[r] \in Key, ReaderOK(r)
  PROVE  /\ seen[r] \subseteq seen'[r] /\ (~Getting(r) => seen'[r] = {}) /\ fresh'[r] = fresh[r]
         /\ Getting(r) => map'[key[r]] \in seen'[r]
         /\ Getting(r) /\ key[r] = k => v \in seen'[r]
BY DEF Bind, TypeOK, ReaderOK

(* While a writer is in, and not past its store, the readers are on the    *)
(* tree.                                                                   *)
LEMMA FreshInTree ==
  ASSUME Inv, NEW t \in Thread, Writing(t), pc[t] \notin Unlinking,
         NEW r \in Thread, Reading(r), fresh[r]
  PROVE  /\ p[r] \in Tree \cup {NULL}
         /\ \A d \in Thread : p[r] \notin Gone(d)
         /\ pc[r] = "g_walk" /\ NULL \notin seen[r] => p[r] \in path[key[r]]
<1>1. \A d \in Thread : ~Watched(r, d)
  BY OneWriter DEF Inv, Watched, Unlinking
<1>2. p[r] \in Tree \cup {NULL}
  BY <1>1 DEF Inv, TreeInv, ReaderOK
<1>3. \A d \in Thread : p[r] \notin Gone(d)
  BY <1>2, GoneFacts
<1> QED
  BY <1>2, <1>3 DEF Inv, TreeInv, ReaderOK

(* The other threads when an insertion takes a step.                       *)
LEMMA InsertOthers ==
  ASSUME Inv, NEW t \in Thread, Writing(t), pc[t] \notin Unlinking, pc'[t] \notin Unlinking,
         NEW u \in Thread, u # t, Untouched(u),
         \A n \in Gone(u) \cap Node : node'[n] = node[n],
         \A s \in live \cap Str : str'[s] = str[s],
         Tree \subseteq Tree'
  PROVE  /\ StartOK(u)' /\ InsertOK(u)' /\ DeleteOK(u)'
         /\ Gone(u)' = Gone(u) /\ Made(u) = {} /\ Made(u)' = {}
<1>1. pc[u] \notin {"i_near", "i_slot", "w_unlock", "d_walk", "d_swap", "d_wait", "d_unlock"}
  BY OneWriter DEF Inv
<1>2. StartOK(u) /\ DeleteOK(u) /\ pc'[u] = pc[u] /\ p'[u] = p[u] /\ slot'[u] = slot[u] /\ key'[u] = key[u]
  BY DEF Inv, TreeInv, Untouched
<1>3. StartOK(u)' /\ InsertOK(u)' /\ Made(u) = {} /\ Made(u)' = {}
  BY <1>1, <1>2 DEF StartOK, InsertOK, Made, Unpublished
<1>4. CASE pc[u] \notin Unlinking \/ p[u] = NULL
  <2>1. Gone(u)' = Gone(u)
    BY <1>2, <1>4 DEF Gone, Unlinked
  <2>2. DeleteOK(u)'
    BY <1>1, <1>2, <1>4, AddressAssumption DEF DeleteOK, Unlinking
  <2> QED
    BY <1>3, <2>1, <2>2
<1>5. CASE pc[u] \in Unlinking /\ p[u] \in Str
  <2>0. p[u] \notin Node /\ p[u] # NULL
    BY <1>5, AddressAssumption
  <2>1. Gone(u) = {p[u]} /\ Gone(u)' = Gone(u)
    BY <1>2, <1>5, <2>0 DEF Gone, Unlinked
  <2>2. p[u] \in live
    BY <2>1, GoneFacts
  <2>3. DeleteOK(u)'
    BY <1>1, <1>2, <1>5, <2>0, <2>2 DEF DeleteOK, Unlinking
  <2> QED
    BY <1>3, <2>1, <2>3
<1>6. CASE pc[u] \in Unlinking /\ p[u] \in Node
  <2>0. p[u] \notin Str /\ p[u] # NULL
    BY <1>6, AddressAssumption
  <2>1. Gone(u) = {p[u], node[p[u]].child[slot[u].dir]}
    BY <1>6, <2>0 DEF Gone, Unlinked
  <2>2. node'[p[u]] = node[p[u]]
    BY <1>6, <2>1
  <2>3. Gone(u)' = Gone(u)
    BY <1>2, <1>6, <2>0, <2>2 DEF Gone, Unlinked
  <2>4. /\ slot[u].in = p[u]
        /\ node[p[u]].child[slot[u].dir] \in Str /\ node[p[u]].child[slot[u].dir] \in live
        /\ str[node[p[u]].child[slot[u].dir]].key = key[u]
        /\ Sibling(slot[u]) \in Tree /\ Sibling(slot[u]) \in live
        /\ Sibling(slot[u]) \in Str => str[Sibling(slot[u])].key # key[u]
    BY <1>2, <1>6, <2>1, GoneFacts DEF DeleteOK, Inv, TreeInv, HeapInv
  <2>5. Sibling(slot[u])' = Sibling(slot[u])
    BY <1>2, <2>2, <2>4 DEF Sibling
  <2>6. DeleteOK(u)'
    BY <1>1, <1>2, <1>6, <2>0, <2>2, <2>4, <2>5 DEF DeleteOK, Unlinking
  <2> QED
    BY <1>3, <2>3, <2>6
<1>7. p[u] \in Node \cup Str \cup {NULL}
  BY DEF Inv, TypeInv, TypeOK, Ptr, Block
<1> QED
  BY <1>4, <1>5, <1>6, <1>7

(* A reader beside an insertion that adds blocks to the tree: where it was *)
(* in the tree it still is.                                                *)
LEMMA InsertReader ==
  ASSUME Inv, NEW t \in Thread, Writing(t), pc[t] \notin Unlinking, pc'[t] \notin Unlinking,
         NEW r \in Thread, r # t, Untouched(r),
         Tree \subseteq Tree', \A k \in Key : path[k] \subseteq path'[k],
         \A d \in Thread : Gone(d)' = Gone(d),
         seen[r] \subseteq seen'[r], ~Getting(r) => seen'[r] = {}, fresh'[r] = fresh[r],
         Getting(r) => map'[key[r]] \in seen'[r]
  PROVE  ReaderOK(r)'
<1>1. Getting(r)' = Getting(r) /\ Reading(r)' = Reading(r) /\ pc'[r] = pc[r] /\ key'[r] = key[r]
      /\ p'[r] = p[r] /\ ret'[r] = ret[r]
  BY DEF Getting, Reading, Untouched
<1>2. (Getting(r) => map[key[r]] \in seen[r])' /\ (~Getting(r) => seen[r] = {})'
  BY <1>1
<1>3. ASSUME Reading(r), fresh[r]
      PROVE  /\ p[r] \in Tree' \cup {NULL}
             /\ \A d \in Thread : p[r] \notin Gone(d)'
             /\ pc[r] = "g_walk" /\ NULL \notin seen'[r] => p[r] \in path'[key[r]]
             /\ pc[r] = "g_unlock" => ret[r] \in seen'[r]
  <2>1. p[r] \in Tree' \cup {NULL} /\ \A d \in Thread : p[r] \notin Gone(d)'
    BY <1>3, FreshInTree
  <2>2. ASSUME pc[r] = "g_walk", NULL \notin seen'[r] PROVE p[r] \in path'[key[r]]
    <3>1. p[r] \in path[key[r]] /\ key[r] \in Key
      BY <1>3, <2>2, FreshInTree DEF Inv, TypeInv, ArgsOK
    <3> QED
      BY <3>1
  <2>3. pc[r] = "g_unlock" => ret[r] \in seen'[r]
    BY <1>3 DEF Inv, TreeInv, ReaderOK
  <2> QED
    BY <2>1, <2>2, <2>3
<1> QED
  BY <1>1, <1>2, <1>3 DEF ReaderOK

(* A step of an insertion hands blocks on, from malloc to the operation or *)
(* to the tree, and changes no block of the other operations.              *)
LEMMA InsertStep ==
  ASSUME Inv, NEW t \in Thread,
         pc[t] \in {"i_near", "i_slot"}, pc'[t] \in {"i_slot", "w_unlock"},
         \A u \in Thread \ {t} : Untouched(u),
         \A r \in Thread : /\ seen[r] \subseteq seen'[r] /\ (~Getting(r) => seen'[r] = {})
                           /\ fresh'[r] = fresh[r]
                           /\ (Getting(r) => map'[key[r]] \in seen'[r]),
         \A n \in (live \cap Node) \ (Tree \cup Made(t)) : node'[n] = node[n],
         \A s \in live \cap Str : str'[s] = str[s],
         Tree \subseteq Tree', \A k \in Key : path[k] \subseteq path'[k],
         live \subseteq live', Tree' \cup Made(t)' = Tree \cup Made(t) \cup (live' \ live),
         Made(t)' \cap Tree' = {},
         ShapeInv', InsertOK(t)'
  PROVE  TreeInv'
<1>1. Writing(t) /\ pc[t] \notin Unlinking /\ pc'[t] \notin Unlinking /\ ~Getting(t) /\ ~Getting(t)'
      /\ ~Reading(t)' /\ pc'[t] # "d_walk" /\ pc'[t] \notin {"idle", "g_rdlock", "g_head"}
  BY DEF Writing, Unlinking, Getting, Reading
<1>2. \A u \in Thread : \A n \in Gone(u) : n \in live /\ n \notin Tree /\ n \notin Made(t)
  BY DEF Inv, TreeInv, HeapInv
<1>3. \A u \in Thread \ {t} :
        /\ StartOK(u)' /\ InsertOK(u)' /\ DeleteOK(u)'
        /\ Gone(u)' = Gone(u) /\ Made(u) = {} /\ Made(u)' = {}
  BY <1>1, <1>2, InsertOthers
<1>4. Gone(t) = {} /\ Gone(t)' = {}
  BY <1>1 DEF Gone, Unlinked
<1>5. StartOK(t)' /\ DeleteOK(t)'
  BY <1>1 DEF StartOK, DeleteOK
<1>6. ReaderOK(t)'
  BY <1>1 DEF ReaderOK
<1>7. \A d \in Thread : Gone(d)' = Gone(d)
  BY <1>3, <1>4
<1>8. \A r \in Thread \ {t} : ReaderOK(r)'
  BY <1>1, <1>7, InsertReader
<1>9. HeapInv'
  <2>1. /\ Tree \subseteq live
        /\ \A u \in Thread : Gone(u) \subseteq live /\ Made(u) \subseteq live
        /\ \A b \in live : b \in Tree \/ \E u \in Thread : b \in Gone(u) \/ b \in Made(u)
    BY DEF Inv, TreeInv, HeapInv
  <2>2. \A b \in Tree' \cup Made(t)' : b \in live' /\ \A u \in Thread : b \notin Gone(u)
    BY <1>2, <2>1
  <2>3. \A b \in live' : b \in Tree' \/ \E u \in Thread : b \in Gone(u)' \/ b \in Made(u)'
    <3> SUFFICES ASSUME NEW b \in live', b \notin Tree' \cup Made(t)'
                 PROVE  \E u \in Thread : b \in Gone(u)'
      OBVIOUS
    <3>1. b \in live /\ b \notin Tree /\ b \notin Made(t)
      OBVIOUS
    <3> QED
      BY <1>3, <1>7, <2>1, <3>1
  <2>4. \A u \in Thread : Made(u)' \subseteq Made(t)'
    BY <1>3
  <2> QED
    BY <1>7, <2>1, <2>2, <2>3, <2>4 DEF HeapInv
<1> QED
  BY <1>3, <1>5, <1>6, <1>8, <1>9 DEF TreeInv

(* InsertFirst: the tree of one key.                                       *)
LEMMA InsertFirstStep ==
  ASSUME Inv, NEW t \in Thread, InsertFirst(t)
  PROVE  TreeInv'
<1> DEFINE k == key[t]
<1>1. /\ pc[t] = "i_near" /\ pc'[t] = "w_unlock" /\ p[t] = NULL /\ node' = node
      /\ \A u \in Thread \ {t} : Untouched(u)
      /\ Bind(k, val[t]) /\ k \in Key /\ val[t] \in Val /\ val[t] # NULL
  <2>1. pc[t] = "i_near" /\ k \in Key /\ val[t] \in Val /\ NULL \notin Val
    BY AddressAssumption DEF InsertFirst, Inv, TypeInv, ArgsOK, TreeInv, InsertOK
  <2> QED
    BY <2>1 DEF InsertFirst, Goto, Inv, TypeInv, TypeOK, locals, Untouched
<1>2. PICK s \in Str \ live : /\ live' = live \cup {s}
                              /\ str' = [str EXCEPT ![s] = [key |-> k, val |-> val[t]]]
                              /\ head' = s /\ path' = [path EXCEPT ![k] = {s}]
  BY DEF InsertFirst
<1>3. head = NULL /\ Bound = {} /\ Tree = {}
  <2>1. head = NULL
    BY <1>1 DEF Inv, TreeInv, InsertOK
  <2> QED
    BY <2>1, HeadInTree, AddressAssumption DEF Inv, TreeInv, TypeInv, Block
<1>4. TypeOK
  BY DEF Inv, TypeInv
<1>5. Bound' = {k} /\ map'[k] = val[t]
  BY <1>1, <1>3, <1>4 DEF Bound, Bind, TypeOK
<1>6. /\ path \in [Key -> SUBSET Ptr] /\ node \in [Node -> NodeRec]
      /\ \A l \in Key : path[l] = {}
  BY <1>3, <1>4 DEF TypeOK, Tree
<1>7. path'[k] = {s} /\ \A l \in Key : l # k => path'[l] = {}
  BY <1>1, <1>2, <1>6
<1>8. Shape(head, node, path, Bound)'
  BY <1>1, <1>2, <1>5, <1>6, <1>7, SingleShape
<1>9. Leaves'
  BY <1>2, <1>4, <1>5, <1>7 DEF Leaves, TypeOK
<1>10. Tree' = {s}
  BY <1>1, <1>7 DEF Tree
<1>11. Made(t) = {} /\ Made(t)' = {} /\ InsertOK(t)'
  BY <1>1 DEF Made, Unpublished, InsertOK
<1>12. \A r \in Thread : /\ seen[r] \subseteq seen'[r] /\ (~Getting(r) => seen'[r] = {})
                         /\ fresh'[r] = fresh[r]
                         /\ (Getting(r) => map'[key[r]] \in seen'[r])
  <2> SUFFICES ASSUME NEW r \in Thread
               PROVE  /\ seen[r] \subseteq seen'[r] /\ (~Getting(r) => seen'[r] = {})
                      /\ fresh'[r] = fresh[r]
                      /\ (Getting(r) => map'[key[r]] \in seen'[r])
    OBVIOUS
  <2>1. (Getting(r) => key[r] \in Key) /\ ReaderOK(r)
    BY DEF Inv, TypeInv, ArgsOK, Getting, TreeInv
  <2> QED
    BY <1>1, <1>4, <2>1, BindGrows
<1>13. \A l \in live \cap Str : str'[l] = str[l]
  BY <1>2, <1>4 DEF TypeOK
<1>14. Tree' \cup Made(t)' = Tree \cup Made(t) \cup (live' \ live)
  BY <1>2, <1>3, <1>10, <1>11
<1> QED
  BY <1>1, <1>2, <1>3, <1>6, <1>8, <1>9, <1>11, <1>12, <1>13, <1>14, InsertStep DEF ShapeInv

(* The bindings do not change while the new blocks are made.               *)
LEMMA InsertAllocStep ==
  ASSUME Inv, NEW t \in Thread, InsertAlloc(t)
  PROVE  TreeInv'
<1> DEFINE j == str[p[t]].key
           k == key[t]
           i == CritPos(j, k)
           d == Bit[j][i]
<1>1. /\ pc[t] = "i_near" /\ pc'[t] = "i_slot" /\ p[t] \in Str /\ p[t] \in live /\ j # k
      /\ \A u \in Thread \ {t} : Untouched(u)
      /\ UNCHANGED <<head, map, path, seen, fresh>>
      /\ key'[t] = k /\ val'[t] = val[t] /\ p'[t] = p[t] /\ slot'[t] = slot[t]
      /\ k \in Key /\ val[t] \in Val
  <2>1. pc[t] = "i_near" /\ k \in Key /\ val[t] \in Val
    BY AddressAssumption DEF InsertAlloc, Inv, TypeInv, ArgsOK, TreeInv, InsertOK
  <2> QED
    BY <2>1 DEF InsertAlloc, Goto, Inv, TypeInv, TypeOK, history, Untouched
<1>2. PICK n \in Node \ live, s \in Str \ live :
        /\ live' = live \cup {n, s}
        /\ str' = [str EXCEPT ![s] = [key |-> k, val |-> val[t]]]
        /\ node' = [node EXCEPT ![n] =
             [pos |-> i, child |-> [NoNode.child EXCEPT ![1 - d] = s]]]
        /\ made' = [made EXCEPT ![t] = n]
  BY DEF InsertAlloc
<1>3. TypeOK /\ ShapeInv /\ Tree \subseteq live /\ p[t] # NULL /\ Shape(head, node, path, Bound)
  BY <1>1, AddressAssumption DEF Inv, TypeInv, TreeInv, HeapInv, ShapeInv
<1>4. OnWalk(node, path, Bound, p[t], k) /\ slot[t] = HeadSlot
  BY <1>1, <1>3 DEF Inv, TreeInv, InsertOK
<1>5. p[t] \in Tree /\ (k \in Bound => p[t] \in path[k])
  BY <1>3, <1>4, TreePath DEF OnWalk, Follows
<1>6. j \in Bound /\ p[t] \in path[j] /\ j \in Key
  BY <1>1, <1>3, <1>5, TreeString DEF Bound
<1>7. k \notin Bound
  <2> SUFFICES ASSUME k \in Bound PROVE FALSE
    OBVIOUS
  <2>1. str[p[t]] = [key |-> k, val |-> map[k]]
    BY <1>1, <1>3, <1>5 DEF ShapeInv, Leaves
  <2>2. str[p[t]].key = k
    BY <2>1
  <2> QED
    BY <1>1, <2>2
<1>8. i \in Pos /\ FirstDiff(j, k, i) /\ d \in Dirs /\ Bit[k][i] \in Dirs
  BY <1>1, <1>6, CritPosType, KeyAssumption
<1>9. Bit[k][i] = 1 - d
  BY <1>8 DEF FirstDiff, Dirs
<1> HIDE DEF i, d
<1>10. node'[n].pos = i /\ node'[n].child[1 - d] = s /\ n \in Node /\ s \in Str
  <2>1. node'[n] = [pos |-> i, child |-> [NoNode.child EXCEPT ![1 - d] = s]]
    BY <1>2, <1>3 DEF TypeOK
  <2>2. NoNode.child = [e \in Dirs |-> NULL] /\ 1 - d \in Dirs
    BY <1>8 DEF NoNode, Dirs
  <2> QED
    BY <2>1, <2>2
<1>11. Toward(node', n, k) = s
  BY <1>9, <1>10 DEF Toward
<1>12. \A m \in live \cap Node : node'[m] = node[m]
  BY <1>2, <1>3 DEF TypeOK
<1>13. \A l \in live \cap Str : str'[l] = str[l]
  BY <1>2, <1>3 DEF TypeOK
<1>14. str'[s] = [key |-> k, val |-> val[t]] /\ made'[t] = n
  BY <1>2, <1>3 DEF TypeOK
<1>15. Bound' = Bound /\ Tree' = Tree
  BY <1>1 DEF Bound, Tree
<1>16. \A l \in Bound : \A m \in path[l] \cap Node : node'[m] = node[m]
  BY <1>3, <1>12, TreePath
<1>17. Shape(head, node, path, Bound)'
  <2>1. node' \in [Node -> NodeRec]
    <3>1. [pos |-> i, child |-> [NoNode.child EXCEPT ![1 - d] = s]] \in NodeRec
      BY <1>8, <1>10, ConstTypes DEF NodeRec, Ptr, Block
    <3> QED
      BY <1>2, <1>3, <3>1 DEF TypeOK
  <2>2. Shape(head, node', path, Bound)
    BY <1>3, <1>16, <2>1, SameShape
  <2> QED
    BY <1>1, <1>15, <2>2
<1>18. Leaves'
  BY <1>1, <1>3, <1>13, <1>15, TreePath DEF ShapeInv, Leaves
<1>19. Made(t) = {} /\ Made(t)' = {n, s}
  BY <1>1, <1>11, <1>14 DEF Made, Unpublished
<1>20. OnWalk(node', path, Bound, p[t], k)
  BY <1>1, <1>4, <1>16, SameWalk DEF Block
<1>21. InsertOK(t)'
  <2>1. str'[p[t]] = str[p[t]]
    BY <1>1, <1>13
  <2>2. /\ p'[t] \in Str /\ OnWalk(node', path', Bound', p'[t], key'[t])
        /\ str'[p'[t]].key \in Bound' /\ p'[t] \in path'[str'[p'[t]].key]
        /\ key'[t] \notin Bound'
    BY <1>1, <1>6, <1>7, <1>15, <1>20, <2>1
  <2>3. FirstDiff(str'[p'[t]].key, key'[t], node'[made'[t]].pos)
    BY <1>1, <1>8, <1>10, <1>14, <2>1
  <2>4. Toward(node', made'[t], key'[t]) = s
    BY <1>1, <1>11, <1>14
  <2> QED
    BY <1>1, <1>4, <1>14, <1>10, <2>2, <2>3, <2>4 DEF InsertOK
<1>22. \A r \in Thread : /\ seen[r] \subseteq seen'[r] /\ (~Getting(r) => seen'[r] = {})
                         /\ fresh'[r] = fresh[r]
                         /\ (Getting(r) => map'[key[r]] \in seen'[r])
  BY <1>1 DEF Inv, TreeInv, ReaderOK
<1>23. Tree' \cup Made(t)' = Tree \cup Made(t) \cup (live' \ live) /\ Made(t)' \cap Tree' = {}
  BY <1>2, <1>3, <1>15, <1>19
<1> QED
  BY <1>1, <1>2, <1>12, <1>13, <1>15, <1>17, <1>18, <1>21, <1>22, <1>23, InsertStep DEF ShapeInv

(* The contents of the nodes after one pointer of them is set, and after a *)
(* store to a slot.                                                        *)
NodeSet(ns, m, e, q, ns2) == ns2 = [ns EXCEPT ![m].child[e] = q]

(* A child pointer of one node is replaced.                                *)
LEMMA NodeUpdate ==
  ASSUME NEW ns \in [Node -> NodeRec], NEW m \in Node, NEW e \in Dirs, NEW q \in Ptr,
         NEW ns2, NodeSet(ns, m, e, q, ns2)
  PROVE  /\ ns2 \in [Node -> NodeRec]
         /\ \A n \in Node :
              /\ ns2[n].pos = ns[n].pos
              /\ \A d \in Dirs : ns2[n].child[d] = IF n = m /\ d = e THEN q ELSE ns[n].child[d]
<1> DEFINE r == [ns[m] EXCEPT !.child[e] = q]
<1>1. ns2 = [ns EXCEPT ![m] = r]
  BY DEF NodeSet
<1>2. ns[m] \in NodeRec
  OBVIOUS
<1>3. r.pos = ns[m].pos /\ \A d \in Dirs : r.child[d] = IF d = e THEN q ELSE ns[m].child[d]
  BY <1>2 DEF NodeRec
<1>4. r \in NodeRec
  BY <1>2 DEF NodeRec
<1> HIDE DEF r
<1>5. \A n \in Node : ns2[n] = IF n = m THEN r ELSE ns[n]
  BY <1>1
<1>6. ASSUME NEW n \in Node, NEW d \in Dirs
      PROVE  /\ ns2[n].pos = ns[n].pos
             /\ ns2[n].child[d] = IF n = m /\ d = e THEN q ELSE ns[n].child[d]
  BY <1>3, <1>5
<1> QED
  BY <1>1, <1>4, <1>6

(* A store through a slot changes the head or one child pointer.           *)
LEMMA StoreNodes ==
  ASSUME NEW s \in Slot, NEW ptr \in Ptr, NEW ns \in [Node -> NodeRec], Store(s, ptr, ns)
  PROVE  /\ head' = IF s.in = NULL THEN ptr ELSE head
         /\ \A n \in Node :
              /\ node'[n].pos = ns[n].pos
              /\ \A d \in Dirs :
                   node'[n].child[d] = IF n = s.in /\ d = s.dir THEN ptr ELSE ns[n].child[d]
<1>1. head' = IF s.in = NULL THEN ptr ELSE head
  BY DEF Store
<1>2. CASE s.in = NULL
  <2>1. node' = ns /\ NULL \notin Node
    BY <1>2, AddressAssumption DEF Store
  <2> QED
    BY <1>1, <1>2, <2>1
<1>3. CASE s.in # NULL
  <2>1. s.in \in Node /\ s.dir \in Dirs
    BY <1>3 DEF Slot
  <2>2. NodeSet(ns, s.in, s.dir, ptr, node')
    BY <1>3 DEF Store, NodeSet
  <2> QED
    BY <1>1, <2>1, <2>2, NodeUpdate
<1> QED
  BY <1>2, <1>3

(* The store of critbit_insert is the one of InsertionShape.               *)
LEMMA LinkIsInsertion ==
  ASSUME Inv, TypeOK', NEW t \in Thread, InsertLink(t)
  PROVE  LET m == made[t]
         IN  /\ Insertion(head, node, path, Bound, head', node', path', Bound', str[p[t]].key, key[t],
                          m, Toward(node, m, key[t]), node[m].pos, slot[t].in, At(slot[t]))
             /\ \A n \in Node : n # m /\ n # slot[t].in => node'[n] = node[n]
             /\ map'[key[t]] = val[t] /\ \A l \in Key : l # key[t] => map'[l] = map[l]
<1> DEFINE m == made[t]
           k == key[t]
           j == str[p[t]].key
           i == node[m].pos
           s == Toward(node, m, k)
           x == slot[t].in
           q == At(slot[t])
           e == 1 - GetDirection(m, k)
           ns == [node EXCEPT ![m].child[e] = q]
<1>1. /\ pc[t] = "i_slot" /\ ~(q \in Node /\ node[q].pos <= i)
      /\ Store(slot[t], m, ns) /\ Bind(k, val[t])
      /\ path' = [l \in Key |->
           IF l = k
           THEN {n \in path[j] \cap Node : node[n].pos < i} \cup {m, node[m].child[1 - e]}
           ELSE IF q \in path[l] THEN path[l] \cup {m} ELSE path[l]]
  BY DEF InsertLink, GoesBelow, IsInternal
<1>2. /\ j \in Bound /\ k \in Key /\ k \notin Bound /\ m \in Node
      /\ q \in path[j]
      /\ \/ x = NULL /\ q = head
         \/ /\ x \in path[j] \cap Node /\ node[x].pos < i
            /\ q = Toward(node, x, j) /\ slot[t].dir = Bit[j][node[x].pos]
      /\ \A n \in path[j] \cap Node : Bit[j][node[n].pos] = Bit[k][node[n].pos]
      /\ FirstDiff(j, k, i)
  BY <1>1, SlotFacts
<1>3. /\ s \in Str /\ val[t] \in Val /\ TypeOK /\ slot[t] \in Slot /\ node \in [Node -> NodeRec]
      /\ i \in Pos /\ j \in Key
  BY <1>1, <1>2 DEF Inv, TypeInv, TypeOK, TreeInv, InsertOK, NodeRec, Bound
<1>4. Made(t) = {m, s} /\ Made(t) \cap Tree = {}
  BY <1>1 DEF Made, Unpublished, Inv, TreeInv, HeapInv
<1>5. \A l \in Bound : m \notin path[l] /\ s \notin path[l]
  BY <1>4, TreePath DEF Inv, TreeInv
<1>6. Bit[k][i] \in Dirs /\ Bit[j][i] \in Dirs /\ e = Bit[j][i] /\ 1 - e = Bit[k][i] /\ e # Bit[k][i]
  <2>1. Bit[k][i] \in Dirs /\ Bit[j][i] \in Dirs
    BY <1>2, <1>3, KeyAssumption
  <2>2. Bit[j][i] # Bit[k][i] /\ e = 1 - Bit[k][i]
    BY <1>2 DEF FirstDiff, GetDirection
  <2> QED
    BY <2>1, <2>2 DEF Dirs
<1> HIDE DEF e
<1>7. /\ q \in Ptr /\ NodeSet(node, m, e, q, ns) /\ m \in Ptr /\ m \in Node /\ e \in Dirs
      /\ node \in [Node -> NodeRec]
  BY <1>2, <1>3, <1>6, AtType DEF Ptr, Block, NodeSet
<1> HIDE DEF ns, q, m
<1>8. /\ ns \in [Node -> NodeRec]
      /\ \A n \in Node :
           /\ ns[n].pos = node[n].pos
           /\ \A d \in Dirs : ns[n].child[d] = IF n = m /\ d = e THEN q ELSE node[n].child[d]
  BY <1>7, NodeUpdate
<1>9. /\ head' = IF x = NULL THEN m ELSE head
      /\ \A n \in Node :
           /\ node'[n].pos = ns[n].pos
           /\ \A d \in Dirs :
                node'[n].child[d] = IF n = x /\ d = slot[t].dir THEN m ELSE ns[n].child[d]
  BY <1>1, <1>3, <1>7, <1>8, StoreNodes
<1>10. x # m /\ NULL \notin Node
  BY <1>2, <1>5, AddressAssumption
<1>11. node'[m].pos = i /\ node'[m].child[Bit[k][i]] = s /\ node'[m].child[Bit[j][i]] = q
  <2>1. s = node[m].child[Bit[k][i]]
    BY DEF Toward
  <2>2. ns[m].pos = i /\ node'[m].pos = ns[m].pos
    BY <1>7, <1>8, <1>9
  <2> HIDE DEF s, i, x, k, j
  <2>3. \A d \in Dirs : node'[m].child[d] = IF d = e THEN q ELSE node[m].child[d]
    BY <1>7, <1>8, <1>9, <1>10
  <2> QED
    BY <1>6, <2>1, <2>2, <2>3
<1>12. \A n \in Node \ {m} :
         /\ node'[n].pos = node[n].pos
         /\ \A d \in Dirs :
              node'[n].child[d] = IF n = x /\ d = Bit[j][node[x].pos] THEN m ELSE node[n].child[d]
  <2> HIDE DEF x, j, i
  <2> SUFFICES ASSUME NEW n \in Node \ {m}, NEW d \in Dirs
               PROVE  /\ node'[n].pos = node[n].pos
                      /\ node'[n].child[d] =
                           IF n = x /\ d = Bit[j][node[x].pos] THEN m ELSE node[n].child[d]
    BY <1>8, <1>9
  <2>1. node'[n].pos = node[n].pos /\ ns[n].child[d] = node[n].child[d]
    BY <1>8, <1>9
  <2>2. node'[n].child[d] = IF n = x /\ d = slot[t].dir THEN m ELSE node[n].child[d]
    BY <1>9, <2>1
  <2>3. n = x => slot[t].dir = Bit[j][node[x].pos]
    BY <1>2, <1>10
  <2> QED
    BY <2>1, <2>2, <2>3
<1>13. \A n \in Node : n # m /\ n # x => node'[n] = node[n]
  <2> SUFFICES ASSUME NEW n \in Node, n # m, n # x PROVE node'[n] = node[n]
    OBVIOUS
  <2>1. ns[n] = node[n]
    BY <1>2, <1>3, <1>7 DEF NodeSet
  <2>2. CASE x = NULL
    BY <1>1, <2>1, <2>2 DEF Store
  <2>3. CASE x # NULL
    <3>1. node' = [ns EXCEPT ![x].child[slot[t].dir] = m]
      BY <1>1, <2>3 DEF Store
    <3> QED
      BY <1>8, <2>1, <3>1
  <2> QED
    BY <2>2, <2>3
<1>14. map' = [map EXCEPT ![k] = val[t]] /\ val[t] # NULL
  BY <1>1, <1>3, AddressAssumption DEF Bind
<1>15. map'[k] = val[t] /\ \A l \in Key : l # k => map'[l] = map[l]
  BY <1>2, <1>3, <1>14 DEF TypeOK
<1>16. Bound' = Bound \cup {k}
  BY <1>2, <1>14, <1>15 DEF Bound
<1>17. node' \in [Node -> NodeRec]
  BY DEF TypeOK
<1>18. path' = [l \in Key |->
              IF l = k THEN {n \in path[j] \cap Node : node[n].pos < i} \cup {m, s}
              ELSE IF q \in path[l] THEN path[l] \cup {m} ELSE path[l]]
  <2>1. node[m].child[1 - e] = s
    BY <1>6 DEF Toward
  <2> HIDE DEF s, i, j, k
  <2> QED
    BY <1>1, <2>1, Zenon
<1>19. Insertion(head, node, path, Bound, head', node', path', Bound', j, k, m, s, i, x, q)
  <2> HIDE DEF s, i, x, j, k
  <2> QED
    BY <1>1, <1>2, <1>3, <1>5, <1>9, <1>11, <1>12, <1>16, <1>17, <1>18 DEF Insertion
<1> QED
  BY <1>13, <1>15, <1>19 DEF m, q

(* InsertLink: the new node is in the tree and every old block still is.   *)
LEMMA InsertLinkStep ==
  ASSUME Inv, TypeOK', NEW t \in Thread, InsertLink(t)
  PROVE  TreeInv'
<1> DEFINE m == made[t]
           k == key[t]
           j == str[p[t]].key
           s == Toward(node, m, k)
           i == node[m].pos
           x == slot[t].in
           q == At(slot[t])
<1>1. /\ pc[t] = "i_slot" /\ pc'[t] = "w_unlock" /\ UNCHANGED <<str, live>>
      /\ \A u \in Thread \ {t} : Untouched(u)
      /\ Bind(k, val[t]) /\ k \in Key
  BY DEF InsertLink, Goto, Inv, TypeInv, TypeOK, ArgsOK, locals, Untouched
<1>2. /\ Insertion(head, node, path, Bound, head', node', path', Bound', j, k, m, s, i, x, q)
      /\ \A n \in Node : n # m /\ n # x => node'[n] = node[n]
      /\ map'[k] = val[t] /\ \A l \in Key : l # k => map'[l] = map[l]
  BY LinkIsInsertion
<1>3. /\ TypeOK /\ Shape(head, node, path, Bound) /\ Leaves /\ ShapeInv
      /\ s \in Str /\ str[s] = [key |-> k, val |-> val[t]]
      /\ \A l \in Key \ Bound : path[l] = {}
      /\ Bound \subseteq Key
  BY <1>1 DEF Inv, TypeInv, TreeInv, ShapeInv, InsertOK, Shape, Rooted
<1>4. Made(t) = {m, s} /\ Made(t)' = {} /\ Made(t) \subseteq live /\ Made(t) \cap Tree = {}
  BY <1>1 DEF Made, Unpublished, Inv, TreeInv, HeapInv
<1>5. x = NULL \/ x \in Tree
  BY <1>1, SlotFacts, TreePath DEF Inv, TreeInv
<1> HIDE DEF m, k, j, s, i, x, q
<1>6. /\ Shape(head', node', path', Bound')
      /\ \A l \in Bound : path[l] \subseteq path'[l]
      /\ m \in path'[k] /\ path'[k] \cap Str = {s}
      /\ \A l \in Bound' : \A c \in path'[l] : c = m \/ c = s \/ \E g \in Bound : c \in path[g]
  BY <1>2, <1>3, InsertionShape, InsertionTree
<1>7. /\ m \in Node /\ k \notin Bound /\ Bound' = Bound \cup {k} /\ Node \cap Str = {}
      /\ \A l \in Bound : path'[l] \subseteq path[l] \cup {m}
  BY <1>2, <1>3, AddressAssumption DEF Insertion
<1>8. Leaves'
  <2> SUFFICES ASSUME NEW l \in Bound', NEW c \in path'[l] \cap Str
               PROVE  str[c] = [key |-> l, val |-> map'[l]]
    BY <1>1 DEF Leaves
  <2>1. CASE l = k
    <3>1. c = s
      BY <1>6, <2>1
    <3> QED
      BY <1>2, <1>3, <2>1, <3>1
  <2>2. CASE l # k
    <3>1. l \in Bound /\ c \in path[l] \cap Str
      BY <1>7, <2>2
    <3>2. str[c] = [key |-> l, val |-> map[l]]
      BY <1>3, <3>1 DEF Leaves
    <3> QED
      BY <1>2, <1>3, <2>2, <3>1, <3>2
  <2> QED
    BY <2>1, <2>2
<1>9. \A l \in Key : path[l] \subseteq path'[l]
  BY <1>3, <1>6
<1>10. \A l \in Key : l \notin Bound' => path'[l] = {}
  BY <1>6 DEF Shape, Rooted
<1>11. Tree' = Tree \cup {m, s}
  <2>1. \A c : c \in Tree' <=> \E l \in Bound' : c \in path'[l]
    BY <1>6, <1>10 DEF Tree, Shape
  <2>2. \A c : c \in Tree <=> \E l \in Bound : c \in path[l]
    BY <1>3, TreePath
  <2>3. s \in path'[k] /\ k \in Bound'
    BY <1>6, <1>7
  <2>4. \A c : c \in Tree' => c \in Tree \cup {m, s}
    BY <1>6, <2>1, <2>2
  <2>5. \A c \in Tree \cup {m, s} : c \in Tree'
    BY <1>6, <1>7, <2>1, <2>2, <2>3
  <2> QED
    BY <2>4, <2>5
<1>12. \A r \in Thread : /\ seen[r] \subseteq seen'[r] /\ (~Getting(r) => seen'[r] = {})
                         /\ fresh'[r] = fresh[r]
                         /\ (Getting(r) => map'[key[r]] \in seen'[r])
  <2> SUFFICES ASSUME NEW r \in Thread
               PROVE  /\ seen[r] \subseteq seen'[r] /\ (~Getting(r) => seen'[r] = {})
                      /\ fresh'[r] = fresh[r]
                      /\ (Getting(r) => map'[key[r]] \in seen'[r])
    OBVIOUS
  <2>1. (Getting(r) => key[r] \in Key) /\ ReaderOK(r)
    BY DEF Inv, TypeInv, ArgsOK, Getting, TreeInv
  <2> QED
    BY <1>1, <1>3, <2>1, BindGrows
<1>13. \A n \in (live \cap Node) \ (Tree \cup Made(t)) : node'[n] = node[n]
  BY <1>2, <1>4, <1>5, AddressAssumption
<1>14. InsertOK(t)'
  BY <1>1 DEF InsertOK
<1>15. Tree' \cup Made(t)' = Tree \cup Made(t) \cup (live' \ live) /\ Tree \subseteq Tree'
  BY <1>1, <1>4, <1>11
<1> QED
  BY <1>1, <1>4, <1>6, <1>8, <1>9, <1>12, <1>13, <1>14, <1>15, InsertStep DEF ShapeInv

-----------------------------------------------------------------------------
(***************************************************************************)
(* The store of critbit_delete.                                            *)
(***************************************************************************)

(* The blocks leave the tree and become those of the delete.  The readers  *)
(* on them hold the current lock, the one that the delete will wait for,   *)
(* and those of other keys are about to come back to the tree.             *)
LEMMA UnlinkStep ==
  ASSUME Inv, OneDeleter, NEW t \in Thread, NEW k \in Key, NEW G,
         pc[t] = "d_walk", pc'[t] = "d_swap", key[t] = k, key'[t] = k,
         \A u \in Thread \ {t} : Untouched(u),
         UNCHANGED <<str, live, cur>>, Bind(k, NULL),
         Gone(t)' = G, G \subseteq Tree, Tree' = Tree \ G,
         \A l \in Bound \ {k} : /\ path[l] \ G \subseteq path'[l]
                                /\ \A b \in path[l] \cap G : b \in Node /\ Toward(node', b, l) \in path'[l],
         \A s \in G \cap Str : str[s].val = map[k],
         ShapeInv', DeleteOK(t)'
  PROVE  TreeInv'
<1>1. /\ Writing(t) /\ pc[t] \notin Unlinking /\ ~Getting(t) /\ ~Getting(t)' /\ ~Reading(t)'
      /\ "delete" \in May[t] /\ Gone(t) = {} /\ Made(t) = {} /\ Made(t)' = {}
  BY DEF Writing, Unlinking, Getting, Reading, Inv, TreeInv, DeleteOK, Gone, Unlinked, Made, Unpublished
<1>2. ASSUME NEW u \in Thread \ {t}
      PROVE  /\ pc[u] \notin Unlinking \cup {"i_near", "i_slot", "w_unlock", "d_walk"}
             /\ Gone(u) = {} /\ Made(u) = {} /\ Gone(u)' = {} /\ Made(u)' = {}
             /\ StartOK(u)' /\ InsertOK(u)' /\ DeleteOK(u)'
  <2>1. pc[u] \notin Unlinking \cup {"i_near", "i_slot", "w_unlock", "d_walk"}
    <3>1. pc[u] \notin Unlinking
      BY <1>1, <1>2 DEF Inv, TreeInv, DeleteOK, OneDeleter
    <3>2. pc[u] \notin {"i_near", "i_slot", "w_unlock", "d_walk"}
      BY <1>1, <1>2, OneWriter DEF Inv
    <3> QED
      BY <3>1, <3>2
  <2>2. StartOK(u) /\ pc'[u] = pc[u] /\ p'[u] = p[u] /\ slot'[u] = slot[u]
    BY <1>2 DEF Inv, TreeInv, Untouched
  <2>3. Gone(u) = {} /\ Made(u) = {} /\ Gone(u)' = {} /\ Made(u)' = {}
    BY <2>1, <2>2 DEF Gone, Unlinked, Made, Unpublished
  <2>4. StartOK(u)' /\ InsertOK(u)' /\ DeleteOK(u)'
    <3>1. pc'[u] \notin {"i_near", "i_slot"} /\ pc'[u] \notin Unlinking \cup {"d_walk"} /\ pc'[u] # "d_free"
      BY <2>1, <2>2 DEF Unlinking
    <3> QED
      BY <2>2, <3>1 DEF StartOK, InsertOK, DeleteOK
  <2> QED
    BY <2>1, <2>3, <2>4
<1>3. HeapInv'
  <2>1. live = Tree
    BY <1>1, <1>2 DEF Inv, TreeInv, HeapInv
  <2>2. \A u \in Thread : Made(u)' = {} /\ (u # t => Gone(u)' = {})
    BY <1>1, <1>2
  <2> QED
    BY <2>1, <2>2 DEF HeapInv
<1>4. TypeOK /\ \A r \in Thread : (Getting(r) => key[r] \in Key) /\ ReaderOK(r)
  BY DEF Inv, TypeInv, ArgsOK, Getting, TreeInv
<1>5. \A r \in Thread : /\ seen[r] \subseteq seen'[r] /\ (~Getting(r) => seen'[r] = {})
                        /\ fresh'[r] = fresh[r]
                        /\ (Getting(r) => map'[key[r]] \in seen'[r])
                        /\ (Getting(r) /\ key[r] = k => NULL \in seen'[r])
  <2> SUFFICES ASSUME NEW r \in Thread
               PROVE  /\ seen[r] \subseteq seen'[r] /\ (~Getting(r) => seen'[r] = {})
                      /\ fresh'[r] = fresh[r]
                      /\ (Getting(r) => map'[key[r]] \in seen'[r])
                      /\ (Getting(r) /\ key[r] = k => NULL \in seen'[r])
    OBVIOUS
  <2> QED
    BY <1>4, BindGrows
<1>6. StartOK(t)' /\ InsertOK(t)' /\ ReaderOK(t)'
  BY <1>1, <1>5 DEF StartOK, InsertOK, ReaderOK
<1>7. ASSUME NEW r \in Thread \ {t} PROVE ReaderOK(r)'
  <2>1. /\ Getting(r)' = Getting(r) /\ Reading(r)' = Reading(r) /\ pc'[r] = pc[r] /\ key'[r] = key[r]
        /\ p'[r] = p[r] /\ ret'[r] = ret[r] /\ lock'[r] = lock[r]
    BY <1>7 DEF Getting, Reading, Untouched
  <2>2. (Getting(r) => map[key[r]] \in seen[r])' /\ (~Getting(r) => seen[r] = {})'
    BY <1>5, <2>1
  <2>3. ASSUME Reading(r), fresh[r]
        PROVE  /\ p[r] \in Tree' \cup {NULL} \/ (Watched(r, t)' /\ p[r] \in G)
               /\ p[r] \in G /\ key[r] = k => \A s \in G \cap Str : str[s].val \in seen'[r]
               /\ pc[r] = "g_walk" /\ NULL \notin seen'[r] =>
                    \/ p[r] \in path'[key[r]]
                    \/ /\ p[r] \in Node /\ p[r] \in G
                       /\ Toward(node', p[r], key[r]) \in path'[key[r]]
               /\ pc[r] = "g_unlock" => ret[r] \in seen'[r]
    <3>1. /\ p[r] \in Tree \cup {NULL}
          /\ pc[r] = "g_walk" /\ NULL \notin seen[r] => p[r] \in path[key[r]]
      BY <1>1, <2>3, FreshInTree
    <3>2. lock[r] = cur
      <4>1. \A d \in Thread : pc[d] # "d_wait"
        BY <1>1, <1>2 DEF Unlinking
      <4> QED
        BY <2>3, <4>1 DEF Inv, LockInv, GracePeriod
    <3>3. Watched(r, t)'
      BY <2>1, <3>2 DEF Watched
    <3>4. Getting(r) /\ key[r] \in Key /\ map[key[r]] \in seen[r]
      BY <1>4, <2>3 DEF Getting, Reading, ReaderOK
    <3>5. ASSUME pc[r] = "g_walk", NULL \notin seen'[r]
          PROVE  \/ p[r] \in path'[key[r]]
                 \/ /\ p[r] \in Node /\ p[r] \in G
                    /\ Toward(node', p[r], key[r]) \in path'[key[r]]
      <4>1. key[r] # k /\ p[r] \in path[key[r]]
        BY <1>5, <1>7, <3>1, <3>4, <3>5
      <4>2. key[r] \in Bound
        BY <3>4, <4>1 DEF Inv, TreeInv, ShapeInv, Shape, Rooted
      <4> QED
        BY <4>1, <4>2
    <3>6. pc[r] = "g_unlock" => ret[r] \in seen'[r]
      BY <1>4, <1>5, <1>7, <2>3 DEF ReaderOK
    <3>7. p[r] \in G /\ key[r] = k => \A s \in G \cap Str : str[s].val \in seen'[r]
      BY <1>5, <1>7, <3>4
    <3> QED
      BY <3>1, <3>3, <3>5, <3>6, <3>7
  <2>4. \A d \in Thread : d # t => Gone(d)' = {}
    BY <1>2
  <2>5. fresh'[r] = fresh[r]
    BY <1>5, <1>7
  <2> QED
    BY <2>1, <2>2, <2>3, <2>4, <2>5 DEF ReaderOK
<1> QED
  BY <1>2, <1>3, <1>6, <1>7 DEF TreeInv

(* What a delete that has found its key knows of the tree.                 *)
LEMMA UnlinkFacts ==
  ASSUME Inv, NEW t \in Thread, DeleteUnlink(t)
  PROVE  /\ pc[t] = "d_walk" /\ pc'[t] = "d_swap" /\ key'[t] = key[t] /\ slot'[t] = slot[t]
         /\ \A u \in Thread \ {t} : Untouched(u)
         /\ UNCHANGED <<str, live, cur>> /\ Bind(key[t], NULL)
         /\ p[t] \in Str /\ str[p[t]].key = key[t] /\ key[t] \in Bound /\ key[t] \in Key
         /\ p[t] \in path[key[t]] /\ str[p[t]].val = map[key[t]]
         /\ Bound' = Bound \ {key[t]}
         /\ \A l \in Key : l # key[t] => map'[l] = map[l]
         /\ path' = [l \in Key |-> IF l = key[t] THEN {} ELSE path[l] \ {slot[t].in}]
<1>1. /\ pc[t] = "d_walk" /\ pc'[t] = "d_swap" /\ key'[t] = key[t] /\ slot'[t] = slot[t]
      /\ \A u \in Thread \ {t} : Untouched(u)
      /\ UNCHANGED <<str, live, cur>> /\ Bind(key[t], NULL)
      /\ p[t] \in Str /\ str[p[t]].key = key[t]
      /\ path' = [l \in Key |-> IF l = key[t] THEN {} ELSE path[l] \ {slot[t].in}]
  BY DEF DeleteUnlink, Goto, Inv, TypeInv, TypeOK, sync, Untouched
<1>2. key[t] \in Key /\ ShapeInv /\ TypeOK /\ p[t] # NULL
  BY <1>1, AddressAssumption DEF Inv, TypeInv, ArgsOK, TreeInv
<1>3. p[t] \in Tree
  BY <1>1, <1>2, TreePath DEF Inv, TreeInv, DeleteOK, Follows
<1>4. /\ key[t] \in Bound /\ p[t] \in path[key[t]] /\ str[p[t]].val = map[key[t]]
  BY <1>1, <1>2, <1>3, TreeString
<1>5. map'[key[t]] = NULL /\ \A l \in Key : l # key[t] => map'[l] = map[l]
  BY <1>1, <1>2 DEF Bind, TypeOK
<1>6. Bound' = Bound \ {key[t]}
  BY <1>2, <1>5 DEF Bound
<1> QED
  BY <1>1, <1>2, <1>4, <1>5, <1>6

(* The string of the only key is the head: the tree is empty afterwards.   *)
LEMMA UnlinkLastStep ==
  ASSUME Inv, OneDeleter, TypeOK', NEW t \in Thread, DeleteUnlink(t), slot[t].in = NULL
  PROVE  TreeInv'
<1> DEFINE k == key[t]
<1>1. /\ pc[t] = "d_walk" /\ pc'[t] = "d_swap" /\ key'[t] = k /\ slot'[t] = slot[t]
      /\ \A u \in Thread \ {t} : Untouched(u)
      /\ UNCHANGED <<str, live, cur>> /\ Bind(k, NULL)
      /\ p[t] \in Str /\ str[p[t]].key = k /\ k \in Bound /\ k \in Key
      /\ p[t] \in path[k] /\ str[p[t]].val = map[k]
      /\ Bound' = Bound \ {k}
      /\ path' = [l \in Key |-> IF l = k THEN {} ELSE path[l] \ {slot[t].in}]
  BY UnlinkFacts
<1>2. head' = NULL /\ node' = node /\ p' = p
  BY DEF DeleteUnlink
<1>3. p[t] = head /\ p[t] \notin Node /\ NULL \notin Node /\ NULL \notin Str
  BY <1>1, AddressAssumption DEF Inv, TreeInv, DeleteOK, HeadSlot
<1>4. Shape(head, node, path, Bound) /\ ShapeInv /\ node \in [Node -> NodeRec]
  BY DEF Inv, TreeInv, ShapeInv, TypeInv, TypeOK
<1>5. Bound = {k}
  <2> SUFFICES ASSUME NEW l \in Bound PROVE l = k
    BY <1>1
  <2>1. p[t] \in path[l]
    BY <1>3, <1>4 DEF Shape, Rooted
  <2> QED
    BY <1>1, <1>4, <2>1 DEF Shape, OwnString
<1>6. path[k] = {p[t]}
  <2>1. path[k] \cap Node = {} /\ path[k] \subseteq Block
    BY <1>1, <1>3, <1>4 DEF Shape, HeadFirst, Rooted
  <2>2. PICK s \in Str : path[k] \cap Str = {s}
    BY <1>1, <1>4 DEF Shape, OneString
  <2> QED
    BY <1>1, <2>1, <2>2 DEF Block
<1>7. \A l \in Key : path'[l] = {}
  BY <1>1, <1>4, <1>5 DEF Shape, Rooted
<1>8. Tree = {p[t]} /\ Tree' = {}
  <2>1. \A l \in Key : l # k => path[l] = {}
    BY <1>4, <1>5 DEF Shape, Rooted
  <2> QED
    BY <1>1, <1>6, <1>7, <2>1 DEF Tree
<1>9. Bound' = {}
  BY <1>1, <1>5
<1>10. ShapeInv'
  <2>1. Shape(NULL, node, path', {})
    BY <1>4, <1>7, EmptyShape
  <2>2. Leaves'
    BY <1>9 DEF Leaves
  <2> QED
    BY <1>2, <1>9, <2>1, <2>2 DEF ShapeInv
<1>11. Gone(t)' = {p[t]}
  BY <1>1, <1>2, <1>3 DEF Gone, Unlinked, Unlinking
<1>12. DeleteOK(t)'
  BY <1>1, <1>2, <1>3 DEF DeleteOK, Unlinking, Inv, TreeInv
<1> QED
  BY <1>1, <1>5, <1>8, <1>10, <1>11, <1>12, UnlinkStep

(* Otherwise it is the store of DeletionShape.                             *)
LEMMA UnlinkIsDeletion ==
  ASSUME Inv, TypeOK', NEW t \in Thread, DeleteUnlink(t), slot[t].in # NULL
  PROVE  LET q == slot[t].in
         IN  /\ Deletion(head, node, path, Bound, head', node', path', Bound', key[t], gslot[t].in, q,
                         Sibling(slot[t]))
             /\ q \in Node /\ Toward(node, q, key[t]) = p[t]
             /\ slot[t].dir = Bit[key[t]][node[q].pos]
             /\ q # gslot[t].in => node'[q] = node[q]
<1> DEFINE k == key[t]
           q == slot[t].in
           x == gslot[t].in
           b == Sibling(slot[t])
<1>1. /\ pc[t] = "d_walk" /\ p[t] \in Str /\ k \in Bound /\ k \in Key
      /\ Bound' = Bound \ {k}
      /\ path' = [l \in Key |-> IF l = k THEN {} ELSE path[l] \ {q}]
  BY UnlinkFacts
<1>2. Store(gslot[t], b, node)
  BY DEF DeleteUnlink
<1>3. q # NULL /\ NULL \notin Node /\ slot[t] # HeadSlot
  BY AddressAssumption DEF HeadSlot
<1>4. /\ q \in Node /\ Follows(path, Bound, q, k)
      /\ slot[t].dir = Bit[k][node[q].pos] /\ p[t] = Toward(node, q, k)
      /\ \/ gslot[t] = HeadSlot /\ q = head
         \/ /\ x \in Node /\ Follows(path, Bound, x, k)
            /\ gslot[t].dir = Bit[k][node[x].pos]
            /\ q = Toward(node, x, k)
  BY <1>1, <1>3, AddressAssumption DEF Inv, TreeInv, DeleteOK
<1>5. q \in path[k] \cap Node
  BY <1>1, <1>4 DEF Follows
<1>6. \/ x = NULL /\ q = head
      \/ x \in path[k] \cap Node /\ q = Toward(node, x, k) /\ gslot[t].dir = Bit[k][node[x].pos]
  BY <1>1, <1>4 DEF Follows, HeadSlot
<1>7. /\ node \in [Node -> NodeRec] /\ gslot[t] \in Slot /\ slot[t] \in Slot
      /\ TypeOK /\ node' \in [Node -> NodeRec]
  BY DEF Inv, TypeInv, TypeOK
<1>8. b = node[q].child[1 - Bit[k][node[q].pos]]
  BY <1>4 DEF Sibling
<1>9. b \in Ptr
  <2>1. 1 - slot[t].dir \in Dirs
    BY <1>7 DEF Slot, Dirs
  <2> QED
    BY <1>4, <1>7, <2>1, ChildType DEF Sibling
<1> HIDE DEF b, x, q, k
<1>10. /\ head' = IF x = NULL THEN b ELSE head
       /\ \A n \in Node :
            /\ node'[n].pos = node[n].pos
            /\ \A d \in Dirs :
                 node'[n].child[d] = IF n = gslot[t].in /\ d = gslot[t].dir THEN b ELSE node[n].child[d]
  BY <1>2, <1>7, <1>9, StoreNodes DEF x
<1>11. \A n \in Node, d \in Dirs :
         node'[n].child[d] = IF n = x /\ d = Bit[k][node[x].pos] THEN b ELSE node[n].child[d]
  <2> SUFFICES ASSUME NEW n \in Node, NEW d \in Dirs
               PROVE  node'[n].child[d] =
                        IF n = x /\ d = Bit[k][node[x].pos] THEN b ELSE node[n].child[d]
    OBVIOUS
  <2>1. node'[n].child[d] = IF n = x /\ d = gslot[t].dir THEN b ELSE node[n].child[d]
    BY <1>10 DEF x
  <2>2. n = x => gslot[t].dir = Bit[k][node[x].pos]
    BY <1>3, <1>6
  <2> QED
    BY <2>1, <2>2
<1>12. Deletion(head, node, path, Bound, head', node', path', Bound', k, x, q, b)
  BY <1>1, <1>4, <1>5, <1>6, <1>7, <1>8, <1>10, <1>11 DEF Deletion
<1>13. q # x => node'[q] = node[q]
  <2> SUFFICES ASSUME q # x PROVE node'[q] = node[q]
    OBVIOUS
  <2>1. CASE x = NULL
    BY <1>2, <2>1 DEF Store, x
  <2>2. CASE x # NULL
    <3>1. node' = [node EXCEPT ![x].child[gslot[t].dir] = b]
      BY <1>2, <2>2 DEF Store, x
    <3> QED
      BY <1>4, <1>7, <3>1
  <2> QED
    BY <2>1, <2>2
<1> QED
  BY <1>4, <1>12, <1>13 DEF k, q, x, b

(* DeleteUnlink in a tree of several keys: the node and the string become  *)
(* the delete's, the sibling stays.                                        *)
LEMMA UnlinkNodeStep ==
  ASSUME Inv, OneDeleter, TypeOK', NEW t \in Thread, DeleteUnlink(t), slot[t].in # NULL
  PROVE  TreeInv'
<1> DEFINE k == key[t]
           q == slot[t].in
           x == gslot[t].in
           b == Sibling(slot[t])
           s == p[t]
<1>1. /\ pc[t] = "d_walk" /\ pc'[t] = "d_swap" /\ key'[t] = k /\ slot'[t] = slot[t]
      /\ \A u \in Thread \ {t} : Untouched(u)
      /\ UNCHANGED <<str, live, cur>> /\ Bind(k, NULL)
      /\ s \in Str /\ str[s].key = k /\ k \in Bound /\ k \in Key
      /\ s \in path[k] /\ str[s].val = map[k]
      /\ \A l \in Key : l # k => map'[l] = map[l]
      /\ path' = [l \in Key |-> IF l = k THEN {} ELSE path[l] \ {q}]
  BY UnlinkFacts
<1>2. /\ Deletion(head, node, path, Bound, head', node', path', Bound', k, x, q, b)
      /\ q \in Node /\ Toward(node, q, k) = s
      /\ slot[t].dir = Bit[k][node[q].pos]
      /\ q # x => node'[q] = node[q]
  BY UnlinkIsDeletion
<1>3. p'[t] = q
  BY DEF DeleteUnlink, Inv, TypeInv, TypeOK
<1>4. Shape(head, node, path, Bound) /\ ShapeInv /\ Leaves /\ q \notin Str /\ q # NULL /\ s \notin Node
      /\ Bound \subseteq Key
  BY <1>1, <1>2, AddressAssumption DEF Inv, TreeInv, ShapeInv, Shape
<1>5. b = node[q].child[1 - slot[t].dir]
  BY DEF Sibling
<1> HIDE DEF k, q, x, b, s
<1>6. /\ Shape(head', node', path', Bound')
      /\ \A l \in Bound' : \A c \in path'[l] : c \in path[l] /\ c # q /\ c # s
      /\ \A l \in Bound : \A c \in path[l] :
           c = q \/ c = s \/ \E g \in Bound' : c \in path'[g]
      /\ \E g \in Bound' : b \in path'[g]
      /\ x # q
  BY <1>2, <1>4, DeletionShape, DeletionTree
<1>7. /\ \A l \in Bound \ {k} : q \in path[l] => Toward(node, q, l) = b /\ b \in path[l]
      /\ b # q
  BY <1>2, <1>4, DeletionFacts
<1>8. Bound' = Bound \ {k} /\ q \in path[k]
  BY <1>2 DEF Deletion
<1>9. node'[q] = node[q]
  BY <1>2, <1>6
<1>10. Leaves'
  <2> SUFFICES ASSUME NEW l \in Bound', NEW c \in path'[l] \cap Str
               PROVE  str[c] = [key |-> l, val |-> map'[l]]
    BY <1>1 DEF Leaves
  <2>1. l \in Bound /\ c \in path[l] \cap Str /\ l # k
    BY <1>6, <1>8
  <2>2. str[c] = [key |-> l, val |-> map[l]]
    BY <1>4, <2>1 DEF Leaves
  <2> QED
    BY <1>1, <1>4, <2>1, <2>2
<1>11. /\ \A c : c \in Tree <=> \E l \in Bound : c \in path[l]
       /\ \A c : c \in Tree' <=> \E l \in Bound' : c \in path'[l]
  <2>1. \A c : c \in Tree <=> \E l \in Bound : c \in path[l]
    BY <1>4, TreePath
  <2>2. \A c : c \in Tree' <=> \E l \in Bound' : c \in path'[l]
    BY <1>6 DEF Tree, Shape, Rooted
  <2> QED
    BY <2>1, <2>2
<1>12. {q, s} \subseteq Tree /\ Tree' = Tree \ {q, s} /\ b \in Tree'
  <2>1. q \in Tree /\ s \in Tree /\ b \in Tree'
    BY <1>1, <1>6, <1>8, <1>11
  <2>2. \A c \in Tree' : c \in Tree /\ c # q /\ c # s
    BY <1>6, <1>8, <1>11
  <2>3. \A c \in Tree : c = q \/ c = s \/ c \in Tree'
    BY <1>6, <1>11
  <2> QED
    BY <2>1, <2>2, <2>3
<1>13. Toward(node, q, k) = node[q].child[slot[t].dir]
  BY <1>2 DEF Toward
<1>14. Gone(t)' = {q, s}
  BY <1>1, <1>2, <1>3, <1>4, <1>9, <1>13 DEF Gone, Unlinked, Unlinking
<1>15. Sibling(slot[t])' = b
  BY <1>1, <1>5, <1>9 DEF Sibling, q
<1>16. b \in Str => str[b].key # k
  <2> SUFFICES ASSUME b \in Str PROVE str[b].key # k
    OBVIOUS
  <2>1. PICK g \in Bound' : b \in path'[g]
    BY <1>6
  <2>2. g \in Bound /\ g # k /\ b \in path[g] \cap Str
    BY <1>6, <1>8, <2>1
  <2>3. str[b] = [key |-> g, val |-> map[g]]
    BY <1>4, <2>2 DEF Leaves
  <2>4. str[b].key = g
    BY <2>3
  <2> QED
    BY <2>2, <2>4
<1>17. DeleteOK(t)'
  <2>1. "delete" \in May[t]
    BY <1>1 DEF Inv, TreeInv, DeleteOK
  <2>2. slot'[t].in = q /\ node'[p'[t]].child[slot'[t].dir] = s
    BY <1>1, <1>2, <1>3, <1>9, <1>13 DEF q
  <2> QED
    BY <1>1, <1>3, <1>4, <1>12, <1>15, <1>16, <2>1, <2>2 DEF DeleteOK, Unlinking
<1>18. \A l \in Bound \ {k} :
         /\ path[l] \ {q, s} \subseteq path'[l]
         /\ \A c \in path[l] \cap {q, s} : c \in Node /\ Toward(node', c, l) \in path'[l]
  <2> SUFFICES ASSUME NEW l \in Bound \ {k}
               PROVE  /\ path[l] \ {q, s} \subseteq path'[l]
                      /\ \A c \in path[l] \cap {q, s} : c \in Node /\ Toward(node', c, l) \in path'[l]
    OBVIOUS
  <2>1. path'[l] = path[l] \ {q}
    BY <1>1, <1>4
  <2>2. s \notin path[l]
    BY <1>1, <1>4 DEF Shape, OwnString
  <2>3. q \in path[l] => Toward(node', q, l) \in path'[l]
    <3>1. Toward(node', q, l) = Toward(node, q, l)
      BY <1>9 DEF Toward
    <3> QED
      BY <1>7, <2>1, <3>1
  <2> QED
    BY <1>2, <2>1, <2>2, <2>3
<1>19. \A c \in {q, s} \cap Str : str[c].val = map[k]
  BY <1>1, <1>4
<1>20. key[t] = k
  BY DEF k
<1> QED
  BY <1>1, <1>6, <1>10, <1>12, <1>14, <1>17, <1>18, <1>19, <1>20, UnlinkStep DEF ShapeInv

(* DeleteUnlink.                                                           *)
LEMMA DeleteUnlinkStep ==
  ASSUME Inv, OneDeleter, TypeOK', NEW t \in Thread, DeleteUnlink(t)
  PROVE  TreeInv'
BY UnlinkLastStep, UnlinkNodeStep

-----------------------------------------------------------------------------
(***************************************************************************)
(* The release of the blocks, by critbit_delete and by critbit_clear.      *)
(***************************************************************************)

(* An insertion under way uses the tree and what it has made.              *)
LEMMA InsertKeeps ==
  ASSUME Inv, NEW u \in Thread, Untouched(u), UNCHANGED <<head, map, path>>,
         \A n \in (Tree \cup Made(u)) \cap Node : node'[n] = node[n],
         \A s \in (Tree \cup Made(u)) \cap Str : str'[s] = str[s]
  PROVE  InsertOK(u)' /\ Made(u)' = Made(u)
<1>1. ShapeInv /\ InsertOK(u) /\ Bound' = Bound /\ TypeOK
  BY DEF Inv, TreeInv, Bound, TypeInv
<1>2. /\ pc'[u] = pc[u] /\ key'[u] = key[u] /\ val'[u] = val[u] /\ p'[u] = p[u]
      /\ slot'[u] = slot[u] /\ made'[u] = made[u] /\ path' = path /\ head' = head
  BY DEF Untouched
<1>3. \A l \in Bound : \A n \in path[l] \cap Node : node'[n] = node[n]
  BY <1>1, TreePath
<1>4. \A b \in Tree : b \in Block
  BY DEF Inv, TreeInv, HeapInv, TypeInv, TypeOK
<1>5. ASSUME OnWalk(node, path, Bound, p[u], key[u])
      PROVE  OnWalk(node', path, Bound, p[u], key[u]) /\ p[u] \in Tree
  <2>1. p[u] \in Tree
    BY <1>1, <1>5, TreePath DEF OnWalk, Follows
  <2>2. p[u] \in Block
    BY <1>4, <2>1
  <2> QED
    BY <1>3, <1>5, <2>1, <2>2, SameWalk
<1>6. CASE pc[u] = "i_near"
  <2>1. Made(u) = {} /\ Made(u)' = {}
    BY <1>2, <1>6 DEF Made, Unpublished
  <2>2. /\ val[u] \in Val /\ slot[u] = HeadSlot /\ (p[u] = NULL => head = NULL)
        /\ p[u] # NULL => OnWalk(node, path, Bound, p[u], key[u])
    BY <1>1, <1>6 DEF InsertOK
  <2> QED
    BY <1>1, <1>2, <1>5, <1>6, <2>1, <2>2 DEF InsertOK
<1>7. CASE pc[u] = "i_slot"
  <2> DEFINE j == str[p[u]].key
             m == made[u]
             s == Toward(node, m, key[u])
  <2>1. /\ p[u] \in Str /\ OnWalk(node, path, Bound, p[u], key[u])
        /\ j \in Bound /\ p[u] \in path[j] /\ key[u] \notin Bound
        /\ FirstDiff(j, key[u], node[m].pos)
        /\ s \in Str /\ str[s] = [key |-> key[u], val |-> val[u]]
        /\ \/ slot[u] = HeadSlot
           \/ /\ slot[u].in \in path[j] \cap Node
              /\ slot[u].dir = Bit[j][node[slot[u].in].pos]
              /\ node[slot[u].in].pos < node[m].pos
        /\ val[u] \in Val
    BY <1>1, <1>7 DEF InsertOK
  <2>2. Made(u) = {m, s} /\ m \in Node
    BY <1>7 DEF Made, Unpublished, Inv, TypeInv, ArgsOK
  <2>3. str'[p[u]] = str[p[u]] /\ str'[s] = str[s] /\ node'[m] = node[m]
    BY <1>5, <2>1, <2>2
  <2>4. Toward(node', m, key[u]) = s
    BY <2>3 DEF Toward
  <2>5. slot[u] # HeadSlot => node'[slot[u].in] = node[slot[u].in]
    BY <1>3, <2>1
  <2>6. Made(u)' = Made(u)
    BY <1>2, <1>7, <2>2, <2>4 DEF Made, Unpublished
  <2> HIDE DEF s
  <2>7. InsertOK(u)'
    BY <1>1, <1>2, <1>5, <1>7, <2>1, <2>3, <2>4, <2>5 DEF InsertOK
  <2> QED
    BY <2>6, <2>7
<1>8. CASE pc[u] \notin {"i_near", "i_slot"}
  BY <1>2, <1>8 DEF InsertOK, Made, Unpublished
<1> QED
  BY <1>6, <1>7, <1>8

(* The delete releases exactly what it has unlinked; nobody else is there. *)
LEMMA DoomedIsGone ==
  ASSUME Inv, NEW t \in Thread, pc[t] = "d_free"
  PROVE  Doomed(t) = Gone(t)
BY DEF Doomed, Gone, Unlinked, Unlinking, IsInternal, Inv, TreeInv, DeleteOK

(* DeleteFree releases what the delete owns.                               *)
LEMMA DeleteFreeStep ==
  ASSUME Inv, OneDeleter, TypeOK', NEW t \in Thread, DeleteFree(t)
  PROVE  TreeInv'
<1> DEFINE G == Gone(t)
<1>1. /\ UNCHANGED <<head, map, path, cur, seen, fresh>>
      /\ \A u \in Thread \ {t} : Untouched(u)
      /\ pc[t] = "d_free" /\ pc'[t] = "idle" /\ p'[t] = NULL /\ slot'[t] = HeadSlot
  BY DEF DeleteFree, Return, Inv, TypeInv, TypeOK, sync, history, Untouched
<1>2. Release(G)
  BY <1>1, DoomedIsGone DEF DeleteFree
<1>3. /\ live' = live \ G /\ \A n \in Node \ G : node'[n] = node[n]
      /\ \A s \in Str \ G : str'[s] = str[s]
  BY <1>2 DEF Release
<1>4. /\ Tree \subseteq live /\ G \cap Tree = {}
      /\ \A u \in Thread : Made(u) \subseteq live /\ Made(u) \cap G = {} /\ Made(u) \cap Tree = {}
      /\ \A b \in live : b \in Tree \/ \E u \in Thread : b \in Gone(u) \/ b \in Made(u)
  BY DEF Inv, TreeInv, HeapInv
<1>5. "delete" \in May[t]
  BY <1>1 DEF Inv, TreeInv, DeleteOK, Unlinking
<1>6. \A u \in Thread \ {t} : pc[u] \notin Unlinking \cup {"d_walk"}
  BY <1>5 DEF Inv, TreeInv, DeleteOK, OneDeleter
<1> HIDE DEF G
<1>7. ASSUME NEW u \in Thread \ {t}
      PROVE  /\ StartOK(u)' /\ InsertOK(u)' /\ DeleteOK(u)'
             /\ Gone(u) = {} /\ Gone(u)' = {} /\ Made(u)' = Made(u)
  <2>1. \A n \in (Tree \cup Made(u)) \cap Node : node'[n] = node[n]
    BY <1>3, <1>4
  <2>2. \A s \in (Tree \cup Made(u)) \cap Str : str'[s] = str[s]
    BY <1>3, <1>4
  <2>3. Untouched(u)
    BY <1>1
  <2>4. InsertOK(u)' /\ Made(u)' = Made(u)
    BY <1>1, <2>1, <2>2, <2>3, InsertKeeps
  <2>5. pc'[u] = pc[u] /\ pc'[u] # "d_free" /\ p'[u] = p[u] /\ slot'[u] = slot[u] /\ StartOK(u)
    BY <1>6, <2>3 DEF Untouched, Unlinking, Inv, TreeInv
  <2>6. Gone(u) = {} /\ Gone(u)' = {} /\ StartOK(u)' /\ DeleteOK(u)'
    BY <1>6, <2>5 DEF Gone, Unlinked, StartOK, DeleteOK
  <2> QED
    BY <2>4, <2>6
<1>8. /\ StartOK(t)' /\ InsertOK(t)' /\ DeleteOK(t)' /\ Gone(t)' = {} /\ Made(t)' = {} /\ Made(t) = {}
  BY <1>1 DEF StartOK, InsertOK, DeleteOK, Gone, Unlinked, Made, Unpublished, Unlinking
<1>9. Tree' = Tree /\ Bound' = Bound
  BY <1>1 DEF Tree, Bound
<1>10. HeapInv'
  <2>1. \A u \in Thread : Gone(u)' = {} /\ Made(u)' = Made(u)
    BY <1>7, <1>8
  <2>2. Tree \subseteq live' /\ \A u \in Thread : Made(u) \subseteq live'
    BY <1>3, <1>4
  <2>3. \A b \in live' : b \in Tree \/ \E u \in Thread : b \in Made(u)
    BY <1>3, <1>4, <1>7 DEF G
  <2> QED
    BY <1>4, <1>9, <2>1, <2>2, <2>3 DEF HeapInv
<1>11. ShapeInv'
  <2>1. Shape(head, node, path, Bound) /\ Leaves /\ ShapeInv /\ node' \in [Node -> NodeRec]
    BY DEF Inv, TreeInv, ShapeInv, TypeOK
  <2>2. /\ \A l \in Bound : \A n \in path[l] \cap Node : node'[n] = node[n]
        /\ \A l \in Bound : \A s \in path[l] \cap Str : str'[s] = str[s]
    BY <1>3, <1>4, <2>1, TreePath
  <2>3. Shape(head, node', path, Bound)
    BY <2>1, <2>2, SameShape
  <2>4. Leaves'
    BY <1>1, <1>9, <2>1, <2>2 DEF Leaves
  <2> QED
    BY <1>1, <1>9, <2>3, <2>4 DEF ShapeInv
<1>12. ReaderOK(t)'
  BY <1>1, WriterNoReader DEF Getting
<1>13. ASSUME NEW r \in Thread \ {t} PROVE ReaderOK(r)'
  <2>1. /\ Getting(r)' = Getting(r) /\ Reading(r)' = Reading(r) /\ pc'[r] = pc[r] /\ key'[r] = key[r]
        /\ p'[r] = p[r] /\ ret'[r] = ret[r]
    BY <1>1, <1>13 DEF Getting, Reading, Untouched
  <2>2. (Getting(r) => map[key[r]] \in seen[r])' /\ (~Getting(r) => seen[r] = {})'
    BY <1>1, <2>1 DEF Inv, TreeInv, ReaderOK
  <2>3. ASSUME Reading(r), fresh[r]
        PROVE  /\ p[r] \in Tree \cup {NULL}
               /\ pc[r] = "g_walk" /\ NULL \notin seen[r] => p[r] \in path[key[r]]
               /\ pc[r] = "g_unlock" => ret[r] \in seen[r]
    <3>1. \A d \in Thread : ~Watched(r, d)
      BY <1>1, <1>6 DEF Watched, Unlinking
    <3>2. p[r] \in Tree \cup {NULL}
      BY <2>3, <3>1 DEF Inv, TreeInv, ReaderOK
    <3>3. \A d \in Thread : p[r] \notin Gone(d)
      BY <3>2, GoneFacts
    <3> QED
      BY <2>3, <3>2, <3>3 DEF Inv, TreeInv, ReaderOK
  <2>4. \A d \in Thread : Gone(d)' = {}
    BY <1>7, <1>8
  <2> QED
    BY <1>1, <1>9, <2>1, <2>2, <2>3, <2>4 DEF ReaderOK
<1> QED
  BY <1>7, <1>8, <1>10, <1>11, <1>12, <1>13 DEF TreeInv

(* critbit_clear, alone, releases everything that is allocated.            *)
LEMMA IdleOwnsNothing ==
  ASSUME Inv, Idle
  PROVE  /\ \A t \in Thread : Gone(t) = {} /\ Made(t) = {}
         /\ live = Tree /\ Linked = Tree
<1>1. \A t \in Thread : Gone(t) = {} /\ Made(t) = {}
  BY DEF Idle, Gone, Unlinked, Unlinking, Made, Unpublished
<1>2. live = Tree
  BY <1>1 DEF Inv, TreeInv, HeapInv
<1>3. Linked = Tree
  BY LinkedIsTree DEF Inv, TypeInv, TreeInv
<1> QED
  BY <1>1, <1>2, <1>3

(* Clear releases the whole tree.                                          *)
LEMMA ClearStep ==
  ASSUME Inv, TypeOK', Clear
  PROVE  TreeInv'
<1>1. /\ UNCHANGED <<pc, p, slot, seen>> /\ Idle /\ Release(Tree) /\ head' = NULL
      /\ \A k \in Key : map'[k] = NULL /\ path'[k] = {}
  BY IdleOwnsNothing DEF Clear, locals
<1>2. live' = {}
  BY <1>1, IdleOwnsNothing DEF Release
<1>3. Bound' = {} /\ Tree' = {}
  BY <1>1 DEF Bound, Tree
<1>4. ShapeInv'
  <2>1. Shape(NULL, node', path', {})
    BY <1>1, EmptyShape DEF TypeOK
  <2> QED
    BY <1>1, <1>3, <2>1 DEF ShapeInv, Leaves
<1>5. \A t \in Thread : Gone(t)' = {} /\ Made(t)' = {}
  BY <1>1 DEF Idle, Gone, Unlinked, Unlinking, Made, Unpublished
<1>6. HeapInv'
  BY <1>2, <1>3, <1>5 DEF HeapInv
<1>7. \A t \in Thread : StartOK(t)' /\ InsertOK(t)' /\ DeleteOK(t)'
  BY <1>1 DEF Idle, StartOK, InsertOK, DeleteOK, Unlinking, Inv, TreeInv
<1>8. \A t \in Thread : ReaderOK(t)'
  BY <1>1 DEF Idle, ReaderOK, Getting, Reading, Inv, TreeInv
<1> QED
  BY <1>4, <1>6, <1>7, <1>8 DEF TreeInv

(* critbit_new, a fault and a step outside of the tree.                    *)
LEMMA SameTree ==
  ASSUME TreeInv, UNCHANGED <<head, node, str, live, map, path, seen, fresh>>,
         \A u \in Thread : Untouched(u),
         \A r \in Thread : \A d \in Thread : Reading(r) => (Watched(r, d) => Watched(r, d)')
  PROVE  TreeInv'
<1>1. ShapeInv'
  BY DEF TreeInv, ShapeInv, Leaves, Bound
<1>2. \A u \in Thread : /\ StartOK(u)' /\ InsertOK(u)' /\ DeleteOK(u)'
                        /\ Gone(u)' = Gone(u) /\ Made(u)' = Made(u)
  BY OthersKeep DEF TreeInv
<1>3. HeapInv'
  BY <1>2, HeapKeeps DEF TreeInv
<1>4. \A d \in Thread : key'[d] = key[d]
  BY DEF Untouched
<1>5. \A r \in Thread : ReaderOK(r)'
  BY <1>2, <1>4, ReaderKeeps DEF TreeInv
<1> QED
  BY <1>1, <1>2, <1>3, <1>5 DEF TreeInv

(* New: no thread is in an operation and no block is lost.                 *)
LEMMA NewStep ==
  ASSUME Inv, New
  PROVE  TreeInv'
<1>1. /\ UNCHANGED <<node, str, live, map, path, seen, fresh>> /\ ~root /\ head' = NULL
      /\ \A u \in Thread : Untouched(u)
  BY DEF New, locals, history, Untouched
<1>2. head' = head /\ \A u \in Thread : ~Reading(u)
  BY <1>1 DEF Inv, RootInv, LockInv, Reading
<1> QED
  BY <1>1, <1>2, SameTree DEF Inv

(* A step that changes nothing but fault.                                  *)
LEMMA StutterStep ==
  ASSUME Inv, UNCHANGED <<heap, sync, pc, locals, ret, history>>
  PROVE  TreeInv'
<1>1. /\ UNCHANGED <<head, node, str, live, map, path, seen, fresh>>
      /\ \A u \in Thread : Untouched(u)
      /\ \A r, d \in Thread : Watched(r, d)' = Watched(r, d)
  BY DEF heap, sync, locals, history, Untouched, Watched
<1> QED
  BY <1>1, SameTree DEF Inv

-----------------------------------------------------------------------------
(* Every step of Critbit keeps the invariant.                              *)
LEMMA TreeStep ==
  ASSUME OneDeleter, Inv, TypeOK', [Next]_vars
  PROVE  TreeInv'
<1>1. ASSUME NEW t \in Thread, Get(t) PROVE TreeInv'
  BY <1>1, GetRdLockStep, GetHeadStep, GetWalkStep, GetCompareStep, GetUnlockStep DEF Get
<1>2. ASSUME NEW t \in Thread, Insert(t) PROVE TreeInv'
  BY <1>2, InsertFirstStep, InsertNearStep, InsertFailStep, InsertAllocStep, InsertDescendStep,
     InsertLinkStep, WriterUnlockStep DEF Insert
<1>3. ASSUME NEW t \in Thread, Delete(t) PROVE TreeInv'
  BY <1>3, DeleteWalkStep, DeleteAbsentStep, DeleteUnlinkStep, DeleteSwapStep, DeleteWaitStep,
     DeleteUnlockStep, DeleteCompareStep, DeleteFreeStep DEF Delete
<1>4. ASSUME NEW t \in Thread, Fault(t) PROVE TreeInv'
  BY <1>4, StutterStep DEF Fault, NullRead, FreedRead, DoubleFree
<1>5. ASSUME NEW t \in Thread, Call(t) PROVE TreeInv'
  BY <1>5, GetStartStep, InsertLockStep, DeleteLockStep DEF Call
<1>6. CASE UNCHANGED vars
  BY <1>6, StutterStep DEF vars
<1> QED
  BY <1>1, <1>2, <1>3, <1>4, <1>5, <1>6, ClearStep, NewStep DEF Next, Step, Halted

(* The root goes only when the tree has gone, and no operation is under    *)
(* way without it.                                                         *)
LEMMA RootStep ==
  ASSUME LockInv, RootInv, [Next]_vars
  PROVE  RootInv'
<1> USE DEF RootInv, heap
<1>1. ASSUME NEW t \in Thread, Get(t) PROVE RootInv'
  BY <1>1 DEF Get, GetRdLock, GetHead, GetWalk, GetCompare, GetUnlock
<1>2. ASSUME NEW t \in Thread, Insert(t) PROVE RootInv'
  BY <1>2 DEF Insert, InsertFirst, InsertNear, InsertExists, InsertAlloc, InsertNoMem, InsertDescend,
     InsertLink, WriterUnlock, LockInv
<1>3. ASSUME NEW t \in Thread, Delete(t) PROVE RootInv'
  BY <1>3 DEF Delete, DeleteWalk, DeleteAbsent, DeleteUnlink, DeleteSwap, DeleteWait, DeleteUnlock,
     DeleteCompare, DeleteFree, LockInv
<1>4. ASSUME NEW t \in Thread, Fault(t) PROVE RootInv'
  BY <1>4 DEF Fault, NullRead, FreedRead, DoubleFree
<1>5. ASSUME NEW t \in Thread, Call(t) PROVE RootInv'
  BY <1>5 DEF Call, GetStart, InsertLock, DeleteLock
<1>6. CASE UNCHANGED vars
  BY <1>6 DEF vars
<1>7. Clear => RootInv'
  BY DEF Clear
<1>8. New => RootInv'
  BY DEF New
<1> QED
  BY <1>1, <1>2, <1>3, <1>4, <1>5, <1>6, <1>7, <1>8 DEF Next, Step, Halted

(* Every step keeps the invariant.                                         *)
LEMMA InvStep ==
  ASSUME OneDeleter
  PROVE  Inv /\ [Next]_vars => Inv'
<1> SUFFICES ASSUME Inv, [Next]_vars PROVE Inv'
  OBVIOUS
<1>1. TypeInv' /\ LockInv'
  BY TypeStep, LockStep DEF Inv
<1>2. RootInv'
  BY RootStep DEF Inv
<1>3. TreeInv'
  BY <1>1, TreeStep DEF TypeInv
<1> QED
  BY <1>1, <1>2, <1>3 DEF Inv

(* The invariant holds in every reachable state.                           *)
LEMMA InvAlways ==
  ASSUME OneDeleter
  PROVE  Spec => []Inv
<1>1. Init => Inv
  BY TypeInit, LockInit, TreeInit DEF Inv, RootInv, Init
<1>2. Inv /\ [Next]_vars => Inv'
  BY InvStep
<1> QED
  BY <1>1, <1>2, PTL DEF Spec

(* Clients may rely on it: with one deleting thread a walk finds, in every *)
(* state of any number of critbit_get, critbit_insert and critbit_delete,  *)
(* exactly the keys bound, and the tree consists of their walks.           *)
THEOREM TreeHoldsMapAlways ==
  ASSUME OneDeleter
  PROVE  Spec => []TreeHoldsMap
<1>1. Inv => TreeHoldsMap
  BY ShapeHoldsMap DEF Inv, TypeInv, TreeInv
<1> QED
  BY <1>1, InvAlways, PTL

(* Every node tests the critical bit of the keys below it, whatever order  *)
(* the insertions and deletions came in: neither the slot critbit_insert   *)
(* looks for nor the splice of critbit_delete gets it wrong.               *)
THEOREM CriticalBitsAlways ==
  ASSUME OneDeleter
  PROVE  Spec => []CriticalBits
<1>1. Inv => CriticalBits
  BY NodesAreCritical DEF Inv, TypeInv, TreeInv
<1> QED
  BY <1>1, InvAlways, PTL

(* No operation leaks: between the operations what is allocated is the     *)
(* tree, also after deletions and insertions that ran out of memory.       *)
THEOREM NoLeakAlways ==
  ASSUME OneDeleter
  PROVE  Spec => []NoLeak
<1>1. Inv => NoLeak
  BY IdleOwnsNothing DEF NoLeak
<1> QED
  BY <1>1, InvAlways, PTL

(* critbit_get reads allocated memory when it took the current lock: the   *)
(* swap of the two locks and the wait of critbit_delete protect it.        *)
THEOREM FreshReadersSafe ==
  ASSUME OneDeleter
  PROVE  Spec => []FreshReaderSafe
<1>1. Inv => FreshReaderSafe
  <2> SUFFICES ASSUME Inv, NEW t \in Thread, Reading(t), fresh[t]
               PROVE  p[t] \in live \cup {NULL}
    BY DEF FreshReaderSafe
  <2>1. p[t] \in Tree \cup {NULL} \/ \E d \in Thread : p[t] \in Gone(d)
    BY DEF Inv, TreeInv, ReaderOK
  <2> QED
    BY <2>1 DEF Inv, TreeInv, HeapInv
<1> QED
  BY <1>1, InvAlways, PTL

(* critbit_get is linearizable then: it answers with a binding its key had *)
(* during the call.                                                        *)
THEOREM GetsLinearizable ==
  ASSUME OneDeleter
  PROVE  Spec => []GetLinearizable
<1>1. Inv => GetLinearizable
  BY DEF Inv, TreeInv, ReaderOK, GetLinearizable, Reading
<1> QED
  BY <1>1, InvAlways, PTL

(* critbit_delete releases only what it has unlinked.                      *)
THEOREM FreesOnlyTheUnlinked ==
  ASSUME OneDeleter
  PROVE  Spec => FreesOnlyUnlinked
<1>1. Inv /\ [Next]_vars => [root' => (live \ live') \cap Tree = {}]_vars
  <2> SUFFICES ASSUME Inv, Next, root' PROVE (live \ live') \cap Tree = {}
    OBVIOUS
  <2>1. ASSUME NEW t \in Thread, Get(t) PROVE live' = live
    BY <2>1 DEF Get, GetRdLock, GetHead, GetWalk, GetCompare, GetUnlock, heap
  <2>2. ASSUME NEW t \in Thread, Insert(t) PROVE live \subseteq live'
    BY <2>2 DEF Insert, InsertFirst, InsertNear, InsertExists, InsertAlloc, InsertNoMem, InsertDescend,
       InsertLink, WriterUnlock, heap
  <2>3. ASSUME NEW t \in Thread, Delete(t) PROVE (live \ live') \cap Tree = {}
    <3>1. CASE DeleteFree(t)
      <4>1. live' = live \ Gone(t)
        BY <3>1, DoomedIsGone DEF DeleteFree, Release
      <4> QED
        BY <4>1 DEF Inv, TreeInv, HeapInv
    <3>2. CASE ~DeleteFree(t)
      BY <2>3, <3>2 DEF Delete, DeleteWalk, DeleteAbsent, DeleteUnlink, DeleteSwap, DeleteWait,
         DeleteUnlock, DeleteCompare, heap
    <3> QED
      BY <3>1, <3>2
  <2>4. ASSUME NEW t \in Thread, Fault(t) PROVE live' = live
    BY <2>4 DEF Fault, NullRead, FreedRead, DoubleFree, heap
  <2>5. ASSUME NEW t \in Thread, Call(t) PROVE live' = live
    BY <2>5 DEF Call, GetStart, InsertLock, DeleteLock, heap
  <2>6. ~Clear
    BY DEF Clear
  <2>7. New \/ Halted => live' = live
    BY DEF New, Halted, vars, heap
  <2> QED
    BY <2>1, <2>2, <2>3, <2>4, <2>5, <2>6, <2>7 DEF Next, Step
<1> QED
  BY <1>1, InvAlways, PTL DEF Spec, FreesOnlyUnlinked

-----------------------------------------------------------------------------
(***************************************************************************)
(* Undefined behaviour.                                                    *)
(***************************************************************************)

(* With one deleter only critbit_get meets undefined behaviour: in an      *)
(* empty tree, or with a read lock that was no longer the current one when *)
(* it was taken.                                                           *)
OnlyReadersFault ==
  [][fault' # fault => \E t \in Thread : pc[t] = "g_walk" /\ (p[t] = NULL \/ ~fresh[t])]_vars

(* Undefined behaviour happens to readers only: on an empty tree, or       *)
(* without the current lock.                                               *)
LEMMA WritersSafe ==
  ASSUME Inv, NEW t \in Thread, Fault(t)
  PROVE  pc[t] = "g_walk" /\ (p[t] = NULL \/ ~fresh[t])
<1>1. /\ Tree \subseteq live /\ Gone(t) \subseteq live /\ NULL \notin Block /\ ShapeInv
      /\ InsertOK(t) /\ DeleteOK(t) /\ ReaderOK(t)
      /\ \A d \in Thread : Gone(d) \subseteq live
  BY AddressAssumption DEF Inv, TreeInv, HeapInv, Block
<1>2. CASE NullRead(t)
  BY <1>2 DEF NullRead
<1>3. ASSUME pc[t] \in {"i_near", "d_walk"}, p[t] \in Block \ live PROVE FALSE
  <2>1. Follows(path, Bound, p[t], key[t])
    BY <1>1, <1>3 DEF InsertOK, DeleteOK, OnWalk
  <2> QED
    BY <1>1, <1>3, <2>1, TreePath DEF Follows
<1>4. ASSUME pc[t] = "g_walk", p[t] \in Block \ live, fresh[t] PROVE FALSE
  BY <1>1, <1>4 DEF ReaderOK, Reading
<1>5. ASSUME pc[t] = "d_cmp", node[p[t]].child[0] \in Str \ live PROVE FALSE
  <2>1. p[t] \in Node /\ p[t] # NULL /\ slot[t] \in Slot
    BY <1>5, AddressAssumption DEF Inv, TypeInv, TypeOK, ArgsOK
  <2>2. p[t] \in Gone(t) /\ node[p[t]].child[slot[t].dir] \in live
    BY <1>1, <1>5, <2>1 DEF Gone, Unlinked, Unlinking
  <2>3. node[p[t]].child[1 - slot[t].dir] \in live
    BY <1>1, <2>1, <2>2, GoneFacts
  <2>4. slot[t].dir = 0 \/ 1 - slot[t].dir = 0
    BY <2>1 DEF Slot, Dirs
  <2> QED
    BY <1>5, <2>2, <2>3, <2>4
<1>6. ~DoubleFree(t)
  BY <1>1, DoomedIsGone DEF DoubleFree
<1>7. CASE FreedRead(t)
  BY <1>3, <1>4, <1>5, <1>7 DEF FreedRead
<1> QED
  BY <1>2, <1>6, <1>7 DEF Fault

(* Where a fault comes from.                                               *)
LEMMA FaultStep ==
  ASSUME [Next]_vars, fault' # fault
  PROVE  \E t \in Thread : Fault(t)
<1> SUFFICES ASSUME \A t \in Thread : ~Fault(t) PROVE fault' = fault
  OBVIOUS
<1>1. ASSUME NEW t \in Thread, Get(t) PROVE fault' = fault
  BY <1>1 DEF Get, GetRdLock, GetHead, GetWalk, GetCompare, GetUnlock
<1>2. ASSUME NEW t \in Thread, Insert(t) PROVE fault' = fault
  BY <1>2 DEF Insert, InsertFirst, InsertNear, InsertExists, InsertAlloc, InsertNoMem, InsertDescend,
     InsertLink, WriterUnlock
<1>3. ASSUME NEW t \in Thread, Delete(t) PROVE fault' = fault
  BY <1>3 DEF Delete, DeleteWalk, DeleteAbsent, DeleteUnlink, DeleteSwap, DeleteWait, DeleteUnlock,
     DeleteCompare, DeleteFree
<1>4. ASSUME NEW t \in Thread, Call(t) PROVE fault' = fault
  BY <1>4 DEF Call, GetStart, InsertLock, DeleteLock
<1>5. Clear \/ New \/ UNCHANGED vars => fault' = fault
  BY DEF Clear, New, vars
<1> QED
  BY <1>1, <1>2, <1>3, <1>4, <1>5 DEF Next, Step, Halted

(* critbit_insert and critbit_delete read and free only allocated blocks,  *)
(* also after the critical section; what is left is critbit_get.           *)
THEOREM OnlyReadersFaultHolds ==
  ASSUME OneDeleter
  PROVE  Spec => OnlyReadersFault
<1>1. Inv /\ [Next]_vars =>
        [fault' # fault => \E t \in Thread : pc[t] = "g_walk" /\ (p[t] = NULL \/ ~fresh[t])]_vars
  BY FaultStep, WritersSafe
<1> QED
  BY <1>1, InvAlways, PTL DEF Spec, OnlyReadersFault

(* One deleting thread, beside any number of inserting ones, reads and     *)
(* releases no freed block after its critical section.                     *)
THEOREM DeleterAlone ==
  ASSUME OneDeleter, \A t \in Thread : "get" \notin May[t]
  PROVE  Spec => []DeletersApart
<1> DEFINE NoGet == \A t \in Thread : pc[t] \notin {"g_rdlock", "g_head", "g_walk", "g_unlock"}
           Safe == NoGet /\ fault = "none"
<1>1. Init => Safe
  BY DEF Init
<1>2. Inv /\ Safe /\ [Next]_vars => Safe'
  <2> SUFFICES ASSUME Inv, Safe, [Next]_vars PROVE Safe'
    OBVIOUS
  <2>1. fault' = fault
    BY FaultStep, WritersSafe
  <2> USE DEF Goto, Return, Inv, TypeInv, TypeOK
  <2>2. ASSUME NEW t \in Thread, Get(t) PROVE NoGet'
    BY <2>2 DEF Get, GetRdLock, GetHead, GetWalk, GetCompare, GetUnlock
  <2>3. ASSUME NEW t \in Thread, Insert(t) PROVE NoGet'
    BY ZenonT(40), <2>3 DEF Insert, InsertFirst, InsertNear, InsertExists, InsertAlloc, InsertNoMem, InsertDescend,
       InsertLink, WriterUnlock
  <2>4. ASSUME NEW t \in Thread, Delete(t) PROVE NoGet'
    BY <2>4 DEF Delete, DeleteWalk, DeleteAbsent, DeleteUnlink, DeleteSwap, DeleteWait, DeleteUnlock,
       DeleteCompare, DeleteFree, IsInternal
  <2>5. ASSUME NEW t \in Thread, Call(t) PROVE NoGet'
    BY <2>5 DEF Call, InsertLock, DeleteLock
  <2>6. ASSUME NEW t \in Thread, Fault(t) PROVE NoGet'
    BY <2>6 DEF Fault, NullRead, FreedRead, DoubleFree
  <2>7. Clear \/ New \/ UNCHANGED vars => NoGet'
    BY DEF Clear, New, vars
  <2> QED
    BY <2>1, <2>2, <2>3, <2>4, <2>5, <2>6, <2>7 DEF Next, Step, Halted
<1>3. Safe => DeletersApart
  BY DEF DeletersApart
<1> HIDE DEF Safe
<1> QED
  BY <1>1, <1>2, <1>3, InvAlways, PTL DEF Spec

-----------------------------------------------------------------------------
(* The refinement.                                                         *)

(* malloc finds a block for every critbit_insert.                          *)
MemoryLasts == [][\A t \in Thread : ~InsertNoMem(t)]_vars

(* No critbit_delete swaps the locks between the load of a critbit_get and *)
(* its lock.                                                               *)
AllFresh == \A t \in Thread : Reading(t) => fresh[t]

(* No value is left over from an earlier insertion.                        *)
ValInv == \A t \in Thread : pc[t] = "idle" => val[t] = NULL

MapInv == Inv /\ ValInv /\ TreeMap = map

(* The operations and their results, as the map sees them.                 *)
Ops == [t \in Thread |-> OpOf(t)]
Results == [t \in Thread |-> ResOf(t)]

-----------------------------------------------------------------------------
(* Every return forgets the value.                                         *)
LEMMA ValStep ==
  ASSUME TypeOK, ValInv, [Next]_vars
  PROVE  ValInv'
<1> USE DEF TypeOK, ValInv, Goto, Return, locals
<1>1. ASSUME NEW t \in Thread, Get(t) PROVE ValInv'
  BY <1>1 DEF Get, GetRdLock, GetHead, GetWalk, GetCompare, GetUnlock
<1>2. ASSUME NEW t \in Thread, Insert(t) PROVE ValInv'
  BY ZenonT(40), <1>2 DEF Insert, InsertFirst, InsertNear, InsertExists, InsertAlloc, InsertNoMem, InsertDescend,
     InsertLink, WriterUnlock
<1>3. ASSUME NEW t \in Thread, Delete(t) PROVE ValInv'
  BY <1>3 DEF Delete, DeleteWalk, DeleteAbsent, DeleteUnlink, DeleteSwap, DeleteWait, DeleteUnlock,
     DeleteCompare, DeleteFree, IsInternal
<1>4. ASSUME NEW t \in Thread, Fault(t) PROVE ValInv'
  BY <1>4 DEF Fault, NullRead, FreedRead, DoubleFree
<1>5. ASSUME NEW t \in Thread, Call(t) PROVE ValInv'
  BY <1>5 DEF Call, GetStart, InsertLock, DeleteLock
<1>6. Clear \/ New \/ UNCHANGED vars => ValInv'
  BY DEF Clear, New, vars
<1> QED
  BY <1>1, <1>2, <1>3, <1>4, <1>5, <1>6 DEF Next, Step, Halted

(* What the refinement needs of every state.                               *)
LEMMA MapInvAlways ==
  ASSUME OneDeleter
  PROVE  Spec => []MapInv
<1>1. Init => ValInv
  BY DEF Init, ValInv
<1>2. Inv /\ ValInv /\ [Next]_vars => ValInv'
  BY ValStep DEF Inv, TypeInv
<1>3. Inv => TreeMap = map
  BY WalksFindMap DEF Inv, TypeInv, TreeInv
<1>4. Inv /\ ValInv /\ TreeMap = map => MapInv
  BY DEF MapInv
<1> QED
  BY <1>1, <1>2, <1>3, <1>4, InvAlways, PTL DEF Spec

-----------------------------------------------------------------------------
(***************************************************************************)
(* The steps.                                                              *)
(***************************************************************************)

(* A step of t changes the operation and the result of t only.             *)
LEMMA OnlyMine ==
  ASSUME NEW t \in Thread, \A u \in Thread \ {t} : Untouched(u)
  PROVE  /\ Ops' = [Ops EXCEPT ![t] = OpOf(t)']
         /\ Results' = [Results EXCEPT ![t] = ResOf(t)']
<1>1. \A u \in Thread \ {t} : OpOf(u)' = OpOf(u) /\ ResOf(u)' = ResOf(u)
  BY DEF Untouched, OpOf, ResOf
<1> QED
  BY <1>1 DEF Ops, Results

(* An operation begins.                                                    *)
LEMMA BeginStep ==
  ASSUME MapInv, MapInv', NEW t \in Thread, Call(t)
  PROVE  Map!Next
<1>1. TreeMap = map /\ TreeMap' = map' /\ TypeOK
  BY DEF MapInv, Inv, TypeInv
<1>2. pc[t] = "idle" /\ \A u \in Thread \ {t} : Untouched(u)
  BY <1>1 DEF Call, GetStart, InsertLock, DeleteLock, Goto, TypeOK, Untouched
<1>3. Ops[t] = "none" /\ val[t] = NULL /\ ret' = ret /\ seen[t] = {}
  BY <1>2 DEF Ops, OpOf, MapInv, ValInv, Call, GetStart, InsertLock, DeleteLock, Inv, TreeInv, ReaderOK, Getting
<1>4. /\ Ops' = [Ops EXCEPT ![t] = OpOf(t)'] /\ Results' = [Results EXCEPT ![t] = ResOf(t)']
  BY <1>2, OnlyMine
<1>5. ASSUME NEW k \in Key, GetStart(t, k) PROVE Map!Begin(t, "find", k, NULL)
  <2>1. /\ pc'[t] = "g_rdlock" /\ key' = [key EXCEPT ![t] = k] /\ UNCHANGED <<val, map>>
        /\ seen' = [seen EXCEPT ![t] = {map[k]}]
    BY <1>1, <1>5 DEF GetStart, Goto, TypeOK
  <2>2. OpOf(t)' = "find" /\ ResOf(t)' = {} /\ ResOf(t) = {}
    BY <1>2, <2>1 DEF OpOf, ResOf
  <2>3. Ops' = [Ops EXCEPT ![t] = "find"] /\ Results' = Results
    BY <1>4, <2>2 DEF Results
  <2>4. val' = [val EXCEPT ![t] = NULL]
    BY <1>1, <1>3, <2>1 DEF TypeOK
  <2> QED
    BY <1>1, <1>3, <2>1, <2>3, <2>4 DEF Map!Begin, Ops, Results
<1>6. ASSUME NEW k \in Key, DeleteLock(t, k) PROVE Map!Begin(t, "del", k, NULL)
  <2>1. /\ pc'[t] = "d_walk" /\ key' = [key EXCEPT ![t] = k] /\ UNCHANGED <<val, map, seen>>
    BY <1>1, <1>6 DEF DeleteLock, Goto, TypeOK, history
  <2>2. OpOf(t)' = "del" /\ ResOf(t)' = {} /\ ResOf(t) = {}
    BY <1>2, <2>1 DEF OpOf, ResOf
  <2>3. Ops' = [Ops EXCEPT ![t] = "del"] /\ Results' = Results
    BY <1>4, <2>2 DEF Results
  <2>4. val' = [val EXCEPT ![t] = NULL] /\ seen' = [seen EXCEPT ![t] = {}]
    BY <1>1, <1>3, <2>1 DEF TypeOK
  <2> QED
    BY <1>1, <1>3, <2>1, <2>3, <2>4 DEF Map!Begin, Ops, Results
<1>7. ASSUME NEW k \in Key, NEW v \in Val, InsertLock(t, k, v) PROVE Map!Begin(t, "add", k, v)
  <2>1. /\ pc'[t] = "i_near" /\ key' = [key EXCEPT ![t] = k] /\ val' = [val EXCEPT ![t] = v]
        /\ UNCHANGED <<map, seen>>
    BY <1>1, <1>7 DEF InsertLock, Goto, TypeOK, history
  <2>2. OpOf(t)' = "add" /\ ResOf(t)' = {} /\ ResOf(t) = {}
    BY <1>2, <2>1 DEF OpOf, ResOf
  <2>3. Ops' = [Ops EXCEPT ![t] = "add"] /\ Results' = Results
    BY <1>4, <2>2 DEF Results
  <2>4. seen' = [seen EXCEPT ![t] = {}]
    BY <1>1, <1>3, <2>1 DEF TypeOK
  <2> QED
    BY <1>1, <1>3, <2>1, <2>3, <2>4 DEF Map!Begin, Ops, Results
<1> QED
  BY <1>5, <1>6, <1>7 DEF Call, Map!Next

(* An operation goes on without the map noticing.                          *)
LEMMA QuietMap ==
  ASSUME MapInv, MapInv', NEW t \in Thread, \A u \in Thread \ {t} : Untouched(u),
         OpOf(t)' = OpOf(t), ResOf(t)' = ResOf(t), UNCHANGED <<map, key, val, seen>>
  PROVE  UNCHANGED Map!vars
<1>1. TreeMap' = TreeMap
  BY DEF MapInv
<1>2. Ops' = Ops /\ Results' = Results
  BY OnlyMine DEF Ops, Results
<1> QED
  BY <1>1, <1>2 DEF Map!vars, Ops, Results

(* An operation returns.                                                   *)
LEMMA EndStep ==
  ASSUME MapInv, MapInv', NEW t \in Thread, \A u \in Thread \ {t} : Untouched(u),
         ResOf(t) # {}, pc'[t] = "idle",
         key' = [key EXCEPT ![t] = NULL], val' = [val EXCEPT ![t] = NULL],
         seen' = [seen EXCEPT ![t] = {}], map' = map
  PROVE  Map!End(t)
<1>1. TreeMap' = TreeMap /\ Results[t] # {}
  BY DEF MapInv, Results
<1>2. OpOf(t)' = "none" /\ ResOf(t)' = {}
  BY DEF OpOf, ResOf
<1>3. Ops' = [Ops EXCEPT ![t] = "none"] /\ Results' = [Results EXCEPT ![t] = {}]
  BY <1>2, OnlyMine
<1> QED
  BY <1>1, <1>3 DEF Map!End, Ops, Results

(* An operation takes effect: add and del ...                              *)
LEMMA EffectStep ==
  ASSUME MapInv, MapInv', NEW t \in Thread, \A u \in Thread \ {t} : Untouched(u),
         NEW r, OpOf(t)' = OpOf(t), ResOf(t) = {}, ResOf(t)' = {r}, UNCHANGED <<key, val>>
  PROVE  /\ TreeMap = map /\ TreeMap' = map'
         /\ Ops[t] = OpOf(t) /\ Ops' = Ops /\ Map!Result(t, r)
<1>1. Ops' = [Ops EXCEPT ![t] = OpOf(t)'] /\ Results' = [Results EXCEPT ![t] = {r}]
  BY OnlyMine
<1>2. Ops[t] = OpOf(t) /\ Ops' = Ops /\ Results[t] = {}
  BY <1>1 DEF Ops, Results
<1> QED
  BY <1>1, <1>2 DEF MapInv, Map!Result, Results

(* ... with the bindings.                                                  *)
LEMMA BindStep ==
  ASSUME MapInv, MapInv', NEW k \in Key, NEW v, Bind(k, v)
  PROVE  Map!Bind(k, v)
<1>1. TreeMap = map /\ TreeMap' = map'
  BY DEF MapInv
<1>2. \A r \in Thread : seen[r] # {} <=> OpOf(r) = "find"
  BY DEF OpOf, MapInv, Inv, TreeInv, ReaderOK, Getting
<1>3. \A r \in Thread : Ops[r] = OpOf(r)
  BY DEF Ops
<1>4. seen' = [r \in Thread |-> IF Ops[r] = "find" /\ key[r] = k THEN seen[r] \cup {v} ELSE seen[r]]
  BY <1>2, <1>3 DEF Bind
<1> QED
  BY <1>1, <1>4 DEF Bind, Map!Bind, Ops

-----------------------------------------------------------------------------
(* A get answers with a binding its key had during the call.               *)
LEMMA GetMap ==
  ASSUME MapInv, MapInv', AllFresh', NEW t \in Thread, Get(t)
  PROVE  Map!Next \/ UNCHANGED Map!vars
<1>1. TypeOK
  BY DEF MapInv, Inv, TypeInv
<1>2. CASE GetRdLock(t) \/ GetHead(t) \/ GetWalk(t)
  <2>1. /\ \A u \in Thread \ {t} : Untouched(u)
        /\ pc[t] \in {"g_rdlock", "g_head", "g_walk"} /\ pc'[t] \in {"g_rdlock", "g_head", "g_walk"}
        /\ UNCHANGED <<map, key, val, seen>>
    BY <1>1, <1>2 DEF GetRdLock, GetHead, GetWalk, Goto, locals, history, TypeOK, Untouched
  <2>2. OpOf(t)' = OpOf(t) /\ ResOf(t)' = ResOf(t)
    BY <2>1 DEF OpOf, ResOf
  <2> QED
    BY <2>1, <2>2, QuietMap
<1>3. CASE GetCompare(t)
  <2>1. /\ \A u \in Thread \ {t} : Untouched(u)
        /\ pc[t] = "g_walk" /\ pc'[t] = "g_unlock"
        /\ UNCHANGED <<map, key, val, seen>>
    BY <1>1, <1>3 DEF GetCompare, Goto, locals, history, TypeOK, Untouched
  <2>2. OpOf(t) = "find" /\ OpOf(t)' = "find" /\ ResOf(t) = {} /\ ResOf(t)' = {ret'[t]}
    BY <2>1 DEF OpOf, ResOf
  <2>3. ret'[t] \in seen[t]
    <3>1. ReaderOK(t)' /\ Reading(t)' /\ fresh'[t]
      BY <2>1 DEF MapInv, Inv, TreeInv, Reading, AllFresh
    <3> QED
      BY <2>1, <3>1 DEF ReaderOK
  <2>4. /\ TreeMap = map /\ TreeMap' = map'
        /\ Ops[t] = "find" /\ Ops' = Ops /\ Map!Result(t, ret'[t])
    BY <2>1, <2>2, EffectStep
  <2>5. Map!Find(t)
    BY <2>1, <2>3, <2>4 DEF Map!Find, Ops
  <2> QED
    BY <2>5 DEF Map!Next
<1>4. CASE GetUnlock(t)
  <2>1. /\ \A u \in Thread \ {t} : Untouched(u)
        /\ pc[t] = "g_unlock" /\ pc'[t] = "idle"
        /\ key' = [key EXCEPT ![t] = NULL] /\ val' = [val EXCEPT ![t] = NULL]
        /\ seen' = [seen EXCEPT ![t] = {}] /\ map' = map
    BY <1>1, <1>4 DEF GetUnlock, Return, TypeOK, Untouched
  <2>2. ResOf(t) # {}
    BY <2>1 DEF ResOf
  <2>3. Map!End(t)
    BY <2>1, <2>2, EndStep
  <2> QED
    BY <2>3 DEF Map!Next
<1> QED
  BY <1>2, <1>3, <1>4 DEF Get

(* An insertion finds its place only if the key is not in the tree.        *)
LEMMA InsertMap ==
  ASSUME MapInv, MapInv', NEW t \in Thread, Insert(t), ~InsertNoMem(t)
  PROVE  Map!Next \/ UNCHANGED Map!vars
<1>1. TypeOK /\ Inv
  BY DEF MapInv, Inv, TypeInv
<1>2. CASE InsertNear(t) \/ InsertAlloc(t) \/ InsertDescend(t)
  <2>1. /\ \A u \in Thread \ {t} : Untouched(u)
        /\ pc[t] \in {"i_near", "i_slot"} /\ pc'[t] \in {"i_near", "i_slot"}
        /\ UNCHANGED <<map, key, val, seen>>
    BY <1>1, <1>2 DEF InsertNear, InsertAlloc, InsertDescend, Goto, history, TypeOK, Untouched
  <2>2. OpOf(t)' = OpOf(t) /\ ResOf(t)' = ResOf(t)
    BY <2>1 DEF OpOf, ResOf
  <2> QED
    BY <2>1, <2>2, QuietMap
<1>3. ASSUME InsertFirst(t) \/ InsertLink(t) PROVE Map!Add(t)
  <2>1. /\ \A u \in Thread \ {t} : Untouched(u)
        /\ pc[t] \in {"i_near", "i_slot"} /\ pc'[t] = "w_unlock" /\ ret'[t] = 0
        /\ UNCHANGED <<key, val>> /\ Bind(key[t], val[t]) /\ key[t] \in Key
    <3>1. pc[t] \in {"i_near", "i_slot"} /\ key[t] \in Key
      BY <1>1, <1>3 DEF InsertFirst, InsertLink, Inv, TypeInv, ArgsOK
    <3> QED
      BY <1>1, <1>3, <3>1 DEF InsertFirst, InsertLink, Goto, locals, TypeOK, Untouched
  <2>2. OpOf(t) = "add" /\ OpOf(t)' = "add" /\ ResOf(t) = {} /\ ResOf(t)' = {0}
    BY <2>1 DEF OpOf, ResOf
  <2>3. key[t] \notin Bound
    <3>1. CASE InsertFirst(t)
      <4>1. head = NULL
        BY <1>1, <3>1 DEF InsertFirst, Inv, TreeInv, InsertOK
      <4> QED
        BY <1>1, <4>1, HeadInTree, AddressAssumption DEF Inv, TreeInv, Block
    <3>2. CASE InsertLink(t)
      BY <1>1, <3>2 DEF InsertLink, Inv, TreeInv, InsertOK
    <3> QED
      BY <1>3, <3>1, <3>2
  <2>4. map[key[t]] = NULL
    BY <2>1, <2>3 DEF Bound
  <2>5. /\ TreeMap = map /\ TreeMap' = map'
        /\ Ops[t] = "add" /\ Ops' = Ops /\ Map!Result(t, 0)
    BY <2>1, <2>2, EffectStep
  <2>6. Map!Bind(key[t], val[t])
    BY <2>1, BindStep
  <2> QED
    BY <2>1, <2>4, <2>5, <2>6 DEF Map!Add, Ops
<1>4. ASSUME InsertExists(t) PROVE Map!Add(t)
  <2>1. /\ \A u \in Thread \ {t} : Untouched(u)
        /\ pc[t] = "i_near" /\ pc'[t] = "w_unlock" /\ ret'[t] = 1
        /\ UNCHANGED <<key, val, map, seen>> /\ p[t] \in Str /\ str[p[t]].key = key[t]
    BY <1>1, <1>4 DEF InsertExists, Goto, locals, history, TypeOK, Untouched
  <2>2. OpOf(t) = "add" /\ OpOf(t)' = "add" /\ ResOf(t) = {} /\ ResOf(t)' = {1}
    BY <2>1 DEF OpOf, ResOf
  <2>3. p[t] # NULL /\ ShapeInv
    BY <1>1, <2>1, AddressAssumption DEF Inv, TreeInv
  <2>4. p[t] \in Tree
    BY <1>1, <2>1, <2>3, TreePath DEF Inv, TreeInv, InsertOK, OnWalk, Follows
  <2>5. key[t] \in Bound
    BY <2>1, <2>3, <2>4, TreeString
  <2>6. map[key[t]] # NULL
    BY <2>5 DEF Bound
  <2>7. /\ TreeMap = map /\ TreeMap' = map'
        /\ Ops[t] = "add" /\ Ops' = Ops /\ Map!Result(t, 1)
    BY <2>1, <2>2, EffectStep
  <2> QED
    BY <2>1, <2>6, <2>7 DEF Map!Add, Ops
<1>5. ASSUME WriterUnlock(t) PROVE Map!End(t)
  <2>1. /\ \A u \in Thread \ {t} : Untouched(u)
        /\ pc[t] = "w_unlock" /\ pc'[t] = "idle"
        /\ key' = [key EXCEPT ![t] = NULL] /\ val' = [val EXCEPT ![t] = NULL]
        /\ seen' = seen /\ map' = map
    BY <1>1, <1>5 DEF WriterUnlock, Return, history, TypeOK, Untouched
  <2>2. seen' = [seen EXCEPT ![t] = {}]
    BY <1>1, <2>1 DEF Inv, TreeInv, ReaderOK, Getting, TypeOK
  <2>3. ResOf(t) # {}
    BY <2>1 DEF ResOf
  <2> QED
    BY <2>1, <2>2, <2>3, EndStep
<1> QED
  BY <1>2, <1>3, <1>4, <1>5 DEF Insert, Map!Next

(* A deletion says that its key is absent only if it is.                   *)
LEMMA DeleteMap ==
  ASSUME MapInv, MapInv', NEW t \in Thread, Delete(t)
  PROVE  Map!Next \/ UNCHANGED Map!vars
<1>1. TypeOK /\ Inv /\ ShapeInv /\ DeleteOK(t) /\ (pc[t] # "idle" => key[t] \in Key)
  BY DEF MapInv, Inv, TypeInv, ArgsOK, TreeInv
<1>2. CASE DeleteWalk(t) \/ DeleteSwap(t) \/ DeleteWait(t) \/ DeleteCompare(t)
  <2>1. /\ \A u \in Thread \ {t} : Untouched(u)
        /\ UNCHANGED <<map, key, val, seen>>
        /\ \/ pc[t] = "d_walk" /\ pc'[t] = "d_walk"
           \/ pc[t] = "d_swap" /\ pc'[t] = "d_wait" /\ p'[t] = p[t]
           \/ pc[t] = "d_wait" /\ pc'[t] = "d_unlock" /\ p'[t] = p[t]
           \/ pc[t] = "d_cmp" /\ pc'[t] = "d_free"
    BY <1>1, <1>2 DEF DeleteWalk, DeleteSwap, DeleteWait, DeleteCompare, Goto, locals, history, TypeOK,
                      Untouched
  <2>2. OpOf(t)' = OpOf(t) /\ ResOf(t)' = ResOf(t)
    BY <2>1 DEF OpOf, ResOf
  <2> QED
    BY <2>1, <2>2, QuietMap
<1>3. ASSUME DeleteAbsent(t) PROVE Map!Del(t)
  <2>1. /\ \A u \in Thread \ {t} : Untouched(u)
        /\ pc[t] = "d_walk" /\ pc'[t] = "d_swap" /\ p'[t] = NULL
        /\ UNCHANGED <<key, val, map, seen>>
        /\ p[t] # NULL => p[t] \in Str /\ str[p[t]].key # key[t]
    BY <1>1, <1>3 DEF DeleteAbsent, Goto, history, TypeOK, Untouched
  <2>2. OpOf(t) = "del" /\ OpOf(t)' = "del" /\ ResOf(t) = {} /\ ResOf(t)' = {1}
    BY <2>1 DEF OpOf, ResOf
  <2>3. key[t] \notin Bound
    <3>1. CASE p[t] = NULL
      <4>1. head = NULL
        BY <1>1, <2>1, <3>1 DEF DeleteOK
      <4> QED
        BY <1>1, <4>1, HeadInTree, AddressAssumption DEF Block
    <3>2. CASE p[t] # NULL
      <4> SUFFICES ASSUME key[t] \in Bound PROVE FALSE
        OBVIOUS
      <4>1. p[t] \in path[key[t]] \cap Str
        BY <1>1, <2>1, <3>2 DEF DeleteOK, Follows
      <4>2. str[p[t]] = [key |-> key[t], val |-> map[key[t]]]
        BY <1>1, <4>1 DEF ShapeInv, Leaves
      <4>3. str[p[t]].key = key[t]
        BY <4>2
      <4> QED
        BY <2>1, <3>2, <4>3
    <3> QED
      BY <3>1, <3>2
  <2>4. map[key[t]] = NULL
    BY <1>1, <2>1, <2>3 DEF Bound
  <2>5. /\ TreeMap = map /\ TreeMap' = map'
        /\ Ops[t] = "del" /\ Ops' = Ops /\ Map!Result(t, 1)
    BY <2>1, <2>2, EffectStep
  <2> QED
    BY <2>1, <2>4, <2>5 DEF Map!Del, Ops
<1>4. ASSUME DeleteUnlink(t) PROVE Map!Del(t)
  <2>1. /\ \A u \in Thread \ {t} : Untouched(u)
        /\ pc[t] = "d_walk" /\ pc'[t] = "d_swap" /\ UNCHANGED <<key, val>>
        /\ Bind(key[t], NULL) /\ key[t] \in Bound /\ key[t] \in Key /\ p[t] \in Str
    BY <1>1, <1>4, UnlinkFacts DEF DeleteUnlink
  <2>2. p'[t] # NULL
    BY <1>1, <1>4, <2>1, AddressAssumption DEF DeleteUnlink, TypeOK
  <2>3. OpOf(t) = "del" /\ OpOf(t)' = "del" /\ ResOf(t) = {} /\ ResOf(t)' = {0}
    BY <2>1, <2>2 DEF OpOf, ResOf
  <2>4. map[key[t]] # NULL
    BY <2>1 DEF Bound
  <2>5. /\ TreeMap = map /\ TreeMap' = map'
        /\ Ops[t] = "del" /\ Ops' = Ops /\ Map!Result(t, 0)
    BY <2>1, <2>3, EffectStep
  <2>6. Map!Bind(key[t], NULL)
    BY <2>1, BindStep
  <2> QED
    BY <2>1, <2>4, <2>5, <2>6 DEF Map!Del, Ops
<1>5. ASSUME (DeleteUnlock(t) /\ p[t] = NULL) \/ DeleteFree(t) PROVE Map!End(t)
  <2>1. /\ \A u \in Thread \ {t} : Untouched(u)
        /\ pc[t] \in {"d_unlock", "d_free"} /\ pc'[t] = "idle"
        /\ key' = [key EXCEPT ![t] = NULL] /\ val' = [val EXCEPT ![t] = NULL]
        /\ seen' = seen /\ map' = map
    BY <1>1, <1>5 DEF DeleteUnlock, DeleteFree, Return, history, TypeOK, Untouched
  <2>2. seen' = [seen EXCEPT ![t] = {}]
    BY <1>1, <2>1 DEF Inv, TreeInv, ReaderOK, Getting, TypeOK
  <2>3. ResOf(t) # {}
    BY <2>1 DEF ResOf
  <2> QED
    BY <2>1, <2>2, <2>3, EndStep
<1>6. CASE DeleteUnlock(t) /\ p[t] # NULL
  <2>1. /\ \A u \in Thread \ {t} : Untouched(u)
        /\ pc[t] = "d_unlock" /\ pc'[t] \in {"d_cmp", "d_free"}
        /\ UNCHANGED <<map, key, val, seen>>
    BY <1>1, <1>6 DEF DeleteUnlock, Goto, locals, history, TypeOK, Untouched
  <2>2. OpOf(t)' = OpOf(t) /\ ResOf(t)' = ResOf(t)
    BY <1>6, <2>1 DEF OpOf, ResOf
  <2> QED
    BY <2>1, <2>2, QuietMap
<1> QED
  BY <1>2, <1>3, <1>4, <1>5, <1>6 DEF Delete, Map!Next

(* critbit_clear empties the map; the rest leaves it alone.                *)
LEMMA ClearMap ==
  ASSUME MapInv, MapInv', Clear
  PROVE  Map!Clear
<1>1. /\ map' = [k \in Key |-> NULL] /\ TreeMap' = map'
      /\ UNCHANGED <<pc, key, val, seen, ret, p>> /\ \A t \in Thread : Ops[t] = "none"
  BY DEF Clear, Idle, locals, MapInv, Ops, OpOf
<1>2. Ops' = Ops /\ Results' = Results
  BY <1>1 DEF Ops, Results, OpOf, ResOf
<1> QED
  BY <1>1, <1>2 DEF Map!Clear, Ops, Results

(* Steps the map does not notice.                                          *)
LEMMA SameMap ==
  ASSUME MapInv, MapInv', UNCHANGED <<pc, key, val, seen, ret, p, map>>
  PROVE  UNCHANGED Map!vars
<1>1. TreeMap' = TreeMap
  BY DEF MapInv
<1>2. Ops' = Ops /\ Results' = Results
  BY DEF Ops, Results, OpOf, ResOf
<1> QED
  BY <1>1, <1>2 DEF Map!vars, Ops, Results

(* What goes wrong is a find in an empty tree.                             *)
LEMMA FaultMap ==
  ASSUME MapInv, MapInv', AllFresh, NEW t \in Thread, Fault(t)
  PROVE  EmptyFind
<1>1. /\ Inv /\ ReaderOK(t) /\ Tree \subseteq live /\ live \subseteq Block /\ key[t] \in Key \cup {NULL}
      /\ TypeInv
  BY DEF MapInv, Inv, TypeInv, TypeOK, TreeInv, HeapInv
<1>2. pc[t] = "g_walk" /\ p[t] = NULL
  <2>1. pc[t] = "g_walk" /\ (p[t] = NULL \/ ~fresh[t])
    BY <1>1, WritersSafe
  <2>2. fresh[t]
    BY <2>1 DEF AllFresh, Reading
  <2> QED
    BY <2>1, <2>2
<1>3. NULL \notin Block /\ NULL \notin Node
  BY AddressAssumption DEF Block
<1>4. NULL \in seen[t]
  <2>1. fresh[t] /\ Reading(t)
    BY <1>2 DEF AllFresh, Reading
  <2>2. key[t] \in Key
    BY <1>1, <1>2 DEF TypeInv, ArgsOK
  <2>3. NULL \notin path[key[t]]
    BY <1>1, <1>3, <2>2 DEF Tree
  <2> QED
    BY <1>1, <1>2, <1>3, <2>1, <2>3 DEF ReaderOK
<1>5. fault' = "null"
  BY <1>2, <1>3 DEF Fault, NullRead, FreedRead, DoubleFree
<1>6. UNCHANGED Map!vars
  BY SameMap DEF Fault, NullRead, FreedRead, DoubleFree, locals, history
<1> QED
  BY <1>2, <1>4, <1>5, <1>6 DEF EmptyFind

(* Every step of the tree is a step of the map or none, or goes wrong.     *)
LEMMA MapStep ==
  ASSUME MapInv, MapInv', AllFresh, AllFresh', [Next]_vars, [\A t \in Thread : ~InsertNoMem(t)]_vars
  PROVE  [(Map!Next /\ UNCHANGED fault) \/ EmptyFind]_<<Map!vars, fault>>
<1>1. ASSUME NEW t \in Thread, Call(t) PROVE Map!Next
  BY <1>1, BeginStep
<1>2. ASSUME NEW t \in Thread, Get(t) PROVE Map!Next \/ UNCHANGED Map!vars
  BY <1>2, GetMap
<1>3. ASSUME NEW t \in Thread, Insert(t), UNCHANGED vars \/ ~InsertNoMem(t)
      PROVE  Map!Next \/ UNCHANGED Map!vars
  <2>1. CASE ~InsertNoMem(t)
    BY <1>3, <2>1, InsertMap
  <2>2. CASE UNCHANGED vars
    BY <2>2, SameMap DEF vars, locals, history
  <2> QED
    BY <1>3, <2>1, <2>2
<1>4. ASSUME NEW t \in Thread, Delete(t) PROVE Map!Next \/ UNCHANGED Map!vars
  BY <1>4, DeleteMap
<1>5. ASSUME NEW t \in Thread, Fault(t) PROVE EmptyFind
  BY <1>5, FaultMap
<1>6. Clear => Map!Next
  BY ClearMap DEF Map!Next
<1>7. New \/ UNCHANGED vars => UNCHANGED Map!vars
  BY SameMap DEF New, vars, locals, history
<1>8. EmptyFind \/ Map!Next \/ UNCHANGED Map!vars
  BY <1>1, <1>2, <1>3, <1>4, <1>5, <1>6, <1>7 DEF Next, Step, Halted
<1>9. fault' # fault => EmptyFind
  BY <1>5, FaultStep
<1> QED
  BY <1>8, <1>9

(* The first state is the empty map.                                       *)
LEMMA MapInit == Init /\ MapInv => Map!Init
<1> SUFFICES ASSUME Init, MapInv PROVE Map!Init
  OBVIOUS
<1>1. TreeMap = [k \in Key |-> NULL]
  BY DEF Init, MapInv
<1>2. \A t \in Thread : OpOf(t) = "none" /\ ResOf(t) = {}
  BY DEF Init, OpOf, ResOf
<1> QED
  BY <1>1, <1>2 DEF Init, Map!Init

(* The tree is the map of helper.h: every add, find and del takes effect   *)
(* once, between call and return, with the result the map says, for any    *)
(* number of readers and inserters beside one deleter; a find that reads   *)
(* the head of an empty tree is all that goes wrong.                       *)
THEOREM TreeImplementsMap ==
  ASSUME OneDeleter
  PROVE  Spec /\ MemoryLasts /\ []AllFresh => ImplementsMap
<1>1. Init /\ MapInv => Map!Init /\ fault = "none"
  BY MapInit DEF Init
<1>2. /\ MapInv /\ MapInv' /\ AllFresh /\ AllFresh' /\ [Next]_vars
      /\ [\A t \in Thread : ~InsertNoMem(t)]_vars
      => [(Map!Next /\ UNCHANGED fault) \/ EmptyFind]_<<Map!vars, fault>>
  BY MapStep
<1> QED
  BY <1>1, <1>2, MapInvAlways, PTL DEF Spec, MemoryLasts, ImplementsMap

-----------------------------------------------------------------------------
(***************************************************************************)
(* Where the readers are fresh: when only the deleting thread itself reads *)
(* beside it.  So does the one thread of main in the phases of helper.c    *)
(* outside get_threaded, and so would threads of which one updates a tree  *)
(* nobody else reads.  The 32 threads of get_threaded all read and delete: *)
(* they meet neither this hypothesis nor OneDeleter.                       *)
(***************************************************************************)
NoReaderBesideDeleter ==
  \A t, u \in Thread : "get" \in May[t] /\ "delete" \in May[u] => t = u

FreshInv ==
  \A t \in Thread :
    /\ Getting(t) => "get" \in May[t]
    /\ pc[t] = "g_rdlock" => lock[t] = cur
    /\ Reading(t) => fresh[t]

(* No lock swap comes between the load of a get and its lock.              *)
LEMMA FreshStep ==
  ASSUME NoReaderBesideDeleter, Inv, FreshInv, [Next]_vars
  PROVE  FreshInv'
<1>1. SyncType /\ ret \in [Thread -> Val \cup {NULL, 0, 1}]
  BY DEF Inv, TypeInv, TypeOK, SyncType
<1>2. \A t \in Thread : pc[t] = "d_swap" => "delete" \in May[t]
  BY DEF Inv, TreeInv, DeleteOK, Unlinking
<1>3. ~root => \A t \in Thread : pc[t] = "idle"
  BY DEF Inv, LockInv
<1> USE <1>1 DEF FreshInv, Getting, Reading, SyncType, Goto, Return, sync, locals, history, PC
<1>4. ASSUME NEW t \in Thread, Get(t) PROVE FreshInv'
  <2>1. CASE GetRdLock(t)
    <3>1. fresh' = [fresh EXCEPT ![t] = (lock[t] = cur)] /\ lock[t] = cur
      BY <2>1 DEF GetRdLock
    <3>2. fresh'[t] = TRUE /\ \A u \in Thread : u # t => fresh'[u] = fresh[u]
      BY <3>1
    <3>3. UNCHANGED <<lock, cur>> /\ pc' = [pc EXCEPT ![t] = "g_head"] /\ pc[t] = "g_rdlock"
      BY <2>1 DEF GetRdLock
    <3> QED
      BY <3>2, <3>3
  <2>2. CASE ~GetRdLock(t)
    BY <1>4, <2>2 DEF Get, GetHead, GetWalk, GetCompare, GetUnlock
  <2> QED
    BY <2>1, <2>2
<1>5. ASSUME NEW t \in Thread, Insert(t) PROVE FreshInv'
  <2>1. /\ UNCHANGED <<cur, fresh>> /\ pc'[t] \in {"i_near", "i_slot", "w_unlock", "idle"}
        /\ \A u \in Thread \ {t} : pc'[u] = pc[u] /\ lock'[u] = lock[u]
    <3>1. CASE InsertLink(t)
      BY <3>1 DEF InsertLink, Bind
    <3>2. CASE ~InsertLink(t)
      BY ZenonT(40), <1>5, <3>2 DEF Insert, InsertFirst, InsertNear, InsertExists, InsertAlloc, InsertNoMem,
         InsertDescend, WriterUnlock, Bind
    <3> QED
      BY <3>1, <3>2
  <2> QED
    BY <2>1
<1>6. ASSUME NEW t \in Thread, Delete(t) PROVE FreshInv'
  <2>1. CASE DeleteSwap(t)
    <3>1. \A u \in Thread : ~Getting(u)
      BY <1>2, <2>1 DEF DeleteSwap, NoReaderBesideDeleter
    <3> QED
      BY <2>1, <3>1 DEF DeleteSwap
  <2>2. CASE ~DeleteSwap(t)
    BY <1>6, <2>2 DEF Delete, DeleteWalk, DeleteAbsent, DeleteUnlink, DeleteWait, DeleteUnlock,
       DeleteCompare, DeleteFree, Bind, IsInternal
  <2> QED
    BY <2>1, <2>2
<1>7. ASSUME NEW t \in Thread, Fault(t) PROVE FreshInv'
  BY <1>7 DEF Fault, NullRead, FreedRead, DoubleFree
<1>8. ASSUME NEW t \in Thread, Call(t) PROVE FreshInv'
  BY <1>8 DEF Call, GetStart, InsertLock, DeleteLock
<1>9. Clear \/ New \/ UNCHANGED vars => FreshInv'
  BY <1>3 DEF Clear, New, vars
<1> QED
  BY <1>4, <1>5, <1>6, <1>7, <1>8, <1>9 DEF Next, Step, Halted

(* Without a reader beside the deleter, as in every phase of helper.c but  *)
(* get_threaded, the tree implements the map as long as memory lasts, but  *)
(* for finds in an empty tree: no hypothesis about the order of steps is   *)
(* left.                                                                   *)
THEOREM ImplementsMapWithoutRaces ==
  ASSUME OneDeleter, NoReaderBesideDeleter
  PROVE  Spec /\ MemoryLasts => ImplementsMap
<1>1. Init => FreshInv
  BY DEF Init, FreshInv, Getting, Reading
<1>2. Inv /\ FreshInv /\ [Next]_vars => FreshInv'
  BY FreshStep
<1>3. FreshInv => AllFresh
  BY DEF FreshInv, AllFresh
<1> QED
  BY <1>1, <1>2, <1>3, InvAlways, TreeImplementsMap, PTL DEF Spec
==============================================================================
