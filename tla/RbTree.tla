------------------------------- MODULE RbTree -------------------------------
(***************************************************************************)
(* The red-black tree of tree.h, as RB_GENERATE makes it for bsdtree.c.    *)
(*                                                                         *)
(* A tree is its root and its entries: t.node[k] is the entry with key k,  *)
(* with the fields left, right, parent and color.  An entry is named by    *)
(* its key, and keys are numbers that stand for strings in the order of    *)
(* strcmp.  The two halves of INSERT_COLOR, REMOVE_COLOR, NEXT and PREV    *)
(* are mirror images: one operator with the side as a parameter.  A loop   *)
(* that walks through the tree is a recursive function of the entry it is  *)
(* at; a loop that changes it is a function of the iterations made, which  *)
(* are no more than there are entries, and is constant once it has ended.  *)
(***************************************************************************)
EXTENDS Integers, Sequences, FiniteSets

CONSTANT NULL

Empty == [root |-> NULL, node |-> <<>>]
Entries(t) == DOMAIN t.node
Places(t) == Entries(t) \cup {NULL}
Rounds(t) == 0 .. Cardinality(Entries(t))

Other(s) == IF s = "left" THEN "right" ELSE "left"
(* The side of p on which k hangs. *)
Side(t, p, k) == IF t.node[p]["left"] = k THEN "left" ELSE "right"
IsRed(t, k) == k # NULL /\ t.node[k].color = "red"

Paint(t, k, c) == IF k = NULL THEN t ELSE [t EXCEPT !.node[k].color = c]
SetBlackRed(t, black, red) == Paint(Paint(t, black, "black"), red, "red")

SetParent(t, k, p) == IF k = NULL THEN t ELSE [t EXCEPT !.node[k].parent = p]
(* Entry k's place below its parent p, or at the root, is taken by x. *)
Replace(t, p, k, x) ==
  IF p = NULL THEN [t EXCEPT !.root = x] ELSE [t EXCEPT !.node[p][Side(t, p, k)] = x]

(* RB_ROTATE_LEFT for s = "left": k sinks to side s. *)
Rotate(t, k, s) ==
  LET x == t.node[k][Other(s)]
      mid == t.node[x][s]
      p == t.node[k].parent
      up == SetParent(Replace(SetParent(t, mid, k), p, k, x), x, p)
  IN [up EXCEPT !.node[k][Other(s)] = mid, !.node[k].parent = x, !.node[x][s] = k]

(* An iteration of INSERT_COLOR: x.at and its parent may both be red. *)
InsertRound(x) ==
  LET t == x.tree
      k == x.at
      p == t.node[k].parent
      g == t.node[p].parent
      s == Side(t, g, p)
      uncle == t.node[g][Other(s)]
      inside == t.node[p][Other(s)] = k
      straight == IF inside THEN Rotate(t, p, s) ELSE t
      above == IF inside THEN k ELSE p
      below == IF inside THEN p ELSE k
  IN IF ~IsRed(t, p) THEN x
     ELSE IF IsRed(t, uncle)
     THEN [tree |-> SetBlackRed(Paint(t, uncle, "black"), p, g), at |-> g]
     ELSE [tree |-> Rotate(SetBlackRed(straight, above, g), g, Other(s)), at |-> below]

InsertColor(t, k) ==
  LET x[i \in Rounds(t)] == IF i = 0 THEN [tree |-> t, at |-> k] ELSE InsertRound(x[i - 1])
      u == x[Cardinality(Entries(t))].tree
  IN Paint(u, u.root, "black")

(* RB_FIND, and the parent an insertion of k would have. *)
Towards(k, x) == IF k < x THEN "left" ELSE "right"
Find(t, k) ==
  LET at[x \in Places(t)] == IF x = NULL \/ x = k THEN x ELSE at[t.node[x][Towards(k, x)]]
  IN at[t.root]
Parent(t, k) ==
  LET last[x \in Entries(t)] ==
        LET y == t.node[x][Towards(k, x)] IN IF y = NULL THEN x ELSE last[y]
  IN IF t.root = NULL THEN NULL ELSE last[t.root]

RbInsert(t, k) ==
  LET p == Parent(t, k)
      new == [left |-> NULL, right |-> NULL, parent |-> p, color |-> "red"]
      u == [t EXCEPT !.node = [x \in Entries(t) \cup {k} |-> IF x = k THEN new ELSE @[x]]]
      linked == IF p = NULL THEN [u EXCEPT !.root = k]
                ELSE [u EXCEPT !.node[p][Towards(k, p)] = k]
  IN IF Find(t, k) = NULL THEN InsertColor(linked, k) ELSE t

(* RB_MINMAX below x. *)
Extreme(t, x, s) ==
  LET last[y \in Places(t)] ==
        IF y = NULL THEN y ELSE IF t.node[y][s] = NULL THEN y ELSE last[t.node[y][s]]
  IN last[x]

(* An iteration of REMOVE_COLOR: the path lacks a black entry at z.at,     *)
(* below z.parent, and z.at may be NULL.                                   *)
RemoveRound(z) ==
  LET t == z.tree
      p == z.parent
      x == z.at
      s == Side(t, p, x)
      o == Other(s)
      y0 == t.node[p][o]
      t1 == IF IsRed(t, y0) THEN Rotate(SetBlackRed(t, y0, p), p, s) ELSE t
      y1 == t1.node[p][o]
      near == t1.node[y1][s]
      t2 == IF IsRed(t1, t1.node[y1][o]) THEN t1
            ELSE Rotate(Paint(Paint(t1, near, "black"), y1, "red"), y1, o)
      y2 == t2.node[p][o]
      t3 == Paint(Paint(Paint(t2, y2, t2.node[p].color), p, "black"), t2.node[y2][o], "black")
      t4 == Rotate(t3, p, s)
  IN IF IsRed(t, x) \/ x = t.root THEN z
     ELSE IF ~IsRed(t1, near) /\ ~IsRed(t1, t1.node[y1][o])
     THEN [tree |-> Paint(t1, y1, "red"), parent |-> t1.node[p].parent, at |-> p]
     ELSE [tree |-> t4, parent |-> p, at |-> t4.root]

RemoveColor(t, p, x) ==
  LET z[i \in Rounds(t)] ==
        IF i = 0 THEN [tree |-> t, parent |-> p, at |-> x] ELSE RemoveRound(z[i - 1])
      u == z[Cardinality(Entries(t))]
  IN Paint(u.tree, u.at, "black")

(* Entry k, which has at most the child x, is taken out. *)
Splice(t, k, x) ==
  LET p == t.node[k].parent IN Replace(SetParent(t, x, p), p, k, x)

(* Entry e, already taken out, gets the place of k. *)
Succeed(t, e, k) ==
  LET old == t.node[k]
      moved == Replace([t EXCEPT !.node[e] = old], old.parent, k, e)
  IN SetParent(SetParent(moved, old.left, e), old.right, e)

Drop(t, k) == [t EXCEPT !.node = [x \in Entries(t) \ {k} |-> @[x]]]

RbRemove_NoColor(t, k) ==   (* mutant: the tree is not balanced again *)
  LET both == t.node[k].left # NULL /\ t.node[k].right # NULL
      e == IF both THEN Extreme(t, t.node[k].right, "left") ELSE k
      x == IF t.node[e].left = NULL THEN t.node[e].right ELSE t.node[e].left
  IN Drop(IF both THEN Succeed(Splice(t, e, x), e, k) ELSE Splice(t, e, x), k)
RbRemove(t, k) ==
  LET both == t.node[k].left # NULL /\ t.node[k].right # NULL
      e == IF both THEN Extreme(t, t.node[k].right, "left") ELSE k
      x == IF t.node[e].left = NULL THEN t.node[e].right ELSE t.node[e].left
      p == IF t.node[e].parent = k THEN e ELSE t.node[e].parent
      u == IF both THEN Succeed(Splice(t, e, x), e, k) ELSE Splice(t, e, x)
  IN Drop(IF t.node[e].color = "black" THEN RemoveColor(u, p, x) ELSE u, k)

(* RB_NEXT for s = "right", RB_PREV for s = "left".  The ancestors from    *)
(* which k is on side s are passed; the one above them is the neighbour.   *)
Climb(t, k, s) ==
  LET top[x \in Entries(t)] ==
        LET p == t.node[x].parent
        IN IF p = NULL THEN x ELSE IF t.node[p][s] = x THEN top[p] ELSE x
  IN top[k]
Neighbour(t, k, s) ==
  IF t.node[k][s] # NULL THEN Extreme(t, t.node[k][s], Other(s))
  ELSE t.node[Climb(t, k, s)].parent

(* RB_FOREACH for s = "right", RB_FOREACH_REVERSE for s = "left", from k.  *)
Foreach(t, k, s) ==
  LET from[x \in Places(t)] == IF x = NULL THEN <<>> ELSE <<x>> \o from[Neighbour(t, x, s)]
  IN from[k]

(* RB_NFIND: the last entry on the walk from which it goes left. *)
NFind(t, k) ==
  LET least[x \in Places(t)] ==
        IF x = NULL \/ x = k THEN x
        ELSE LET y == least[t.node[x][Towards(k, x)]]
             IN IF y = NULL /\ k < x THEN x ELSE y
  IN least[t.root]

-----------------------------------------------------------------------------
(* What a tree has to be. *)

(* The entries down from x. *)
Below(t, x) ==
  LET b[y \in Places(t)] == IF y = NULL THEN {} ELSE {y} \cup b[t.node[y].left] \cup b[t.node[y].right]
  IN b[x]

(* Black entries on the way down from x, on the left. *)
Height(t, x) ==
  LET h[y \in Places(t)] == IF y = NULL THEN 0 ELSE h[t.node[y].left] + IF IsRed(t, y) THEN 0 ELSE 1
  IN h[x]
============================================================================
