-------------------------------- MODULE Art --------------------------------
(***************************************************************************)
(* The adaptive radix tree of art.c: what its functions compute.           *)
(*                                                                         *)
(* The code is sequential and no block is reachable in two ways, so a      *)
(* subtree is a value: recursive_insert(n, ref, ...), which updates *ref,  *)
(* is an operator whose result is the new *ref.  A key is a sequence of    *)
(* bytes.  The node sizes and thresholds of the code are constants.        *)
(*                                                                         *)
(* A loop or a recursion down the tree is a function of the number of      *)
(* steps made, the same from where it ends on.  No way down has more than  *)
(* MaxLen inner nodes.                                                     *)
(***************************************************************************)
EXTENDS Integers, SequencesExt

CONSTANTS
  NByte,       (* the number of bytes: 256                                 *)
  MaxPrefix,   (* MAX_PREFIX_LEN: 10                                       *)
  Size4, Size16, Size48,           (* the sizes of the nodes: 4, 16, 48    *)
  Shrink16, Shrink48, Shrink256,   (* where nodes shrink: 3, 12, 37        *)
  MaxLen,      (* no key in a tree is longer                               *)
  NULL

Byte == 0 .. NByte - 1
(* A byte as a char, which is signed: in _mm_cmplt_epi8, and in a caller's *)
(* key where that is compared with the unsigned chars of a leaf.           *)
Signed(c) == IF c < NByte \div 2 THEN c ELSE c - NByte

(* Children of "node4" and "node16" are sequences, in step with keys; those *)
(* of "node48" are the slots 1 .. Size48, to which keys maps bytes (0: no   *)
(* child); those of "node256" are indexed by bytes.  partial holds the      *)
(* first MaxPrefix of the plen bytes of the compressed path.                *)
Nil == [kind |-> "null"]
Leaf(k, v) == [kind |-> "leaf", key |-> k, value |-> v]
Node4(plen, partial) ==
  [kind |-> "node4", num |-> 0, plen |-> plen, partial |-> partial,
   keys |-> <<>>, children |-> <<>>]

IsLeaf(n) == n.kind = "leaf"
IsInner(n) == n.kind \notin {"null", "leaf"}

Ascending(S) == [i \in 1 .. Cardinality(S) |-> CHOOSE x \in S : Cardinality({y \in S : y < x}) = i - 1]

(* The slots that hold a child. *)
Used(n) ==
  CASE n.kind = "node48"  -> {n.keys[c] : c \in Byte} \ {0}
    [] n.kind = "node256" -> {c \in Byte : n.children[c] # Nil}
    [] OTHER              -> 1 .. n.num

(* The slots of a node in the order in which minimum, maximum and          *)
(* recursive_iter go through them.                                         *)
Slots(n) ==
  IF n.kind = "node48"
  THEN LET s == Ascending({c \in Byte : n.keys[c] # 0}) IN [i \in DOMAIN s |-> n.keys[s[i]]]
  ELSE Ascending(Used(n))

(* find_child: the slot for byte c, if there is one. *)
FindChild(n, c) ==
  CASE n.kind = "node48"  -> {n.keys[c]} \ {0}
    [] n.kind = "node256" -> {b \in {c} : n.children[b] # Nil}
    [] OTHER              -> LET m == {i \in 1 .. n.num : n.keys[i] = c}
                             IN IF m = {} THEN {} ELSE {Min(m)}

Child(n, c) == IF FindChild(n, c) = {} THEN Nil ELSE n.children[Min(FindChild(n, c))]

Steps == 0 .. MaxLen

Lower(n) == IF IsInner(n) THEN n.children[Head(Slots(n))] ELSE n
Minimum(n) ==
  LET low[i \in Steps] == IF i = 0 THEN n ELSE Lower(low[i - 1]) IN low[MaxLen]
Upper(n) == IF IsInner(n) THEN n.children[Last(Slots(n))] ELSE n
Maximum(n) ==
  LET up[i \in Steps] == IF i = 0 THEN n ELSE Upper(up[i - 1]) IN up[MaxLen]

(* A place is a reference of the tree, with the depth of what it refers to *)
(* and the slot of the node above that holds it.                           *)
Top(n) == [ref |-> n, depth |-> 0, slot |-> 0]
Below(x, s) == [ref |-> x.ref.children[s], depth |-> x.depth + x.ref.plen + 1, slot |-> s]

(* A way is the sequence of places from the root to one below; it may go   *)
(* on in one of some slots, at most one.                                   *)
Longer(way, slots) ==
  IF slots = {} THEN way ELSE Append(way, Below(Last(way), Min(slots)))

(* The root when the reference at the end of a way becomes n. *)
Updated(way, n) ==
  LET new[i \in 1 .. Len(way)] ==
        IF i = Len(way) THEN n
        ELSE [way[i].ref EXCEPT !.children[way[i + 1].slot] = new[i + 1]]
  IN new[1]

-----------------------------------------------------------------------------
(* Reading bytes.  A caller's key is a string that ends with byte 0; what  *)
(* comes after that, or after the key of a leaf, is anything (junk).       *)

KeyAt(k, i, junk) ==
  CASE i < Len(k) -> k[i + 1]
    [] i = Len(k) -> 0
    [] OTHER      -> junk
LeafAt(k, i, junk) == IF i < Len(k) THEN k[i + 1] ELSE junk

(* The first i from `from' on at which s and t[depth ...] differ, or the   *)
(* end of the loop.                                                        *)
Mismatch(s, t, depth, from, to) ==
  Min({i \in from .. to - 1 : s[i + 1] # t[depth + i + 1]} \cup {Max({from, to})})

Stored(n) == Min({MaxPrefix, n.plen})

CheckPrefix(n, k, depth) ==
  Mismatch(n.partial, k, depth, 0, Min({Stored(n), Len(k) - depth}))

(* The path of n has the bytes of the key, as far as they are stored.      *)
PathMatches(n, k, depth) == n.plen = 0 \/ CheckPrefix(n, k, depth) = Stored(n)

(* prefix_mismatch compares the chars of the key with those of the path,   *)
(* and past what is stored of it with the unsigned chars of a leaf, which  *)
(* a char of the key above 127 never equals.                               *)
Chars(k) == [i \in DOMAIN k |-> Signed(k[i])]
PrefixMismatch_Stored(n, k, depth) ==   (* mutant: never looks into a leaf *)
  CheckPrefix(n, k, depth)
PrefixMismatch(n, k, depth) ==
  LET stored == Min({Stored(n), Len(k) - depth})
      i == CheckPrefix(n, k, depth)
      l == Minimum(n).key
  IN IF i < stored \/ n.plen <= MaxPrefix
     THEN i
     ELSE Mismatch(SubSeq(l, depth + 1, Len(l)), Chars(k), depth, i, Min({Len(l), Len(k)}) - depth)

LongestCommonPrefixOf(k, l, depth) ==
  Mismatch(SubSeq(k, depth + 1, Len(k)), l, depth, 0, Min({Len(k), Len(l)}) - depth)

(* Where art_search goes on. *)
SearchSlot(x, k, junk) ==
  IF IsInner(x.ref) /\ PathMatches(x.ref, k, x.depth)
  THEN FindChild(x.ref, KeyAt(k, x.depth + x.ref.plen, junk)) ELSE {}
SearchWay(n, k, junk) ==
  LET way[i \in Steps] ==
        IF i = 0 THEN <<Top(n)>>
        ELSE LET w == way[i - 1] IN Longer(w, SearchSlot(Last(w), k, junk))
  IN way[MaxLen]
Search(n, k, junk) ==
  LET end == Last(SearchWay(n, k, junk)).ref
  IN IF IsLeaf(end) /\ end.key = k THEN end.value ELSE NULL

-----------------------------------------------------------------------------
(* Adding a child: a full node is replaced by one of the next size.        *)

AddChild256(n, c, x) ==
  [n EXCEPT !.num = (@ + 1) % NByte, !.children[c] = x]

To256(n) ==
  [n EXCEPT !.kind = "node256", !.keys = <<>>,
            !.children = [b \in Byte |-> IF n.keys[b] = 0 THEN Nil ELSE @[n.keys[b]]]]
AddChild48(n, c, x) ==
  LET pos == Min({i \in DOMAIN n.children : n.children[i] = Nil})
  IN IF n.num < Size48
     THEN [n EXCEPT !.num = @ + 1, !.keys[c] = pos, !.children[pos] = x]
     ELSE AddChild256(To256(n), c, x)

InsertChild(n, i, c, x) ==
  [n EXCEPT !.num = @ + 1, !.keys = InsertAt(@, i, c), !.children = InsertAt(@, i, x)]

To48_NoHeader(n) ==   (* mutant: copy_header forgotten *)
  [n EXCEPT !.kind = "node48", !.num = 0, !.plen = 0, !.partial = <<>>,
            !.keys = [b \in Byte |-> IF Contains(@, b) THEN Min(FindChild(n, b)) ELSE 0],
            !.children = [i \in 1 .. Size48 |-> IF i <= n.num THEN @[i] ELSE Nil]]
To48(n) ==
  [n EXCEPT !.kind = "node48",
            !.keys = [b \in Byte |-> IF Contains(@, b) THEN Min(FindChild(n, b)) ELSE 0],
            !.children = [i \in 1 .. Size48 |-> IF i <= n.num THEN @[i] ELSE Nil]]
AddChild16(n, c, x) ==
  IF n.num < Size16
  THEN InsertChild(n, Min({i \in 1 .. n.num : Signed(c) < Signed(n.keys[i])} \cup {n.num + 1}), c, x)
  ELSE AddChild48(To48(n), c, x)

AddChild4_Append(n, c, x) ==   (* mutant: not sorted *)
  IF n.num < Size4 THEN InsertChild(n, n.num + 1, c, x)
  ELSE AddChild16([n EXCEPT !.kind = "node16"], c, x)
AddChild4(n, c, x) ==
  IF n.num < Size4
  THEN InsertChild(n, Min({i \in 1 .. n.num : c < n.keys[i]} \cup {n.num + 1}), c, x)
  ELSE AddChild16([n EXCEPT !.kind = "node16"], c, x)

AddChild(n, c, x) ==
  CASE n.kind = "node4"   -> AddChild4(n, c, x)
    [] n.kind = "node16"  -> AddChild16(n, c, x)
    [] n.kind = "node48"  -> AddChild48(n, c, x)
    [] n.kind = "node256" -> AddChild256(n, c, x)

(* Two leaves below a new node with their common bytes as its path. *)
SplitLeaf(l, k, v, depth, junk) ==
  LET p == LongestCommonPrefixOf(l.key, k, depth)
      n == Node4(p, SubSeq(k, depth + 1, depth + Min({MaxPrefix, p})))
  IN AddChild4(AddChild4(n, LeafAt(l.key, depth + p, junk), l),
               LeafAt(k, depth + p, junk), Leaf(k, v))

(* The path of n is cut at its byte m: a new node above n and a leaf.      *)
SplitPath(n, k, v, depth, m, junk) ==
  LET l == Minimum(n).key
      short == n.plen <= MaxPrefix
      rest == n.plen - (m + 1)
      below == [n EXCEPT
        !.plen = rest,
        !.partial = IF short THEN SubSeq(@, m + 2, n.plen)
                    ELSE SubSeq(l, depth + m + 2, depth + m + 1 + Min({MaxPrefix, rest}))]
      above == Node4(m, SubSeq(n.partial, 1, Min({MaxPrefix, m})))
      c == IF short THEN n.partial[m + 1] ELSE LeafAt(l, depth + m, junk)
  IN AddChild4(AddChild4(above, c, below), KeyAt(k, depth + m, junk), Leaf(k, v))

(* Where recursive_insert goes on ... *)
InsertSlot(x, k, junk) ==
  IF IsInner(x.ref) /\ (x.ref.plen = 0 \/ PrefixMismatch(x.ref, k, x.depth) >= x.ref.plen)
  THEN FindChild(x.ref, KeyAt(k, x.depth + x.ref.plen, junk)) ELSE {}
InsertWay(n, k, junk) ==
  LET way[i \in Steps] ==
        IF i = 0 THEN <<Top(n)>>
        ELSE LET w == way[i - 1] IN Longer(w, InsertSlot(Last(w), k, junk))
  IN way[MaxLen]

(* ... and what it does where it ends. *)
InsertHere(x, k, v, junk) ==
  LET n == x.ref
      m == PrefixMismatch(n, k, x.depth)
  IN CASE n.kind = "null" -> Leaf(k, v)
       [] IsLeaf(n) -> IF n.key = k THEN [n EXCEPT !.value = v] ELSE SplitLeaf(n, k, v, x.depth, junk)
       [] IsInner(n) -> IF n.plen > 0 /\ m < n.plen THEN SplitPath(n, k, v, x.depth, m, junk)
                        ELSE AddChild(n, KeyAt(k, x.depth + n.plen, junk), Leaf(k, v))

(* recursive_insert: the new *ref, the old value and whether there was one. *)
Insert(n, k, v, junk) ==
  LET way == InsertWay(n, k, junk)
      end == Last(way).ref
      found == IsLeaf(end) /\ end.key = k
  IN [ref |-> Updated(way, InsertHere(Last(way), k, v, junk)),
      old |-> IF found THEN end.value ELSE NULL, found |-> found]

-----------------------------------------------------------------------------
(* Removing a child: a node with few children is replaced by a smaller     *)
(* one, and one with a single child by that child.                         *)

RemoveChild256(n, c) ==
  LET m == [n EXCEPT !.num = (@ - 1) % NByte, !.children[c] = Nil]
      s == Slots(m)
      Pos(b) == IF Contains(s, b) THEN SelectInSeq(s, LAMBDA x : x = b) ELSE 0
  IN IF m.num = Shrink256
     THEN [m EXCEPT !.kind = "node48",
                    !.keys = [b \in Byte |-> Pos(b)],
                    !.children = [i \in 1 .. Size48 |-> IF i <= m.num THEN @[s[i]] ELSE Nil]]
     ELSE m

RemoveChild48_KeepKey(n, c) ==   (* mutant: the byte stays in the key map *)
  [n EXCEPT !.num = @ - 1, !.children[n.keys[c]] = Nil]
RemoveChild48(n, c) ==
  LET m == [n EXCEPT !.num = @ - 1, !.keys[c] = 0, !.children[n.keys[c]] = Nil]
      bytes == Ascending({b \in Byte : m.keys[b] # 0})
  IN IF m.num = Shrink48
     THEN [m EXCEPT !.kind = "node16", !.keys = bytes,
                    !.children = [i \in DOMAIN bytes |-> @[m.keys[bytes[i]]]]]
     ELSE m

DropChild(n, i) ==
  [n EXCEPT !.num = @ - 1, !.keys = RemoveAt(@, i), !.children = RemoveAt(@, i)]

RemoveChild16(n, i) ==
  LET m == DropChild(n, i)
  IN IF m.num = Shrink16 THEN [m EXCEPT !.kind = "node4"] ELSE m

(* The child gets the path of its parent, its own byte and its own path.   *)
Concatenated_NoByte(n, x) ==   (* mutant: the byte between the two is lost *)
  [x EXCEPT !.plen = @ + n.plen,
            !.partial = LET p == n.partial \o @ IN SubSeq(p, 1, Min({MaxPrefix, Len(p)}))]
Concatenated(n, x) ==
  [x EXCEPT !.plen = @ + n.plen + 1,
            !.partial = LET p == n.partial \o <<n.keys[1]>> \o @
                        IN SubSeq(p, 1, Min({MaxPrefix, Len(p)}))]
RemoveChild4(n, i) ==
  LET m == DropChild(n, i)
      x == m.children[1]
  IN IF m.num # 1 THEN m ELSE IF IsLeaf(x) THEN x ELSE Concatenated(m, x)

RemoveChild(n, c) ==
  LET i == Min(FindChild(n, c))
  IN CASE n.kind = "node4"   -> RemoveChild4(n, i)
       [] n.kind = "node16"  -> RemoveChild16(n, i)
       [] n.kind = "node48"  -> RemoveChild48(n, c)
       [] n.kind = "node256" -> RemoveChild256(n, c)

(* The child of place x for which recursive_delete looks. *)
DeleteChild(x, k, junk) ==
  IF IsInner(x.ref) /\ PathMatches(x.ref, k, x.depth)
  THEN Child(x.ref, KeyAt(k, x.depth + x.ref.plen, junk)) ELSE Nil

(* It goes on in an inner node ... *)
DeleteSlot(x, k, junk) ==
  IF IsInner(DeleteChild(x, k, junk))
  THEN FindChild(x.ref, KeyAt(k, x.depth + x.ref.plen, junk)) ELSE {}
DeleteWay(n, k, junk) ==
  LET way[i \in Steps] ==
        IF i = 0 THEN <<Top(n)>>
        ELSE LET w == way[i - 1] IN Longer(w, DeleteSlot(Last(w), k, junk))
  IN way[MaxLen]

(* ... and cuts off a leaf: that of the child, or the root. *)
Cut(x, k, junk) ==
  LET y == IF IsLeaf(x.ref) THEN x.ref ELSE DeleteChild(x, k, junk)
  IN IF IsLeaf(y) /\ y.key = k THEN y ELSE Nil
DeleteHere(x, k, junk) ==
  CASE Cut(x, k, junk) = Nil -> x.ref
    [] IsLeaf(x.ref) /\ Cut(x, k, junk) # Nil -> Nil
    [] OTHER -> RemoveChild(x.ref, KeyAt(k, x.depth + x.ref.plen, junk))

(* recursive_delete: the new *ref and the leaf that is cut off, or Nil. *)
Delete(n, k, junk) ==
  LET way == DeleteWay(n, k, junk)
  IN [ref |-> Updated(way, DeleteHere(Last(way), k, junk)), leaf |-> Cut(Last(way), k, junk)]

-----------------------------------------------------------------------------
(* recursive_iter: the leaves the callback gets, unless it stops it. *)
Opened(q) ==
  LET Kids(n) == [j \in DOMAIN Slots(n) |-> n.children[Slots(n)[j]]]
  IN FlattenSeq([i \in DOMAIN q |-> IF IsInner(q[i]) THEN Kids(q[i]) ELSE <<q[i]>>])
Iter(n) ==
  LET q[i \in Steps] == IF i = 0 THEN <<n>> ELSE Opened(q[i - 1])
  IN IF n = Nil THEN <<>> ELSE q[MaxLen]

(* Where art_iter_prefix goes on, and what it iterates over in the end. *)
PrefixSlot(x, k, junk) ==
  IF /\ IsInner(x.ref) /\ x.depth # Len(k)
     /\ x.ref.plen > 0 => LET m == PrefixMismatch(x.ref, k, x.depth)
                          IN m # 0 /\ x.depth + m # Len(k)
  THEN FindChild(x.ref, KeyAt(k, x.depth + x.ref.plen, junk)) ELSE {}
PrefixWay(n, k, junk) ==
  LET way[i \in Steps] ==
        IF i = 0 THEN <<Top(n)>>
        ELSE LET w == way[i - 1] IN Longer(w, PrefixSlot(Last(w), k, junk))
  IN way[MaxLen]
IterPrefix(n, k, junk) ==
  LET x == Last(PrefixWay(n, k, junk))
  IN CASE IsLeaf(x.ref) -> IF IsPrefix(k, x.ref.key) THEN <<x.ref>> ELSE <<>>
       [] IsInner(x.ref) /\ x.depth = Len(k) ->
            IF IsPrefix(k, Minimum(x.ref).key) THEN Iter(x.ref) ELSE <<>>
       [] IsInner(x.ref) /\ x.depth # Len(k) /\ x.ref.plen > 0 ->
            LET m == PrefixMismatch(x.ref, k, x.depth)
            IN IF m # 0 /\ x.depth + m = Len(k) THEN Iter(x.ref) ELSE <<>>
       [] OTHER -> <<>>

(* destroy_node: the keys of the leaves it frees. *)
Freed(S) ==
  S \cup UNION {{n.children[i] : i \in IF n.kind = "node256" THEN Byte ELSE 1 .. n.num} :
               n \in {x \in S : IsInner(x)}}
Destroyed(n) ==
  LET all[i \in Steps] == IF i = 0 THEN {n} ELSE Freed(all[i - 1])
  IN {l.key : l \in {x \in all[MaxLen] : IsLeaf(x)}}

-----------------------------------------------------------------------------
(* The inner nodes from n down, with their depths if n has the given one, *)
(* and the leaves.                                                         *)
WithBelow(S) ==
  S \cup UNION {{Below(x, i) : i \in {j \in Used(x.ref) : IsInner(x.ref.children[j])}} : x \in S}
Inner(n, depth) ==
  LET all[i \in Steps] ==
        IF i = 0 THEN IF IsInner(n) THEN {[Top(n) EXCEPT !.depth = depth]} ELSE {}
        ELSE WithBelow(all[i - 1])
  IN all[MaxLen]

Leaves(n) ==
  {l \in {n} \cup UNION {{x.ref.children[i] : i \in Used(x.ref)} : x \in Inner(n, 0)} : IsLeaf(l)}
=============================================================================
