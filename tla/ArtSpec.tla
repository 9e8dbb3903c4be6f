------------------------------ MODULE ArtSpec ------------------------------
(***************************************************************************)
(* An adaptive radix tree in use: sequences of art_insert, art_delete and  *)
(* destroy_art_tree, and what art_search, art_iter, art_iter_prefix,       *)
(* art_minimum and art_maximum answer in between.                          *)
(***************************************************************************)
EXTENDS Art

CONSTANTS
  Key,     (* the keys that are inserted                                   *)
  Query,   (* the keys that are searched for and deleted                   *)
  Val,
  Adds,    (* the pairs of key and value that are inserted                 *)
  Junk     (* what bytes past the end of a key may be                      *)

(* No key is a prefix of another, like those of helper.c, which are all of *)
(* one length: art.c tells such keys apart by a byte past the end of the   *)
(* shorter one, which its leaf does not hold.                              *)
ASSUME ArtAssumption ==
  /\ {NByte, MaxPrefix, Size4, Size16, Size48, Shrink16, Shrink48, Shrink256, MaxLen} \subseteq Nat
  /\ 0 < MaxPrefix
  /\ 1 < Shrink16 /\ Shrink16 < Size4
  /\ Size4 < Size16 /\ Size16 < Size48 /\ Size48 < NByte
  /\ Shrink16 < Shrink48 /\ Shrink48 < Size16
  /\ Shrink48 < Shrink256 /\ Shrink256 < Size48
  /\ \A k \in Key \cup Query : k \in Seq(Byte \ {0})
  /\ \A k \in Key : Len(k) <= MaxLen
  /\ \A k, l \in Key : IsPrefix(k, l) => k = l
  /\ NULL \notin Val /\ Adds \subseteq Key \X Val
  /\ Junk \subseteq Byte

VARIABLES
  root, size,   (* struct art_tree                                         *)
  map,          (* history: the values of the keys that are in the tree    *)
  mixed,        (* history: a 16-child node has had a byte above 127       *)
  torn          (* history: a key that is misread has been inserted        *)

vars == <<root, size, map, mixed, torn>>

Bound == {k \in Key : map[k] # NULL}

Mixes(n) ==
  \E x \in Inner(n, 0) :
    x.ref.kind = "node16" /\ \E i \in 1 .. x.ref.num : Signed(x.ref.keys[i]) < 0

(* At place x prefix_mismatch compares key k with the path beyond what is  *)
(* stored of it, and comes to a byte above 127, which it takes to differ   *)
(* from the same byte of the path.                                         *)
Misreads(x, k) ==
  \E i \in x.depth + MaxPrefix + 1 .. Min({Len(k), x.depth + x.ref.plen}) :
    Signed(k[i]) < 0 /\ SubSeq(k, 1, i) = SubSeq(Minimum(x.ref).key, 1, i)

Init ==
  /\ root = Nil /\ size = 0
  /\ map = [k \in Key |-> NULL]
  /\ mixed = FALSE /\ torn = FALSE

(* To insert a key that is misread cuts the path where it agrees with the  *)
(* key, and leaves a node with two children under one byte, of which       *)
(* find_child sees the first.  The model ends there (a bound): such a tree *)
(* is only destroyed.                                                      *)
ArtInsert(k, v, junk) ==
  LET r == Insert(root, k, v, junk)
  IN /\ ~torn
     /\ root' = r.ref
     /\ size' = IF r.found THEN size ELSE size + 1
     /\ map' = [map EXCEPT ![k] = v]
     /\ mixed' = (mixed \/ Mixes(r.ref))
     /\ torn' = \E x \in Inner(root, 0) : Misreads(x, k)

ArtDelete(k, junk) ==
  LET r == Delete(root, k, junk)
  IN /\ ~torn
     /\ root' = r.ref
     /\ size' = IF r.leaf = Nil THEN size ELSE size - 1
     /\ map' = IF k \in Key THEN [map EXCEPT ![k] = NULL] ELSE map
     /\ mixed' = (mixed \/ Mixes(r.ref))
     /\ torn' = torn

(* destroy_art_tree leaves a tree that cannot be used before init_art_tree. *)
DestroyArtTree ==
  /\ root' = Nil /\ size' = 0
  /\ map' = [k \in Key |-> NULL]
  /\ mixed' = FALSE /\ torn' = FALSE

Next ==
  \/ \E a \in Adds, junk \in Junk : ArtInsert(a[1], a[2], junk)
  \/ \E k \in Query, junk \in Junk : ArtDelete(k, junk)
  \/ DestroyArtTree

Spec == Init /\ [][Next]_vars

-----------------------------------------------------------------------------
(* All that follows is of trees into which no misread key has been         *)
(* inserted: keys of bytes up to 127 never are misread, and none are below *)
(* paths of at most MaxPrefix bytes.                                       *)

(* art_search, which compares the first MaxPrefix bytes of a path only and *)
(* may read past the end of the key, finds a key exactly if it has been    *)
(* inserted and not deleted since, whatever comes after the key.           *)
SearchExact ==
  torn \/ \A k \in Key \cup Query, junk \in Junk :
    Search(root, k, junk) = IF k \in Bound THEN map[k] ELSE NULL

(* Every inner node stands for what its leaves have in common: its path    *)
(* has the bytes of all of them, as many as are stored are right, and a    *)
(* child is under the byte that follows in all its keys, no two under the  *)
(* same byte.                                                              *)
PathsAgree ==
  torn \/ \A x \in Inner(root, 0) :
    LET n == x.ref
        deep == x.depth + n.plen
        Keys(m) == {l.key : l \in Leaves(m)}
        l == Minimum(n).key
    IN /\ \A k \in Keys(n) : Len(k) > deep /\ SubSeq(k, 1, deep) = SubSeq(l, 1, deep)
       /\ n.partial = SubSeq(l, x.depth + 1, x.depth + Stored(n))
       /\ \A c \in Byte : Keys(Child(n, c)) = {k \in Keys(n) : k[deep + 1] = c}

(* A node has the size its children need: it grows when it is full, and    *)
(* shrinks, or goes, at the thresholds of remove_child.  num_children is   *)
(* the number of children, modulo what its byte holds, and the slots of a  *)
(* 48-child node that are in use are those its key map names.              *)
NodesFit ==
  torn \/ \A x \in Inner(root, 0) :
    LET n == x.ref
        used == Used(n)
        count == Cardinality(used)
    IN /\ n.num = count % NByte
       /\ n.kind = "node4"   => count \in 2 .. Size4
       /\ n.kind = "node16"  => count \in Shrink16 + 1 .. Size16
       /\ n.kind = "node48"  => /\ count \in Shrink48 + 1 .. Size48
                                /\ used = {i \in 1 .. Size48 : n.children[i] # Nil}
                                /\ Len(Slots(n)) = count
       /\ n.kind = "node256" => count > Shrink256

(* The bytes decide: the order of unsigned chars. *)
Less(k, l) ==
  \/ IsStrictPrefix(k, l)
  \/ \E i \in DOMAIN k \cap DOMAIN l : k[i] < l[i] /\ SubSeq(k, 1, i - 1) = SubSeq(l, 1, i - 1)

(* art_iter gives the callback every key once, and as many as art_size     *)
(* says; in ascending order, so that art_minimum and art_maximum are the   *)
(* least and the greatest key, unless a 16-child node, whose bytes are     *)
(* compared as signed chars, has had a byte above 127.                     *)
IterExact ==
  torn \/
  LET s == Iter(root)
  IN /\ Len(s) = size /\ size = Cardinality(Bound)
     /\ {<<l.key, l.value>> : l \in ToSet(s)} = {<<k, map[k]>> : k \in Bound}
     /\ mixed \/ \A i, j \in DOMAIN s : i < j => Less(s[i].key, s[j].key)

(* What art_iter_prefix visits, and what it should: the keys that match k. *)
Visited(k, junk) == {l.key : l \in ToSet(IterPrefix(root, k, junk))}
Matching(k) == {l \in Bound : IsPrefix(k, l)}

(* Query k goes on, like the least key below, after the end of a path that *)
(* is longer than what its node stores.                                    *)
Overruns(k) ==
  \E x \in Inner(root, 0) :
    /\ x.ref.plen > MaxPrefix /\ x.depth + x.ref.plen < Len(k)
    /\ IsPrefix(k, Minimum(x.ref).key)

(* Query k leaves a path after the first byte of it. *)
Strays(k) ==
  \E x \in Inner(root, 0) :
    LET l == Minimum(x.ref).key
    IN \E i \in x.depth + 2 .. Min({Len(k), x.depth + x.ref.plen}) :
         k[i] # l[i] /\ SubSeq(k, 1, i - 1) = SubSeq(l, 1, i - 1)

(* Query k ends in a path, where it is misread. *)
EndsMisread(k) ==
  \E x \in Inner(root, 0) : Misreads(x, k) /\ Len(k) <= x.depth + x.ref.plen

(* art_iter_prefix visits every key that matches the given prefix, unless  *)
(* this ends in a path where it is misread, and no others, unless it goes  *)
(* on after a long path, where it is compared with one leaf of those       *)
(* below, or leaves a path after its first byte, where the search goes on  *)
(* as if the whole path had matched.                                       *)
IterPrefixExact ==
  torn \/ \A k \in Key \cup Query, junk \in Junk :
    LET visited == Visited(k, junk)
    IN /\ Matching(k) \subseteq visited \/ EndsMisread(k)
       /\ visited \subseteq Matching(k) \/ Overruns(k) \/ Strays(k)

(* A 48-child node has no child in one of its first num_children slots. *)
Hole ==
  \E x \in Inner(root, 0) :
    x.ref.kind = "node48" /\ \E i \in 1 .. x.ref.num : x.ref.children[i] = Nil

(* destroy_node frees every leaf of the tree and nothing else, but not     *)
(* every leaf if a 48-child node has a hole: it goes through the first     *)
(* num_children slots.                                                     *)
DestroyFreesAll ==
  torn \/ (Destroyed(root) \subseteq Bound /\ (Hole \/ Bound \subseteq Destroyed(root)))
=============================================================================
