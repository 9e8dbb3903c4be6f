------------------------------ MODULE Adapters ------------------------------
(***************************************************************************)
(* The functions init, add, find, del and clear of art.c, bsdtree.c,       *)
(* uthash.c and cc_common.h over their data structures, and how far each   *)
(* keeps the contract of helper.h.  The benchmark is linked with one of    *)
(* them.  art.c has a lock, and is called by several threads at a time;    *)
(* the others are called by one.                                           *)
(*                                                                         *)
(* fault is undefined behaviour: a pointer that is NULL, freed or was      *)
(* never set is followed, or an assertion that fails.  Nothing is said of  *)
(* what comes after it.                                                    *)
(***************************************************************************)
EXTENDS Integers, SequencesExt

CONSTANTS
  Thread, Main,                                    (* Main calls alone     *)
  Key, Val, NULL,                                  (* keys are numbers     *)
  Adds,                                            (* what may be added    *)
  NByte, MaxPrefix, Size4, Size16, Size48, Shrink16, Shrink48, Shrink256,
  Hash, InitialBuckets, Threshold,
  MaxBuckets,      (* bound: a larger hash table is not added to           *)
  Rising           (* bound: the keys that are added to a red-black tree   *)
                   (* in ascending order and removed in descending order   *)

Tree == INSTANCE Art WITH MaxLen <- 1
Rb == INSTANCE RbTree
Ut == INSTANCE Uthash

(* What cc_common.h is compiled over: std::map or std::unordered_map, and  *)
(* google::sparse_hash_map.                                                *)
Container == {"stl", "sparse"}
Impl == {"art", "bsdtree", "uthash"} \cup Container

ASSUME AdaptersAssumption ==
  /\ Main \in Thread
  /\ Key \subseteq 1 .. NByte - 1
  /\ Adds \subseteq Impl \X Key \X Val
  /\ NULL \notin Key \cup Val
  /\ Hash \in [Key -> Nat]
  /\ InitialBuckets \in Nat \ {0} /\ Threshold \in Nat \ {0}

VARIABLES
  impl,                 (* what the benchmark is linked with               *)
  obj,                  (* what init returned                              *)
  wild,                 (* obj has a pointer that leads nowhere            *)
  rd, wr,               (* the threads that hold art.c's rwlock            *)
  pc, op, arg, argv, res,   (* the calls under way                         *)
  seen,                 (* history: as in MapSpec                          *)
  fault

call == <<op, arg, argv>>
vars == <<impl, obj, wild, rd, wr, pc, op, arg, argv, res, seen, fault>>

(* A key of one byte; the byte after it is the 0 that ends a C string. *)
Bytes(k) == <<k>>

(* What the data structure holds for key k. *)
Lookup(k) ==
  CASE impl = "art" -> Tree!Search(obj, Bytes(k), 0)
    [] impl = "bsdtree" -> IF Rb!Find(obj.tree, k) = NULL THEN NULL ELSE obj.val[k]
    [] impl = "uthash" -> IF Ut!Find(obj.table, k) THEN obj.val[k] ELSE NULL
    [] impl \in Container -> obj[k]
Holds == [k \in Key |-> IF wild THEN NULL ELSE Lookup(k)]

NoVals == [k \in Key |-> NULL]
ArtNew == Tree!Nil
BsdNew == [tree |-> Rb!Empty, val |-> NoVals]
UtNew == [table |-> Ut!MakeTable, val |-> NoVals]
StlNew == NoVals

(* The init of bsdtree.c leaves rbh_root as malloc has it. *)
Init ==
  /\ \/ impl = "art" /\ obj = ArtNew /\ wild = FALSE
     \/ impl = "bsdtree" /\ obj = BsdNew /\ wild \in BOOLEAN
     \/ impl = "uthash" /\ obj = UtNew /\ wild = FALSE
     \/ impl \in Container /\ obj = StlNew /\ wild = FALSE
  /\ rd = {} /\ wr = {}
  /\ pc = [t \in Thread |-> "idle"]
  /\ op = [t \in Thread |-> "none"]
  /\ arg = [t \in Thread |-> NULL]
  /\ argv = [t \in Thread |-> NULL]
  /\ res = [t \in Thread |-> {}]
  /\ seen = [t \in Thread |-> {}]
  /\ fault = FALSE

-----------------------------------------------------------------------------
(* remove is what a caller of the macros themselves does: RB_FIND and      *)
(* RB_REMOVE, HASH_FIND and HASH_DEL.                                      *)
Call(t, o, k, v) ==
  /\ ~fault /\ pc[t] = "idle"
  /\ impl = "art" \/ t = Main
  /\ o = "remove" => impl \in {"bsdtree", "uthash"}
  /\ o = "add" /\ impl = "uthash" => obj.table.num <= MaxBuckets
  /\ impl = "bsdtree" /\ k \in Rising =>
       /\ o = "add" => k - 1 \in Rb!Entries(obj.tree)
       /\ o = "remove" => k + 1 \notin Rb!Entries(obj.tree)
  /\ pc' = [pc EXCEPT ![t] = IF impl = "art" THEN "start" ELSE "in"]
  /\ op' = [op EXCEPT ![t] = o]
  /\ arg' = [arg EXCEPT ![t] = k]
  /\ argv' = [argv EXCEPT ![t] = v]
  /\ seen' = [seen EXCEPT ![t] = IF o = "find" THEN {Holds[k]} ELSE {}]
  /\ UNCHANGED <<impl, obj, wild, rd, wr, res, fault>>

(* pthread_rwlock_wrlock and pthread_rwlock_rdlock in art.c. *)
Enter_Shared(t) ==   (* mutant: every function takes the lock as find does *)
  /\ pc[t] = "start"
  /\ wr = {}
  /\ rd' = rd \cup {t}
  /\ pc' = [pc EXCEPT ![t] = "in"]
  /\ UNCHANGED <<impl, obj, wild, wr, call, res, seen, fault>>
Enter(t) ==
  /\ pc[t] = "start" /\ ~fault
  /\ wr = {}
  /\ IF op[t] = "find" THEN rd' = rd \cup {t} /\ UNCHANGED wr
                       ELSE rd = {} /\ wr' = {t} /\ UNCHANGED rd
  /\ pc' = [pc EXCEPT ![t] = "in"]
  /\ UNCHANGED <<impl, obj, wild, call, res, seen, fault>>

In(t, i, o) == ~fault /\ pc[t] = "in" /\ impl = i /\ op[t] = o

(* The data structure becomes x, and the call returns r. *)
Finish(t, x, r) ==
  /\ obj' = x
  /\ res' = [res EXCEPT ![t] = {r}]
  /\ pc' = [pc EXCEPT ![t] = "done"]
  /\ UNCHANGED <<impl, wild, rd, wr, call, fault>>
  /\ seen' = [u \in Thread |-> IF op[u] = "find" THEN seen[u] \cup {Holds'[arg[u]]} ELSE seen[u]]

Crash ==
  /\ fault' = TRUE
  /\ UNCHANGED <<impl, obj, wild, rd, wr, pc, call, res, seen>>

Return(t) ==
  /\ ~fault /\ pc[t] = "done"
  /\ rd' = rd \ {t} /\ wr' = wr \ {t}
  /\ pc' = [pc EXCEPT ![t] = "idle"]
  /\ op' = [op EXCEPT ![t] = "none"]
  /\ arg' = [arg EXCEPT ![t] = NULL]
  /\ argv' = [argv EXCEPT ![t] = NULL]
  /\ res' = [res EXCEPT ![t] = {}]
  /\ seen' = [seen EXCEPT ![t] = {}]
  /\ UNCHANGED <<impl, obj, wild, fault>>

-----------------------------------------------------------------------------
(* art.c *)

(* add searches the key first, and inserts it in a second step. *)
ArtAddSearch(t) ==
  /\ In(t, "art", "add") /\ ~wild
  /\ \/ Lookup(arg[t]) # NULL /\ Finish(t, obj, 1)
     \/ /\ Lookup(arg[t]) = NULL
        /\ pc' = [pc EXCEPT ![t] = "insert"]
        /\ UNCHANGED <<impl, obj, wild, rd, wr, call, res, seen, fault>>

ArtAddInsert(t) ==
  /\ ~fault /\ pc[t] = "insert"
  /\ LET r == Tree!Insert(obj, Bytes(arg[t]), argv[t], 0)
     IN Finish(t, r.ref, IF r.old = NULL THEN 0 ELSE 1)

ArtFind(t) ==
  /\ In(t, "art", "find") /\ ~wild
  /\ Finish(t, obj, Lookup(arg[t]))

ArtDel(t) ==
  /\ In(t, "art", "del") /\ ~wild
  /\ LET r == Tree!Delete(obj, Bytes(arg[t]), 0)
     IN Finish(t, r.ref, IF r.leaf = Tree!Nil THEN 1 ELSE 0)

(* bsdtree.c *)

BsdAdd(t) ==
  /\ In(t, "bsdtree", "add") /\ ~wild
  /\ IF Lookup(arg[t]) # NULL THEN Finish(t, obj, 1)
     ELSE Finish(t, [tree |-> Rb!RbInsert(obj.tree, arg[t]),
                     val |-> [obj.val EXCEPT ![arg[t]] = argv[t]]], 0)

BsdFind(t) ==
  /\ In(t, "bsdtree", "find") /\ ~wild
  /\ Finish(t, obj, Lookup(arg[t]))

BsdDel(t) ==
  /\ In(t, "bsdtree", "del")
  /\ Finish(t, obj, 0)

BsdRemove(t) ==
  /\ In(t, "bsdtree", "remove") /\ ~wild
  /\ IF Rb!Find(obj.tree, arg[t]) = NULL THEN Finish(t, obj, 1)
     ELSE Finish(t, [tree |-> Rb!RbRemove(obj.tree, arg[t]),
                     val |-> [obj.val EXCEPT ![arg[t]] = NULL]], 0)

(* uthash.c *)

UtAdd(t) ==
  /\ In(t, "uthash", "add")
  /\ IF Ut!Find(obj.table, arg[t]) THEN Finish(t, obj, 1)
     ELSE Finish(t, [table |-> Ut!HashAdd(obj.table, arg[t]),
                     val |-> [obj.val EXCEPT ![arg[t]] = argv[t]]], 0)

(* The entry is dereferenced exactly when there is none. *)
UtFind(t) ==
  /\ In(t, "uthash", "find")
  /\ IF Ut!Find(obj.table, arg[t]) THEN Finish(t, obj, NULL) ELSE Crash

(* del takes the result of find for the entry. *)
UtDel(t) ==
  /\ In(t, "uthash", "del")
  /\ IF Ut!Find(obj.table, arg[t]) THEN Finish(t, obj, 1) ELSE Crash

UtRemove(t) ==
  /\ In(t, "uthash", "remove")
  /\ IF Ut!Find(obj.table, arg[t])
     THEN Finish(t, [table |-> Ut!HashDelete(obj.table, arg[t]),
                     val |-> [obj.val EXCEPT ![arg[t]] = NULL]], 0)
     ELSE Finish(t, obj, 1)

(* cc_common.h over a container. *)

StlAdd(t) ==
  /\ \E i \in Container : In(t, i, "add")
  /\ IF obj[arg[t]] # NULL THEN Finish(t, obj, 1)
     ELSE Finish(t, [obj EXCEPT ![arg[t]] = argv[t]], 0)

(* The iterator end() is dereferenced if the key is not there. *)
StlFind(t) ==
  /\ \E i \in Container : In(t, i, "find")
  /\ IF obj[arg[t]] # NULL THEN Finish(t, obj, obj[arg[t]]) ELSE Crash

StlDel(t) ==
  /\ In(t, "stl", "del")
  /\ Finish(t, [obj EXCEPT ![arg[t]] = NULL], IF obj[arg[t]] = NULL THEN 1 ELSE 0)

(* A sparse_hash_map erases no key before set_deleted_key has been called, *)
(* and nothing calls it: the assertion in erase fails.                     *)
SparseDel(t) ==
  /\ In(t, "sparse", "del")
  /\ IF obj[arg[t]] # NULL THEN Crash ELSE Finish(t, obj, 1)

-----------------------------------------------------------------------------
(* RB_FOREACH_SAFE takes the next entry before the caller frees this one,  *)
(* but RB_NEXT climbs from a right child through its parent, which is      *)
(* freed by then.                                                          *)
ClimbsFreed(t) ==
  \E k \in Rb!Entries(t) : t.node[k].right = NULL /\
    LET p == t.node[k].parent IN p # NULL /\ t.node[p].right = k

Clears(i) == ~fault /\ impl = i /\ \A t \in Thread : pc[t] = "idle"

(* The data structure is x, and invalid if w, when clear returns. *)
Cleared(x, w) ==
  /\ obj' = x /\ wild' = w
  /\ UNCHANGED <<impl, rd, wr, pc, call, res, seen, fault>>

(* The root still points to what is freed now. *)
ArtClear ==
  /\ Clears("art")
  /\ IF wild THEN Crash ELSE Cleared(ArtNew, obj # ArtNew)

BsdClear ==
  /\ Clears("bsdtree")
  /\ \/ (wild \/ ClimbsFreed(obj.tree)) /\ Crash
     \/ ~wild /\ Cleared(BsdNew, obj # BsdNew)

UtClear ==
  /\ Clears("uthash")
  /\ Cleared([table |-> Ut!HashDeleteAll(obj.table), val |-> NoVals], FALSE)

StlClear == \E i \in Container : Clears(i) /\ Cleared(NoVals, FALSE)

(* A function follows the root of a tree that is not valid. *)
WildCrash(t) ==
  /\ ~fault /\ pc[t] = "in" /\ wild
  /\ <<impl, op[t]>> # <<"bsdtree", "del">>
  /\ Crash

Halted == fault /\ UNCHANGED vars

Next ==
  \/ \E t \in Thread :
       \/ \E a \in Adds :
            /\ a[1] = impl
            /\ \/ Call(t, "add", a[2], a[3])
               \/ \E o \in {"find", "del", "remove"} : Call(t, o, a[2], NULL)
       \/ Enter(t) \/ Return(t)
       \/ ArtAddSearch(t) \/ ArtAddInsert(t) \/ ArtFind(t) \/ ArtDel(t)
       \/ BsdAdd(t) \/ BsdFind(t) \/ BsdDel(t) \/ BsdRemove(t)
       \/ UtAdd(t) \/ UtFind(t) \/ UtDel(t) \/ UtRemove(t)
       \/ StlAdd(t) \/ StlFind(t) \/ StlDel(t) \/ SparseDel(t)
       \/ WildCrash(t)
  \/ ArtClear \/ BsdClear \/ UtClear \/ StlClear \/ Halted

Spec == Init /\ [][Next]_vars

-----------------------------------------------------------------------------
Map ==
  INSTANCE MapSpec WITH
    map <- Holds,
    op <- [t \in Thread |-> IF op[t] = "remove" THEN "del" ELSE op[t]]

(* The calls whose results are not those of a map: the find of uthash.c    *)
(* returns NULL for a key that is there, so that its del fails, and the    *)
(* del of bsdtree.c says that it has deleted and has not.                  *)
Deviates ==
  \E t \in Thread :
    /\ \/ impl = "uthash" /\ op[t] = "find" /\ Holds[arg[t]] # NULL /\ res'[t] = {NULL}
       \/ impl = "uthash" /\ op[t] = "del" /\ Holds[arg[t]] # NULL /\ res'[t] = {1}
       \/ impl = "bsdtree" /\ op[t] = "del" /\ res'[t] = {0}
    /\ UNCHANGED <<call, seen>> /\ Holds' = Holds

(* The calls that do not return: what a root that init left unset or clear *)
(* left dangling leads to is used; the find of uthash.c, and with it its   *)
(* del, and the find of cc_common.h follow the entry of a key that is not  *)
(* there; the del of sparsehash.cc finds its key; the clear of a red-black *)
(* tree goes on from an entry through a parent that it has freed.          *)
Fails ==
  /\ ~fault /\ fault'
  /\ UNCHANGED <<call, res, seen>> /\ Holds' = Holds
  /\ \/ wild /\ \A t \in Thread : <<impl, op[t]>> # <<"bsdtree", "del">>
     \/ impl = "bsdtree" /\ ClimbsFreed(obj.tree) /\ \A t \in Thread : op[t] = "none"
     \/ \E t \in Thread :
          \/ /\ <<impl, op[t]>> \in {"uthash"} \X {"find", "del"} \cup Container \X {"find"}
             /\ Holds[arg[t]] = NULL
          \/ <<impl, op[t]>> = <<"sparse", "del">> /\ Holds[arg[t]] # NULL

(* Every add, find, del and clear of the adapters, and the removal by the  *)
(* macros of tree.h and uthash.h, takes effect once between call and       *)
(* return and returns what the map of helper.h says: in art.c for threads  *)
(* that overlap, because add holds the lock from its search to its         *)
(* insertion.  Those that return something else are named by Deviates,     *)
(* those that do not return by Fails: nothing else goes wrong.             *)
KeepsContract ==
  /\ Map!Init /\ ~fault
  /\ [][\/ (Map!Next \/ Deviates) /\ UNCHANGED fault
        \/ Fails]_<<Map!vars, fault>>

(* The tree of bsdtree.c is a red-black tree after every RB_INSERT and     *)
(* RB_REMOVE: the root is black, a red entry has no red child, all ways    *)
(* down pass as many black entries, and no entry has fallen out: children  *)
(* and parents point to each other.                                        *)
RedBlack ==
  impl = "bsdtree" =>
    LET t == obj.tree
        Kids(k) == {t.node[k].left, t.node[k].right} \ {NULL}
    IN /\ ~Rb!IsRed(t, t.root)
       /\ Rb!Below(t, t.root) = Rb!Entries(t)
       /\ t.root # NULL => t.node[t.root].parent = NULL
       /\ \A k \in Rb!Entries(t) :
            /\ \A c \in Kids(k) : t.node[c].parent = k
            /\ Rb!IsRed(t, k) => \A c \in Kids(k) : ~Rb!IsRed(t, c)
            /\ Rb!Height(t, t.node[k].left) = Rb!Height(t, t.node[k].right)

(* RB_FOREACH and RB_FOREACH_REVERSE visit the entries in ascending and in *)
(* descending order, RB_NFIND finds the least entry that is not less, and  *)
(* the entries are those that were added.                                  *)
RbOrder ==
  impl = "bsdtree" =>
    LET t == obj.tree
        s == Rb!Foreach(t, Rb!Extreme(t, t.root, "left"), "right")
    IN /\ ToSet(s) = Rb!Entries(t)
       /\ \A i \in 2 .. Len(s) : s[i - 1] < s[i]
       /\ Rb!Foreach(t, Rb!Extreme(t, t.root, "right"), "left") = Reverse(s)
       /\ \A k \in Key :
            LET geq == {x \in Rb!Entries(t) : x >= k}
            IN Rb!NFind(t, k) = IF geq = {} THEN NULL ELSE Min(geq)

(* Whatever was added and removed, the tree of bsdtree.c is balanced and   *)
(* every traversal of tree.h sees the entries in their order.              *)
RbTreeSound == RedBlack /\ RbOrder

(* The table of uthash.c passes HASH_FSCK, which the build leaves out, and *)
(* the two lists of a table have the same elements, each in the bucket in  *)
(* which HASH_FIND looks for it, although expansions have moved it.        *)
HashSound ==
  impl = "uthash" =>
    LET t == obj.table
    IN /\ Ut!Fsck(t)
       /\ IsInjective(t.order)
       /\ \A b \in DOMAIN t.buckets :
            LET c == t.buckets[b].chain
            IN IsInjective(c) /\ ToSet(c) = {k \in ToSet(t.order) : Ut!ToBkt(k, t.num) = b}

(* "By expanding buckets the hash keeps a bound on the chain length": a    *)
(* chain is no longer than expand_mult + 1 times the threshold, or the     *)
(* ideal length at the last expansion if that is more, until the table     *)
(* has given up expanding.                                                 *)
HashChains ==
  impl = "uthash" =>
    LET t == obj.table
    IN t.noexpand \/ \A b \in DOMAIN t.buckets :
                       t.buckets[b].count <= (t.buckets[b].mult + 1) * Max({Threshold, t.ideal})

(* However the table of uthash.c has expanded or given up expanding, it is *)
(* consistent and keeps its bound on the chains.                           *)
HashTableSound == HashSound /\ HashChains
=============================================================================
