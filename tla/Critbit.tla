------------------------------ MODULE Critbit ------------------------------
(***************************************************************************)
(* The critical-bit tree of critbit.c and critbit_common.h with its        *)
(* locking protocol: critbit_new, critbit_insert, critbit_delete,          *)
(* critbit_get (and critbit_contains, which is critbit_get) and            *)
(* critbit_clear, run by any number of threads.                            *)
(*                                                                         *)
(* Every loop iteration of a tree walk is a step, so that the walks of     *)
(* readers, which hold no lock against writers, interleave with every      *)
(* store to the tree.  A block of memory is allocated or free; using a     *)
(* free block, or a NULL pointer, is undefined behaviour and stops the     *)
(* program (variable fault).                                               *)
(*                                                                         *)
(* A key is its zero-padded string of bits.  A node's (byte, otherbits)    *)
(* pair names one bit position; CritbitBits checks that the byte           *)
(* arithmetic of the code computes exactly that.                           *)
(***************************************************************************)
EXTENDS Integers

CONSTANTS
  Thread,   (* the threads using the tree                                  *)
  May,      (* May[t]: the operations that thread t calls                  *)
  Key,      (* the keys in use                                             *)
  NBits,    (* number of bit positions of the longest key                 *)
  Bit,      (* Bit[k][i] is bit i of key k, 0 past its end                 *)
  Val,      (* the values stored                                           *)
  Node,     (* addresses malloc returns for a struct critbit_node          *)
  Str,      (* addresses malloc returns for a key string with its value    *)
  NULL

Pos == 0 .. NBits - 1
Dirs == {0, 1}

(* Position i is the first at which the keys j and k differ. *)
FirstDiff(j, k, i) ==
  /\ Bit[j][i] # Bit[k][i]
  /\ \A h \in Pos : h < i => Bit[j][h] = Bit[k][h]

ASSUME KeyAssumption ==
  /\ NBits \in Nat \ {0}
  /\ Bit \in [Key -> [Pos -> Dirs]]
  /\ \A j, k \in Key : j # k => \E i \in Pos : FirstDiff(j, k, i)

ASSUME AddressAssumption ==
  /\ May \in [Thread -> SUBSET {"get", "insert", "delete"}]
  /\ Node \cap Str = {}
  /\ NULL \notin Node \cup Str \cup Thread \cup Val

Block == Node \cup Str
Ptr == Block \cup {NULL}

(* IS_INTERNAL: the low bit of a pointer says that it points to a node. *)
IsInternal(ptr) == ptr \in Node

(* A slot is the address of a pointer of the tree: &root->head or          *)
(* &node->child[dir].                                                      *)
Slot == [in : Node \cup {NULL}, dir : Dirs]
HeadSlot == [in |-> NULL, dir |-> 0]

Lock == {"left", "right"}

VARIABLES
  root,     (* whether the critbit_root structure is allocated             *)
  head,     (* root->head                                                  *)
  node,     (* contents of the node blocks                                 *)
  str,      (* contents of the string blocks                               *)
  live,     (* the allocated blocks                                        *)
  wlock,    (* owner of root->wlock, or NULL                               *)
  cur,      (* root->cur_rwlock                                            *)
  prev,     (* root->prev_rwlock                                           *)
  rd,       (* rd[l]: the threads holding the read lock l                  *)
  pc, key, val, lock, p, slot, gslot, made, ret, (* locals of the threads  *)
  fault,    (* "none", or the undefined behaviour met                      *)
  map,      (* history: the value every key is bound to, NULL if none      *)
  path,     (* history: the blocks on the walk for every key of the tree   *)
  seen,     (* history: the bindings a get's key has had since it began    *)
  fresh     (* history: a get's read lock was the current one when taken   *)

heap == <<root, head, node, str, live>>
sync == <<wlock, cur, prev, rd>>
locals == <<key, val, lock, p, slot, gslot, made>>
history == <<map, path, seen, fresh>>
vars == <<heap, sync, pc, locals, ret, fault, history>>

(* struct critbit_node, and a key string with the value in front of it *)
NodeRec == [pos : Pos, child : [Dirs -> Ptr]]
StrRec == [key : Key \cup {NULL}, val : Val \cup {NULL}]
NoNode == [pos |-> 0, child |-> [d \in Dirs |-> NULL]]
NoStr == [key |-> NULL, val |-> NULL]

PC == {"idle",
       "g_rdlock", "g_head", "g_walk", "g_unlock",
       "i_near", "i_slot", "w_unlock",
       "d_walk", "d_swap", "d_wait", "d_unlock", "d_cmp", "d_free"}

TypeOK ==
  /\ root \in BOOLEAN
  /\ head \in Ptr
  /\ node \in [Node -> NodeRec]
  /\ str \in [Str -> StrRec]
  /\ live \in SUBSET Block
  /\ wlock \in Thread \cup {NULL}
  /\ cur \in Lock
  /\ prev \in Lock
  /\ rd \in [Lock -> SUBSET Thread]
  /\ pc \in [Thread -> PC]
  /\ key \in [Thread -> Key \cup {NULL}]
  /\ val \in [Thread -> Val \cup {NULL}]
  /\ lock \in [Thread -> Lock]
  /\ p \in [Thread -> Ptr]
  /\ slot \in [Thread -> Slot]
  /\ gslot \in [Thread -> Slot]
  /\ made \in [Thread -> Node \cup {NULL}]
  /\ ret \in [Thread -> Val \cup {NULL, 0, 1}]
  /\ fault \in {"none", "null", "freed", "double_free"}
  /\ map \in [Key -> Val \cup {NULL}]
  /\ path \in [Key -> SUBSET Ptr]
  /\ seen \in [Thread -> SUBSET (Val \cup {NULL})]
  /\ fresh \in [Thread -> BOOLEAN]

(***************************************************************************)
(* critbit_new.                                                            *)
(***************************************************************************)
Init ==
  /\ root = TRUE
  /\ head = NULL
  /\ node = [n \in Node |-> NoNode]
  /\ str = [s \in Str |-> NoStr]
  /\ live = {}
  /\ wlock = NULL
  /\ cur = "left"
  /\ prev = "right"
  /\ rd = [l \in Lock |-> {}]
  /\ pc = [t \in Thread |-> "idle"]
  /\ key = [t \in Thread |-> NULL]
  /\ val = [t \in Thread |-> NULL]
  /\ lock = [t \in Thread |-> "left"]
  /\ p = [t \in Thread |-> NULL]
  /\ slot = [t \in Thread |-> HeadSlot]
  /\ gslot = [t \in Thread |-> HeadSlot]
  /\ made = [t \in Thread |-> NULL]
  /\ ret = [t \in Thread |-> NULL]
  /\ fault = "none"
  /\ map = [k \in Key |-> NULL]
  /\ path = [k \in Key |-> {}]
  /\ seen = [t \in Thread |-> {}]
  /\ fresh = [t \in Thread |-> FALSE]

Idle == \A t \in Thread : pc[t] = "idle"

(* The pointer stored in slot s. *)
At(s) == IF s.in = NULL THEN head ELSE node[s.in].child[s.dir]

(* Store ptr in slot s of a tree whose node blocks are ns. *)
Store(s, ptr, ns) ==
  /\ head' = IF s.in = NULL THEN ptr ELSE head
  /\ node' = IF s.in = NULL THEN ns
             ELSE [ns EXCEPT ![s.in].child[s.dir] = ptr]

(* get_direction *)
GetDirection(n, k) == Bit[k][node[n].pos]

(* The bit position (newbyte, newotherbits) at which a new key k leaves    *)
(* the nearest key j of the tree.                                          *)
CritPos_LastBit(j, k) ==   (* mutant: isolates the last differing bit *)
  CHOOSE i \in Pos :
    Bit[j][i] # Bit[k][i] /\ \A h \in Pos : h > i => Bit[j][h] = Bit[k][h]
CritPos(j, k) == CHOOSE i \in Pos : FirstDiff(j, k, i)

(* A thread's locals at the end of an operation. *)
Return(t) ==
  /\ pc' = [pc EXCEPT ![t] = "idle"]
  /\ ret' = [ret EXCEPT ![t] = NULL]
  /\ key' = [key EXCEPT ![t] = NULL]
  /\ val' = [val EXCEPT ![t] = NULL]
  /\ lock' = [lock EXCEPT ![t] = "left"]
  /\ p' = [p EXCEPT ![t] = NULL]
  /\ slot' = [slot EXCEPT ![t] = HeadSlot]
  /\ gslot' = [gslot EXCEPT ![t] = HeadSlot]
  /\ made' = [made EXCEPT ![t] = NULL]

Goto(t, l) == pc' = [pc EXCEPT ![t] = l]

(* The history of the bindings: key k is bound to v from now on. *)
Bind(k, v) ==
  /\ map' = [map EXCEPT ![k] = v]
  /\ seen' = [r \in Thread |->
                IF key[r] = k /\ seen[r] # {} THEN seen[r] \cup {v} ELSE seen[r]]
  /\ UNCHANGED fresh

(***************************************************************************)
(* critbit_get.  The pointer to the current read lock is loaded first and  *)
(* locked afterwards: a critbit_delete may swap the locks in between.      *)
(***************************************************************************)
GetStart(t, k) ==
  /\ pc[t] = "idle" /\ root
  /\ Goto(t, "g_rdlock")
  /\ key' = [key EXCEPT ![t] = k]
  /\ lock' = [lock EXCEPT ![t] = cur]
  /\ seen' = [seen EXCEPT ![t] = {map[k]}]
  /\ UNCHANGED <<heap, sync, val, p, slot, gslot, made, ret, fault, map, path, fresh>>

GetRdLock(t) ==
  /\ pc[t] = "g_rdlock"
  /\ Goto(t, "g_head")
  /\ rd' = [rd EXCEPT ![lock[t]] = @ \cup {t}]
  /\ fresh' = [fresh EXCEPT ![t] = (lock[t] = cur)]
  /\ UNCHANGED <<heap, wlock, cur, prev, locals, ret, fault, map, path, seen>>

GetHead(t) ==
  /\ pc[t] = "g_head"
  /\ Goto(t, "g_walk")
  /\ p' = [p EXCEPT ![t] = head]
  /\ UNCHANGED <<heap, sync, key, val, lock, slot, gslot, made, ret, fault, history>>

(* One iteration of find_nearest. *)
GetWalk(t) ==
  /\ pc[t] = "g_walk" /\ IsInternal(p[t]) /\ p[t] \in live
  /\ p' = [p EXCEPT ![t] = node[p[t]].child[GetDirection(p[t], key[t])]]
  /\ UNCHANGED <<heap, sync, pc, key, val, lock, slot, gslot, made, ret, fault, history>>

GetCompare_Nearest(t) ==   (* mutant: no strcmp *)
  /\ pc[t] = "g_walk" /\ p[t] \in Str /\ p[t] \in live
  /\ Goto(t, "g_unlock")
  /\ ret' = [ret EXCEPT ![t] = str[p[t]].val]
  /\ UNCHANGED <<heap, sync, locals, fault, history>>
(* strcmp with the nearest key, and the read of its value. *)
GetCompare(t) ==
  /\ pc[t] = "g_walk" /\ p[t] \in Str /\ p[t] \in live
  /\ Goto(t, "g_unlock")
  /\ ret' = [ret EXCEPT ![t] = IF str[p[t]].key = key[t] THEN str[p[t]].val ELSE NULL]
  /\ UNCHANGED <<heap, sync, locals, fault, history>>

GetUnlock(t) ==
  /\ pc[t] = "g_unlock"
  /\ rd' = [rd EXCEPT ![lock[t]] = @ \ {t}]
  /\ Return(t)
  /\ seen' = [seen EXCEPT ![t] = {}]
  /\ fresh' = [fresh EXCEPT ![t] = FALSE]
  /\ UNCHANGED <<heap, wlock, cur, prev, fault, map, path>>

(***************************************************************************)
(* critbit_insert: under wlock, find the nearest key, then the slot that   *)
(* the new node must take, and publish the node with one store.            *)
(***************************************************************************)
InsertLock(t, k, v) ==
  /\ pc[t] = "idle" /\ root
  /\ wlock = NULL
  /\ wlock' = t
  /\ Goto(t, "i_near")
  /\ key' = [key EXCEPT ![t] = k]
  /\ val' = [val EXCEPT ![t] = v]
  /\ p' = [p EXCEPT ![t] = head]
  /\ UNCHANGED <<heap, cur, prev, rd, lock, slot, gslot, made, ret, fault, history>>

(* The tree is empty: the key string becomes its head. *)
InsertFirst(t) ==
  /\ pc[t] = "i_near" /\ p[t] = NULL
  /\ Goto(t, "w_unlock")
  /\ \E s \in Str \ live :
       /\ live' = live \cup {s}
       /\ str' = [str EXCEPT ![s] = [key |-> key[t], val |-> val[t]]]
       /\ head' = s
       /\ path' = [path EXCEPT ![key[t]] = {s}]
  /\ ret' = [ret EXCEPT ![t] = 0]
  /\ Bind(key[t], val[t])
  /\ UNCHANGED <<root, node, sync, locals, fault>>

(* One iteration of find_nearest. *)
InsertNear(t) ==
  /\ pc[t] = "i_near" /\ IsInternal(p[t]) /\ p[t] \in live
  /\ p' = [p EXCEPT ![t] = node[p[t]].child[GetDirection(p[t], key[t])]]
  /\ UNCHANGED <<heap, sync, pc, key, val, lock, slot, gslot, made, ret, fault, history>>

InsertExists_Minus1(t) ==   (* mutant: another error code *)
  /\ pc[t] = "i_near" /\ p[t] \in Str /\ p[t] \in live
  /\ str[p[t]].key = key[t]
  /\ Goto(t, "w_unlock")
  /\ ret' = [ret EXCEPT ![t] = -1]
  /\ UNCHANGED <<heap, sync, locals, fault, history>>
(* The nearest key is the key itself. *)
InsertExists(t) ==
  /\ pc[t] = "i_near" /\ p[t] \in Str /\ p[t] \in live
  /\ str[p[t]].key = key[t]
  /\ Goto(t, "w_unlock")
  /\ ret' = [ret EXCEPT ![t] = 1]
  /\ UNCHANGED <<heap, sync, locals, fault, history>>

(* The new node and the new string are made before a place for them is     *)
(* looked for; the other child of the node is not set yet.                 *)
InsertAlloc(t) ==
  /\ pc[t] = "i_near" /\ p[t] \in Str /\ p[t] \in live
  /\ str[p[t]].key # key[t]
  /\ Goto(t, "i_slot")
  /\ \E n \in Node \ live, s \in Str \ live :
       LET pos == CritPos(str[p[t]].key, key[t])
           newdirection == Bit[str[p[t]].key][pos]
       IN  /\ live' = live \cup {n, s}
           /\ str' = [str EXCEPT ![s] = [key |-> key[t], val |-> val[t]]]
           /\ node' = [node EXCEPT ![n] =
                [pos |-> pos, child |-> [NoNode.child EXCEPT ![1 - newdirection] = s]]]
           /\ made' = [made EXCEPT ![t] = n]
  /\ UNCHANGED <<root, head, sync, key, val, lock, p, slot, gslot, ret, fault, history>>

(* malloc finds no block for the string or, below a nearest key, for the   *)
(* node.                                                                   *)
OutOfMemory(t) ==
  \/ p[t] = NULL /\ Str \subseteq live
  \/ /\ p[t] \in Str /\ p[t] \in live
     /\ str[p[t]].key # key[t]
     /\ Str \subseteq live \/ Node \subseteq live

InsertNoMem_KeepNode(t) ==   (* mutant: the node is not released *)
  /\ pc[t] = "i_near" /\ OutOfMemory(t)
  /\ Goto(t, "w_unlock")
  /\ ret' = [ret EXCEPT ![t] = 1]
  /\ live' = IF p[t] # NULL /\ ~(Node \subseteq live)
             THEN live \cup {CHOOSE n \in Node : n \notin live} ELSE live
  /\ UNCHANGED <<root, head, node, str, sync, locals, fault, history>>
(* A node already allocated is released and the tree is left alone.        *)
InsertNoMem(t) ==
  /\ pc[t] = "i_near" /\ OutOfMemory(t)
  /\ Goto(t, "w_unlock")
  /\ ret' = [ret EXCEPT ![t] = 1]
  /\ UNCHANGED <<heap, sync, locals, fault, history>>

GoesBelow_SameByte(q, n) == TRUE   (* mutant: otherbits not compared *)
(* The nodes above the new one test earlier positions. *)
GoesBelow(q, n) == node[q].pos <= node[n].pos

InsertDescend(t) ==
  /\ pc[t] = "i_slot"
  /\ LET q == At(slot[t])
     IN  /\ IsInternal(q) /\ GoesBelow(q, made[t])
         /\ slot' = [slot EXCEPT ![t] = [in |-> q, dir |-> GetDirection(q, key[t])]]
  /\ UNCHANGED <<heap, sync, pc, key, val, lock, p, gslot, made, ret, fault, history>>

(* The new string is on one side of the new node; the other side takes the *)
(* pointer that the node replaces.                                         *)
InsertLink(t) ==
  /\ pc[t] = "i_slot"
  /\ LET q == At(slot[t])
         newdirection == 1 - GetDirection(made[t], key[t])
     IN  /\ ~(IsInternal(q) /\ GoesBelow(q, made[t]))
         /\ Store(slot[t], made[t], [node EXCEPT ![made[t]].child[newdirection] = q])
         /\ path' = [k \in Key |->
              IF k = key[t]
              THEN {n \in path[str[p[t]].key] \cap Node : node[n].pos < node[made[t]].pos}
                     \cup {made[t], node[made[t]].child[1 - newdirection]}
              ELSE IF q \in path[k] THEN path[k] \cup {made[t]} ELSE path[k]]
  /\ Goto(t, "w_unlock")
  /\ ret' = [ret EXCEPT ![t] = 0]
  /\ Bind(key[t], val[t])
  /\ UNCHANGED <<root, str, live, sync, locals, fault>>

WriterUnlock(t) ==
  /\ pc[t] = "w_unlock"
  /\ wlock' = NULL
  /\ Return(t)
  /\ UNCHANGED <<heap, cur, prev, rd, fault, history>>

(***************************************************************************)
(* critbit_delete: under wlock, unlink the key with its parent node by one *)
(* store, swap the two read locks and wait for the readers of the old one; *)
(* then, outside the critical section, release the unlinked blocks.        *)
(***************************************************************************)
DeleteLock(t, k) ==
  /\ pc[t] = "idle" /\ root
  /\ wlock = NULL
  /\ wlock' = t
  /\ Goto(t, "d_walk")
  /\ key' = [key EXCEPT ![t] = k]
  /\ p' = [p EXCEPT ![t] = head]
  /\ UNCHANGED <<heap, cur, prev, rd, val, lock, slot, gslot, made, ret, fault, history>>

DeleteWalk(t) ==
  /\ pc[t] = "d_walk" /\ IsInternal(p[t]) /\ p[t] \in live
  /\ gslot' = [gslot EXCEPT ![t] = slot[t]]
  /\ slot' = [slot EXCEPT ![t] = [in |-> p[t], dir |-> GetDirection(p[t], key[t])]]
  /\ p' = [p EXCEPT ![t] = node[p[t]].child[GetDirection(p[t], key[t])]]
  /\ UNCHANGED <<heap, sync, pc, key, val, lock, made, ret, fault, history>>

(* The tree is empty, or the nearest key is another one. *)
DeleteAbsent(t) ==
  /\ pc[t] = "d_walk"
  /\ p[t] # NULL => p[t] \in Str /\ p[t] \in live /\ str[p[t]].key # key[t]
  /\ Goto(t, "d_swap")
  /\ p' = [p EXCEPT ![t] = NULL]
  /\ UNCHANGED <<heap, sync, key, val, lock, slot, gslot, made, ret, fault, history>>

Sibling_Same(s) == node[s.in].child[s.dir]   (* mutant: the wrong child *)
(* q->child[1 - dir] *)
Sibling(s) == node[s.in].child[1 - s.dir]

(* p becomes the unlinked block: the node, or the string of a tree of one. *)
DeleteUnlink(t) ==
  /\ pc[t] = "d_walk" /\ p[t] \in Str /\ p[t] \in live
  /\ str[p[t]].key = key[t]
  /\ Goto(t, "d_swap")
  /\ LET q == slot[t].in
     IN  \/ /\ q = NULL
            /\ head' = NULL
            /\ UNCHANGED <<node, p>>
         \/ /\ q # NULL
            /\ Store(gslot[t], Sibling(slot[t]), node)
            /\ p' = [p EXCEPT ![t] = q]
  /\ path' = [k \in Key |-> IF k = key[t] THEN {} ELSE path[k] \ {slot[t].in}]
  /\ Bind(key[t], NULL)
  /\ UNCHANGED <<root, str, live, sync, key, val, lock, slot, gslot, made, ret, fault>>

DeleteSwap_Dropped(t) ==   (* mutant: the locks are not swapped *)
  /\ pc[t] = "d_swap"
  /\ Goto(t, "d_wait")
  /\ lock' = [lock EXCEPT ![t] = cur]
  /\ UNCHANGED <<heap, sync, key, val, p, slot, gslot, made, ret, fault, history>>
DeleteSwap_WaitNew(t) ==   (* mutant: waits for the readers to come *)
  /\ pc[t] = "d_swap"
  /\ Goto(t, "d_wait")
  /\ lock' = [lock EXCEPT ![t] = prev]
  /\ cur' = prev
  /\ prev' = cur
  /\ UNCHANGED <<heap, wlock, rd, key, val, p, slot, gslot, made, ret, fault, history>>
DeleteSwap(t) ==
  /\ pc[t] = "d_swap"
  /\ Goto(t, "d_wait")
  /\ lock' = [lock EXCEPT ![t] = cur]
  /\ cur' = prev
  /\ prev' = cur
  /\ UNCHANGED <<heap, wlock, rd, key, val, p, slot, gslot, made, ret, fault, history>>

DeleteWait_Skipped(t) ==   (* mutant: does not wait *)
  /\ pc[t] = "d_wait"
  /\ Goto(t, "d_unlock")
  /\ UNCHANGED <<heap, sync, locals, ret, fault, history>>
(* pthread_rwlock_wrlock and unlock of the lock the readers used so far. *)
DeleteWait(t) ==
  /\ pc[t] = "d_wait"
  /\ rd[lock[t]] = {}
  /\ Goto(t, "d_unlock")
  /\ UNCHANGED <<heap, sync, locals, ret, fault, history>>

DeleteUnlock(t) ==
  /\ pc[t] = "d_unlock"
  /\ wlock' = NULL
  /\ IF p[t] = NULL
     THEN Return(t)
     ELSE Goto(t, IF IsInternal(p[t]) THEN "d_cmp" ELSE "d_free") /\ UNCHANGED <<locals, ret>>
  /\ UNCHANGED <<heap, cur, prev, rd, fault, history>>

FirstIsMine_AnyString(t) == ~IsInternal(node[p[t]].child[0])   (* mutant: no strcmp *)
(* Is the first child of the unlinked node the string of the deleted key?  *)
FirstIsMine(t) ==
  LET first == node[p[t]].child[0]
  IN  ~IsInternal(first) /\ str[first].key = key[t]

(* The first child is read, although it may be the tree's.  The answer is  *)
(* left in slot: the child of the unlinked node to release.                *)
DeleteCompare(t) ==
  /\ pc[t] = "d_cmp"
  /\ node[p[t]].child[0] \in Str => node[p[t]].child[0] \in live
  /\ slot' = [slot EXCEPT ![t] = [in |-> p[t], dir |-> IF FirstIsMine(t) THEN 0 ELSE 1]]
  /\ Goto(t, "d_free")
  /\ UNCHANGED <<heap, sync, key, val, lock, p, gslot, made, ret, fault, history>>

(* The blocks critbit_delete passes to free. *)
Doomed(t) == IF IsInternal(p[t]) THEN {p[t], node[p[t]].child[slot[t].dir]} ELSE {p[t]}

Release(B) ==
  /\ live' = live \ B
  /\ node' = [n \in Node |-> IF n \in B THEN NoNode ELSE node[n]]
  /\ str' = [s \in Str |-> IF s \in B THEN NoStr ELSE str[s]]

DeleteFree(t) ==
  /\ pc[t] = "d_free" /\ Doomed(t) \subseteq live
  /\ Release(Doomed(t))
  /\ Return(t)
  /\ UNCHANGED <<root, head, sync, fault, history>>

(***************************************************************************)
(* critbit_clear: releases every block and the root, or does nothing when  *)
(* the tree is empty.  It takes no lock: its caller (helper.c, main) is    *)
(* alone by then.  critbit_new makes the next root.                        *)
(***************************************************************************)
Children(B) == {node[n].child[d] : n \in B \cap Node, d \in Dirs}

(* Blocks at most i edges away from the head. *)
Reach[i \in 0 .. NBits] ==
  IF i = 0 THEN {head} \ {NULL} ELSE Reach[i - 1] \cup Children(Reach[i - 1])

Linked == Reach[NBits]

Clear ==
  /\ Idle /\ root
  /\ head # NULL
  /\ Release(Linked)
  /\ head' = NULL
  /\ root' = FALSE
  /\ map' = [k \in Key |-> NULL]
  /\ path' = [k \in Key |-> {}]
  /\ UNCHANGED <<sync, pc, locals, ret, fault, seen, fresh>>

New ==
  /\ ~root
  /\ root' = TRUE
  /\ head' = NULL
  /\ wlock' = NULL
  /\ cur' = "left"
  /\ prev' = "right"
  /\ UNCHANGED <<node, str, live, rd, pc, locals, ret, fault, history>>

(***************************************************************************)
(* Undefined behaviour.                                                    *)
(***************************************************************************)

(* strcmp on the NULL that find_nearest returns for an empty tree *)
NullRead(t) ==
  /\ pc[t] = "g_walk" /\ p[t] = NULL
  /\ fault' = "null"
  /\ UNCHANGED <<heap, sync, pc, locals, ret, history>>

(* a walk, or the comparison of critbit_delete, reads a freed block *)
FreedRead(t) ==
  /\ \/ pc[t] \in {"g_walk", "i_near", "d_walk"} /\ p[t] \in Block \ live
     \/ pc[t] = "d_cmp" /\ node[p[t]].child[0] \in Str \ live
  /\ fault' = "freed"
  /\ UNCHANGED <<heap, sync, pc, locals, ret, history>>

(* critbit_delete frees a block that is already free *)
DoubleFree(t) ==
  /\ pc[t] = "d_free" /\ ~(Doomed(t) \subseteq live)
  /\ fault' = "double_free"
  /\ UNCHANGED <<heap, sync, pc, locals, ret, history>>

Get(t) == \/ GetRdLock(t) \/ GetHead(t) \/ GetWalk(t) \/ GetCompare(t) \/ GetUnlock(t)

Insert(t) ==
  \/ InsertFirst(t) \/ InsertNear(t) \/ InsertExists(t) \/ InsertAlloc(t)
  \/ InsertNoMem(t) \/ InsertDescend(t) \/ InsertLink(t) \/ WriterUnlock(t)

Delete(t) ==
  \/ DeleteWalk(t) \/ DeleteAbsent(t) \/ DeleteUnlink(t) \/ DeleteSwap(t)
  \/ DeleteWait(t) \/ DeleteUnlock(t) \/ DeleteCompare(t) \/ DeleteFree(t)

Fault(t) == NullRead(t) \/ FreedRead(t) \/ DoubleFree(t)

(* A thread goes on with the operation it has begun. *)
Step(t) == fault = "none" /\ (Get(t) \/ Insert(t) \/ Delete(t) \/ Fault(t))

(* A thread calls an operation of the tree. *)
Call(t) ==
  /\ fault = "none"
  /\ \/ "get" \in May[t] /\ \E k \in Key : GetStart(t, k)
     \/ "insert" \in May[t] /\ \E k \in Key, v \in Val : InsertLock(t, k, v)
     \/ "delete" \in May[t] /\ \E k \in Key : DeleteLock(t, k)

Halted == fault # "none" /\ UNCHANGED vars

Next ==
  \/ \E t \in Thread : Call(t) \/ Step(t)
  \/ fault = "none" /\ (Clear \/ New)
  \/ Halted

Spec == Init /\ [][Next]_vars

(* The scheduler lets every thread go on with an operation it has begun.   *)
(* Nothing makes a thread call one, or win the race for wlock.             *)
Fairness == \A t \in Thread : WF_vars(Step(t))
FairSpec == Spec /\ Fairness

-----------------------------------------------------------------------------
(***************************************************************************)
(* What the tree holds.                                                    *)
(***************************************************************************)

(* The block where the walk for key k is after i edges. *)
Walk(k) ==
  LET w[i \in 0 .. NBits] ==
        IF i = 0 THEN head
        ELSE IF IsInternal(w[i - 1]) THEN node[w[i - 1]].child[GetDirection(w[i - 1], k)]
        ELSE w[i - 1]
  IN  w

TreeMap ==
  [k \in Key |-> LET s == Walk(k)[NBits]
                 IN  IF s \in Str /\ str[s].key = k THEN str[s].val ELSE NULL]

Bound == {k \in Key : map[k] # NULL}

(* The keys of the tree whose walks pass through node n. *)
Through(n) == {k \in Bound : n \in path[k]}

Tree == UNION {path[k] : k \in Key}

Reading(t) == pc[t] \in {"g_head", "g_walk", "g_unlock"}

-----------------------------------------------------------------------------
(***************************************************************************)
(* Properties.                                                             *)
(***************************************************************************)

(* After every store of critbit_insert and critbit_delete, in the middle   *)
(* of any other operation too, a walk finds exactly the keys that were     *)
(* inserted and not deleted since, each with the value of its insertion.   *)
(* The tree consists of these walks.                                       *)
TreeHoldsMap ==
  /\ TreeMap = map
  /\ \A k \in Bound : path[k] = {Walk(k)[i] : i \in 0 .. NBits}
  /\ Tree = Linked

(* Every node of the tree tests the first position at which two of the     *)
(* keys below it differ, and these agree on all earlier positions.  The    *)
(* tree is therefore a function of its key set: insertions and deletions   *)
(* leave no trace of their order.  This is what the search for the slot    *)
(* in critbit_insert and the splice in critbit_delete must preserve.       *)
CriticalBits ==
  \A n \in Linked \cap Node :
    LET i == node[n].pos
    IN  /\ \E j, k \in Through(n) : FirstDiff(j, k, i)
        /\ \A j, k \in Through(n), h \in Pos : h < i => Bit[j][h] = Bit[k][h]

(* When no operation is under way the allocated blocks are those of the    *)
(* tree: critbit_delete has released what it unlinked, and an insertion    *)
(* that ran out of memory what it had allocated.                           *)
NoLeak == Idle => live = Linked

(* critbit_delete never releases a block that the tree still holds.        *)
FreesOnlyUnlinked ==
  [][root' => (live \ live') \cap Tree = {}]_vars

(* A reader that locked the current read lock walks on allocated memory,   *)
(* whatever the writers unlink, release and allocate meanwhile.            *)
FreshReaderSafe ==
  \A t \in Thread :
    Reading(t) /\ fresh[t] => p[t] \in live \cup {NULL}

(* Such a reader returns a binding its key had at some moment of the call: *)
(* critbit_get is linearizable although it takes no lock against writers.  *)
GetLinearizable ==
  \A t \in Thread : pc[t] = "g_unlock" /\ fresh[t] => ret[t] \in seen[t]

(* The lock of such a reader is the current one, or the one that the       *)
(* critbit_delete that replaced it still waits for: the reader delays      *)
(* every delete that unlinks under it, and new readers delay none.         *)
GracePeriod ==
  \A t \in Thread :
    Reading(t) /\ fresh[t] =>
      \/ lock[t] = cur
      \/ \E d \in Thread : wlock = d /\ pc[d] = "d_wait" /\ lock[d] = lock[t]

(* A critbit_delete does not wait for ever, although readers keep coming:  *)
(* since the swap they come to the other lock.                             *)
WaitEnds ==
  \A t \in Thread : pc[t] = "d_wait" ~> pc[t] # "d_wait" \/ fault # "none"

(* A critbit_get returns, however the tree changes under its walk: also    *)
(* when the block it stands on is released and becomes a node nearer to    *)
(* the head, which happens to a reader with an old lock, but only until a  *)
(* critbit_delete waits for that lock.                                     *)
GetEnds ==
  \A t \in Thread : pc[t] = "g_rdlock" \/ Reading(t) ~> pc[t] = "idle" \/ fault # "none"

(* Once critbit_delete has waited for the readers to be out, no reader     *)
(* uses a block it releases.                                               *)
NoFreedRead == fault # "freed"

(* critbit_delete touches no shared block after its critical section: it   *)
(* releases blocks nobody else has released.                               *)
DeletersApart == fault \notin {"freed", "double_free"}
============================================================================
