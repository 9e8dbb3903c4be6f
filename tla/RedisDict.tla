----------------------------- MODULE RedisDict -----------------------------
(***************************************************************************)
(* The dictionary of redisdict.c: a chained hash table that grows and      *)
(* shrinks by moving one bucket at a time to a second table, in the course *)
(* of other operations (incremental rehashing); iterators, of which the    *)
(* safe ones pause the rehashing; and the stateless scan, whose cursor     *)
(* counts with its bits reversed.                                          *)
(*                                                                         *)
(* The code is sequential: a call is one step.  What is hard is which      *)
(* calls come between two steps of a rehashing, an iteration or a scan.    *)
(*                                                                         *)
(* An entry is named by its key.  A bucket is the sequence of its entries. *)
(***************************************************************************)
EXTENDS Integers, SequencesExt

CONSTANTS
  Key, Val, NULL,
  Hash,        (* dictHashKey, modulo 2^Width                              *)
  Width,       (* bits of an unsigned long (a scan cursor)                 *)
  InitialSize, (* DICT_HT_INITIAL_SIZE: 4                                  *)
  ForceRatio,  (* dict_force_resize_ratio: 5                               *)
  Sizes,       (* the sizes callers of dictExpand ask for                  *)
  MaxSteps,    (* the largest n of a call of dictRehash(d, n)              *)
  Iter,        (* the iterators in use                                     *)
  Calls,       (* the functions the callers use ...                        *)
  During       (* ... and those they use while a safe iterator runs        *)

TwoTo[j \in 0 .. Width] == IF j = 0 THEN 1 ELSE 2 * TwoTo[j - 1]
Word == 0 .. TwoTo[Width] - 1
PowersOfTwo == {TwoTo[j] : j \in 0 .. Width}

Api == {"add", "replace", "delete", "deleteCurrent", "find", "random",
              "expand", "resize", "rehash", "switch", "empty", "release",
              "safe", "unsafe", "scan"}

(* An unsigned long counts the bytes of memory, so that the entries fit    *)
(* more than twice; larger sizes than 2^Width are not asked for.           *)
ASSUME DictAssumption ==
  /\ Width \in Nat
  /\ Hash \in [Key -> Word]
  /\ InitialSize \in PowersOfTwo
  /\ ForceRatio \in Nat \ {0}
  /\ Sizes \subseteq 0 .. TwoTo[Width]
  /\ IsFiniteSet(Key) /\ 2 * Cardinality(Key) <= TwoTo[Width]
  /\ IsFiniteSet(Iter)
  /\ MaxSteps \in Nat
  /\ NULL \notin Key \cup Val
  /\ Calls \subseteq Api /\ During \subseteq Api

VARIABLES
  d,     (* struct dict                                                    *)
  val,   (* the entries: v.val of each allocated one, NULL if freed        *)
  can,   (* dict_can_resize                                                *)
  it,    (* struct dictIterator, of the allocated ones                     *)
  scan   (* the cursor of a scan, and what it has to return still          *)

vars == <<d, val, can, it, scan>>

Entries == {k \in Key : val[k] # NULL}

-----------------------------------------------------------------------------
(* The tables. *)

Reset == [size |-> 0, used |-> 0, table |-> [b \in {} |-> <<>>]]

New == [ht |-> [j \in {0, 1} |-> Reset], rehashidx |-> -1, iterators |-> 0]

Slots(t) == 0 .. t.size - 1
IsRehashing(e) == e.rehashidx # -1
(* The buckets of the tables in use in which a key would be. *)
Bucket(t, k) == t.table[Hash[k] % t.size]
Tables(e) == IF IsRehashing(e) THEN {0, 1} ELSE {0}

(* The tables of e in which a search for k finds it. *)
Found_OldOnly(e, k) ==   (* mutant: the new table is not searched *)
  {j \in {0} : e.ht[0].size > 0 /\ Contains(Bucket(e.ht[j], k), k)}
Found(e, k) ==
  IF e.ht[0].size = 0 THEN {}
  ELSE {j \in Tables(e) : Contains(Bucket(e.ht[j], k), k)}

NextPower_Given(n) == Max({n, InitialSize})   (* mutant: any size *)
NextPower(n) == Min({p \in PowersOfTwo : p >= n /\ p >= InitialSize})

CanExpand(e, n) == ~IsRehashing(e) /\ e.ht[0].used <= n
Expand(e, n) ==
  LET size == NextPower(n)
      t == [size |-> size, used |-> 0, table |-> [b \in 0 .. size - 1 |-> <<>>]]
  IN CASE ~CanExpand(e, n)     -> e
       [] CanExpand(e, n) /\ e.ht[0].size = 0 -> [e EXCEPT !.ht[0] = t]
       [] OTHER                -> [e EXCEPT !.ht[1] = t, !.rehashidx = 0]

ExpandIfNeeded_NotForced(e) ==   (* mutant: no growth while resizing is off *)
  LET t == e.ht[0]
  IN CASE ~IsRehashing(e) /\ t.size = 0 -> Expand(e, InitialSize)
       [] ~IsRehashing(e) /\ t.size > 0 /\ t.used >= t.size /\ can -> Expand(e, 2 * t.used)
       [] OTHER -> e
(* dictExpand does not fail here: nothing is rehashed and used <= 2 * used. *)
ExpandIfNeeded(e) ==
  LET t == e.ht[0]
  IN CASE IsRehashing(e) -> e
       [] ~IsRehashing(e) /\ t.size = 0 -> Expand(e, InitialSize)
       [] ~IsRehashing(e) /\ t.size > 0 /\ t.used >= t.size
            /\ (can \/ t.used \div t.size > ForceRatio) -> Expand(e, 2 * t.used)
       [] OTHER -> e

(* Entry k becomes the first one of its bucket. *)
PushOn(t, k) == [t EXCEPT !.used = @ + 1, !.table[Hash[k] % t.size] = <<k>> \o @]
(* The table after the first m entries of chain c have been pushed on it.  *)
PushAll(t, c) ==
  LET u[m \in 0 .. Len(c)] == IF m = 0 THEN t ELSE PushOn(u[m - 1], c[m])
  IN  u

(* One round of the loop of dictRehash: the new table takes over, or the   *)
(* next bucket moves.  Its entries are pushed on their new buckets one by  *)
(* one, which reverses them.                                               *)
NextBucket(e) == Min({b \in Slots(e.ht[0]) : b >= e.rehashidx /\ e.ht[0].table[b] # <<>>})
MoveBucket_Drop(e) ==   (* mutant: moves the first entry only *)
  LET b == NextBucket(e)
      c == e.ht[0].table[b]
      n == e.ht[1].size
  IN [ht |-> [j \in {0, 1} |->
        IF j = 0
        THEN [e.ht[0] EXCEPT !.used = @ - Len(c), !.table[b] = <<>>]
        ELSE [e.ht[1] EXCEPT !.table[Hash[c[1]] % n] = <<c[1]>> \o @, !.used = @ + 1]],
      rehashidx |-> b + 1, iterators |-> e.iterators]
MoveBucket(e) ==
  LET b == NextBucket(e)
      c == e.ht[0].table[b]
  IN [ht |-> [j \in {0, 1} |->
        IF j = 0 THEN [e.ht[0] EXCEPT !.used = @ - Len(c), !.table[b] = <<>>]
                 ELSE PushAll(e.ht[1], c)[Len(c)]],
      rehashidx |-> b + 1, iterators |-> e.iterators]

RehashOne(e) ==
  CASE ~IsRehashing(e) -> e
    [] IsRehashing(e) /\ e.ht[0].used = 0 ->
         [e EXCEPT !.ht[0] = e.ht[1], !.ht[1] = Reset, !.rehashidx = -1]
    [] OTHER -> MoveBucket(e)

(* The dictionary after each round of dictRehash(e, n). *)
Rehash(e, n) ==
  LET r[i \in 0 .. n] == IF i = 0 THEN e ELSE RehashOne(r[i - 1])
  IN  r

RehashStep_Always(e) == RehashOne(e)   (* mutant: iterators are ignored *)
RehashStep_Inverted(e) == IF e.iterators = 0 THEN e ELSE RehashOne(e)   (* mutant *)
RehashStep(e) == IF e.iterators = 0 THEN RehashOne(e) ELSE e

(* dictAddRaw makes room, also when it then finds the key.                 *)
Room(e) == ExpandIfNeeded(RehashStep(e))
Push_OldTable(e, k) == [e EXCEPT !.ht[0] = PushOn(@, k)]   (* mutant: adds to the old table *)
Push(e, k) ==
  LET j == IF IsRehashing(e) THEN 1 ELSE 0
  IN [e EXCEPT !.ht[j] = PushOn(@, k)]

(* dictFind: the state it leaves.                                          *)
Searched(e) == IF e.ht[0].size = 0 THEN e ELSE RehashStep(e)

(* Entry k is taken out of its bucket. *)
DropFrom(t, k) == [t EXCEPT !.used = @ - 1, !.table[Hash[k] % t.size] = RemoveFirst(@, k)]
Unlink(e, k, j) == [e EXCEPT !.ht[j] = DropFrom(@, k)]

(* The chain an entry is in, and entry->next. *)
Chains == UNION {{d.ht[j].table[b] : b \in Slots(d.ht[j])} : j \in {0, 1}}
After(k) ==
  LET c == CHOOSE c \in Chains : Contains(c, k)
      n == 1 + Min({x \in DOMAIN c : c[x] = k})
  IN IF n \in DOMAIN c THEN c[n] ELSE NULL

-----------------------------------------------------------------------------
(* The callers. *)

NoIter == [live |-> FALSE, safe |-> FALSE, table |-> 0, index |-> -1,
           entry |-> NULL, next |-> NULL, todo |-> {}, got |-> {}, twice |-> FALSE]

(* An iterator counts from its first dictNext on.                          *)
Started(i) == it[i].live /\ ~(it[i].table = 0 /\ it[i].index = -1)
Running == {i \in Iter : Started(i)}

(* With an unsafe iterator "only dictNext() should be called while         *)
(* iterating"; with a safe one, what During says.                          *)
May(f) == f \in Calls /\ \A i \in Running : it[i].safe /\ f \in During

(* "The iterator user may delete the entry we are returning."              *)
MayDelete(k) ==
  \/ May("delete")
  \/ May("deleteCurrent") /\ Running # {} /\ \A i \in Running : it[i].entry = k

(* History: entry k is gone; iterators and the scan need not return it.    *)
Forget(K) ==
  /\ it' = [i \in Iter |-> [it[i] EXCEPT !.todo = @ \ K, !.got = @ \ K]]
  /\ scan' = [scan EXCEPT !.todo = @ \ K]

Init ==
  /\ d = New
  /\ val = [k \in Key |-> NULL]
  /\ can = TRUE
  /\ it = [i \in Iter |-> NoIter]
  /\ scan = [v |-> 0, todo |-> {}, skewed |-> FALSE]

-----------------------------------------------------------------------------
(* dictAdd; dictAddRaw is the same with a value the caller stores. *)
DictAdd(k, v) ==
  /\ May("add")
  /\ LET e == Room(d)
     IN IF Found(e, k) = {}
        THEN d' = Push(e, k) /\ val' = [val EXCEPT ![k] = v]
        ELSE d' = e /\ UNCHANGED val
  /\ UNCHANGED <<can, it, scan>>

(* dictReplace adds, or else finds and overwrites. *)
DictReplace(k, v) ==
  /\ May("replace")
  /\ LET e == Room(d)
     IN d' = IF Found(e, k) = {} THEN Push(e, k) ELSE Searched(e)
  /\ val' = [val EXCEPT ![k] = v]
  /\ UNCHANGED <<can, it, scan>>

(* dictReplaceRaw finds, or else adds; the caller stores a value. *)
DictReplaceRaw(k, v) ==
  /\ May("replace")
  /\ LET e == Searched(d)
     IN d' = IF Found(e, k) = {} THEN Push(Room(e), k) ELSE e
  /\ val' = [val EXCEPT ![k] = v]
  /\ UNCHANGED <<can, it, scan>>

(* dictFind, dictFetchValue. *)
DictFind(k) ==
  /\ May("find")
  /\ d' = Searched(d)
  /\ UNCHANGED <<val, can, it, scan>>

(* dictGetRandomKey: the loops that draw a bucket end, since there is one. *)
DictGetRandomKey ==
  /\ May("random")
  /\ d.ht[0].used + d.ht[1].used > 0
  /\ d' = RehashStep(d)
  /\ UNCHANGED <<val, can, it, scan>>

DictDelete_FreesNext(k) ==   (* mutant: frees he after he = he->next *)
  /\ MayDelete(k)
  /\ LET e == Searched(d)
         f == IF After(k) = NULL THEN k ELSE After(k)
     IN IF Found(e, k) = {}
        THEN d' = e /\ UNCHANGED <<val, it, scan>>
        ELSE /\ d' = Unlink(e, k, Min(Found(e, k)))
             /\ val' = [val EXCEPT ![f] = NULL]
             /\ Forget({k})
  /\ UNCHANGED can
(* dictDelete, dictDeleteNoFree. *)
DictDelete(k) ==
  /\ MayDelete(k)
  /\ LET e == Searched(d)
     IN IF Found(e, k) = {}
        THEN d' = e /\ UNCHANGED <<val, it, scan>>
        ELSE /\ d' = Unlink(e, k, Min(Found(e, k)))
             /\ val' = [val EXCEPT ![k] = NULL]
             /\ Forget({k})
  /\ UNCHANGED can

DictExpand(n) ==
  /\ May("expand")
  /\ d' = Expand(d, n)
  /\ UNCHANGED <<val, can, it, scan>>

DictResize ==
  /\ May("resize")
  /\ can /\ ~IsRehashing(d)
  /\ d' = Expand(d, Max({d.ht[0].used, InitialSize}))
  /\ UNCHANGED <<val, can, it, scan>>

(* dictRehash; dictRehashMilliseconds calls it repeatedly. *)
DictRehash(n) ==
  /\ May("rehash")
  /\ d' = Rehash(d, n)[n]
  /\ UNCHANGED <<val, can, it, scan>>

(* dictEnableResize, dictDisableResize *)
DictSwitchResize ==
  /\ May("switch")
  /\ can' = ~can
  /\ UNCHANGED <<d, val, it, scan>>

DictEmpty ==
  /\ May("empty")
  /\ d' = New
  /\ val' = [k \in Key |-> NULL]
  /\ Forget(Key)
  /\ UNCHANGED can

(* dictRelease, and dictCreate for a new dictionary. *)
DictRelease ==
  /\ May("release")
  /\ \A i \in Iter : ~it[i].live
  /\ d' = New
  /\ val' = [k \in Key |-> NULL]
  /\ scan' = [v |-> 0, todo |-> {}, skewed |-> FALSE]
  /\ UNCHANGED <<can, it>>

-----------------------------------------------------------------------------
(* Iterators. *)

(* dictGetIterator, dictGetSafeIterator *)
DictGetIterator(i, safe) ==
  /\ (IF safe THEN "safe" ELSE "unsafe") \in Calls
  /\ ~it[i].live
  /\ it' = [it EXCEPT ![i] = [NoIter EXCEPT !.live = TRUE, !.safe = safe]]
  /\ UNCHANGED <<d, val, can, scan>>

(* The non-empty buckets that come after position (table, index) of an     *)
(* iterator.                                                               *)
Ahead(i) ==
  {x \in (Tables(d) \cup {it[i].table}) \X Word :
     /\ x[2] < d.ht[x[1]].size
     /\ d.ht[x[1]].table[x[2]] # <<>>
     /\ x[1] > it[i].table \/ (x[1] = it[i].table /\ x[2] > it[i].index)}
First(X) == CHOOSE x \in X : \A y \in X : x[1] < y[1] \/ (x[1] = y[1] /\ x[2] <= y[2])

(* Entry k, at the given place, is what dictNext returns (NULL: the end). *)
Return(i, table, index, k) ==
  it' = [it EXCEPT ![i] =
           [it[i] EXCEPT !.table = table, !.index = index, !.entry = k,
                         !.next = IF k = NULL THEN it[i].next ELSE After(k),
                         !.todo = (IF Started(i) THEN it[i].todo ELSE Entries) \ {k},
                         !.twice = it[i].twice \/ k \in it[i].got,
                         !.got = IF k = NULL THEN it[i].got ELSE it[i].got \cup {k}]]

(* The first dictNext registers a safe iterator. *)
Register(i) ==
  d' = IF it[i].safe /\ ~Started(i) THEN [d EXCEPT !.iterators = @ + 1] ELSE d

(* dictNext goes on in the chain it is in ... *)
DictNextInChain(i) ==
  /\ it[i].live /\ it[i].entry # NULL
  /\ it[i].next \in Entries
  /\ Return(i, it[i].table, it[i].index, it[i].next)
  /\ UNCHANGED <<d, val, can, scan>>

AtChainEnd(i) ==
  it[i].live /\ (IF Started(i) THEN it[i].entry # NULL /\ it[i].next = NULL ELSE TRUE)

(* ... goes to the next chain that is not empty ... *)
DictNextBucket(i) ==
  /\ AtChainEnd(i)
  /\ Ahead(i) # {}
  /\ LET x == First(Ahead(i))
     IN Return(i, x[1], x[2], Head(d.ht[x[1]].table[x[2]]))
  /\ Register(i)
  /\ UNCHANGED <<val, can, scan>>

(* ... or returns NULL. *)
DictNextEnd(i) ==
  /\ AtChainEnd(i)
  /\ Ahead(i) = {}
  /\ LET j == IF IsRehashing(d) THEN 1 ELSE it[i].table
         n == d.ht[j].size
     IN Return(i, j, IF j = it[i].table THEN Max({n, it[i].index + 1}) ELSE n, NULL)
  /\ Register(i)
  /\ UNCHANGED <<val, can, scan>>

DictReleaseIterator_Leak(i) ==   (* mutant: stays registered *)
  /\ it[i].live
  /\ it' = [it EXCEPT ![i] = NoIter]
  /\ UNCHANGED <<d, val, can, scan>>
DictReleaseIterator(i) ==
  /\ it[i].live
  /\ d' = IF it[i].safe /\ Started(i) THEN [d EXCEPT !.iterators = @ - 1] ELSE d
  /\ it' = [it EXCEPT ![i] = NoIter]
  /\ UNCHANGED <<val, can, scan>>

-----------------------------------------------------------------------------
(* The scan. *)

(* rev: the bits of a word in the opposite order, of which Bits takes the  *)
(* j lowest ones.                                                          *)
Bits(v) ==
  LET r[j \in 0 .. Width] == IF j = 0 THEN 0 ELSE 2 * r[j - 1] + ((v \div TwoTo[j - 1]) % 2)
  IN  r
Rev(v) == Bits(v)[Width]

(* The smaller and the bigger table of a dictionary that is rehashing.     *)
Small(e) == IF IsRehashing(e) /\ e.ht[0].size > e.ht[1].size THEN 1 ELSE 0
Big(e) == 1 - Small(e)

(* v |= ~m0; v = rev(v); v++; v = rev(v), for the small table's mask m0.   *)
NextCursor(v, size) ==
  LET unmasked == (TwoTo[Width] - size) + (v % size)
  IN Rev((Rev(unmasked) + 1) % TwoTo[Width])

(* The buckets of the bigger table that expand bucket v of the smaller     *)
(* one, from v itself upwards.                                             *)
Expansions_One(v, small, big) == {v % big}   (* mutant: only one of them *)
Expansions(v, small, big) ==
  {b \in 0 .. big - 1 : b % small = v % small /\ b >= v % big}

Emitted(e, v) ==
  LET s == e.ht[Small(e)]
      b == e.ht[Big(e)]
  IN ToSet(s.table[v % s.size])
       \cup IF IsRehashing(e)
            THEN UNION {ToSet(b.table[x]) : x \in Expansions(v, s.size, b.size)}
            ELSE {}

(* History: the cursor comes from a table that was larger than the smaller *)
(* one is now, and the tables differ by more than a factor of two.         *)
Skewed(e, v) ==
  LET s == e.ht[Small(e)].size
      b == e.ht[Big(e)].size
  IN IsRehashing(e) /\ b > 2 * s /\ v % b >= s

(* One call on a dictionary that is not empty. *)
Advance ==
  scan' = [v |-> NextCursor(scan.v, d.ht[Small(d)].size),
           todo |-> (IF scan.v = 0 THEN Entries ELSE scan.todo) \ Emitted(d, scan.v),
           skewed |-> (scan.v # 0 /\ scan.skewed) \/ Skewed(d, scan.v)]

DictScan_KeepCursor ==   (* mutant: an empty dictionary leaves the cursor *)
  /\ "scan" \in Calls
  /\ d.ht[0].used + d.ht[1].used > 0
  /\ Advance
  /\ UNCHANGED <<d, val, can, it>>
(* A call with cursor 0 begins a scan; the one that returns 0 ends it.     *)
DictScan ==
  /\ "scan" \in Calls
  /\ IF d.ht[0].used + d.ht[1].used = 0 THEN scan' = [scan EXCEPT !.v = 0] ELSE Advance
  /\ UNCHANGED <<d, val, can, it>>

-----------------------------------------------------------------------------
Update ==
  \/ \E k \in Key, v \in Val : DictAdd(k, v) \/ DictReplace(k, v) \/ DictReplaceRaw(k, v)
  \/ \E k \in Key : DictDelete(k)
  \/ DictEmpty \/ DictRelease
Lookup == (\E k \in Key : DictFind(k)) \/ DictGetRandomKey
Tune ==
  \/ \E n \in Sizes : DictExpand(n)
  \/ \E n \in 1 .. MaxSteps : DictRehash(n)
  \/ DictResize \/ DictSwitchResize
DictNext(i) == DictNextInChain(i) \/ DictNextBucket(i) \/ DictNextEnd(i)
Iterate(i) ==
  \/ \E safe \in BOOLEAN : DictGetIterator(i, safe)
  \/ DictNext(i) \/ DictReleaseIterator(i)

Next == Update \/ Lookup \/ Tune \/ DictScan \/ \E i \in Iter : Iterate(i)

Spec == Init /\ [][Next]_vars

(* The dictionary is looked up again and again, and a scan that has begun  *)
(* goes on.                                                                *)
Fairness == WF_vars(Lookup) /\ WF_vars(scan.v # 0 /\ DictScan)
FairSpec == Spec /\ Fairness

-----------------------------------------------------------------------------
TypeOK ==
  /\ \A j \in {0, 1} :
       LET t == d.ht[j]
       IN /\ t.size \in PowersOfTwo \cup {0}
          /\ t.used \in Nat
          /\ DOMAIN t.table = Slots(t)
          /\ \A b \in Slots(t) : t.table[b] \in Seq(Key)
  /\ d.rehashidx \in {-1} \cup Nat
  /\ d.iterators \in Int
  /\ val \in [Key -> Val \cup {NULL}]
  /\ can \in BOOLEAN
  /\ it \in [Iter -> [live : BOOLEAN, safe : BOOLEAN, table : {0, 1}, index : {-1} \cup Nat,
                      entry : Key \cup {NULL}, next : Key \cup {NULL},
                      todo : SUBSET Key, got : SUBSET Key, twice : BOOLEAN]]
  /\ scan \in [v : Word, todo : SUBSET Key, skewed : BOOLEAN]

(* Where entry k is: table, bucket and position. *)
Places(k) ==
  {x \in {0, 1} \X Word \X (1 .. Cardinality(Key)) :
     /\ x[2] < d.ht[x[1]].size
     /\ x[3] \in DOMAIN d.ht[x[1]].table[x[2]]
     /\ d.ht[x[1]].table[x[2]][x[3]] = k}

(* Whatever has moved, every allocated entry is at exactly one place, in a *)
(* bucket that dictFind and dictDelete search for its key; a freed entry   *)
(* is nowhere (redisdict.c, dictRehash and _dictKeyIndex).                 *)
OneHome ==
  \A k \in Key :
    IF val[k] = NULL THEN Places(k) = {}
    ELSE Cardinality(Places(k)) = 1 /\ Found(d, k) # {}

(* used counts the entries of its table, and during a rehashing none of    *)
(* them is in front of rehashidx, so that the search for the next bucket   *)
(* stays in the table: "rehashidx can't overflow as we are sure there are  *)
(* more elements because ht[0].used != 0".                                 *)
RehashInBounds ==
  /\ \A j \in {0, 1} :
       d.ht[j].used = Cardinality({k \in Key : \E x \in Places(k) : x[1] = j})
  /\ IsRehashing(d) =>
       /\ d.ht[1].size > 0
       /\ \A b \in Slots(d.ht[0]) : b < d.rehashidx => d.ht[0].table[b] = <<>>
  /\ ~IsRehashing(d) => d.ht[1] = Reset

(* However resizing is switched on and off, a table that is not being      *)
(* replaced has at most ForceRatio + 1 entries per bucket: "even when      *)
(* dict_can_resize is set to 0 [...] an hash table is still allowed to     *)
(* grow if the ratio between the number of elements and the buckets >      *)
(* dict_force_resize_ratio".  No safe iterator may run meanwhile: it would *)
(* pause the rehashing, and a table in use as the new one does not grow.   *)
LoadBounded ==
  ~IsRehashing(d) => d.ht[0].used <= (ForceRatio + 1) * d.ht[0].size

(* An iteration that has come to its end has returned every entry that was *)
(* there from its first dictNext on, and it returns no entry twice: "When  *)
(* we have iterators in the middle of a rehashing we can't mess with the   *)
(* two hash tables otherwise some element can be missed or duplicated."    *)
IteratorExact ==
  \A i \in Iter :
    /\ ~it[i].twice
    /\ Started(i) /\ it[i].entry = NULL => it[i].todo = {}

(* The entry dictNext will return next, which it keeps a pointer to, is    *)
(* allocated: "We need to save the 'next' here, the iterator user may      *)
(* delete the entry we are returning."                                     *)
NextNotFreed ==
  \A i \in Iter : it[i].entry # NULL => it[i].next \in Entries \cup {NULL}

(* d->iterators, which pauses the rehashing, is the number of safe         *)
(* iterators between their first dictNext and their release.               *)
IteratorsCounted == d.iterators = Cardinality({i \in Running : it[i].safe})

(* dictScan: "all the elements that are present in the dictionary from the *)
(* start to the end of the iteration are returned", whatever happens to    *)
(* the tables meanwhile.                                                   *)
ScanComplete == scan.v = 0 => scan.todo = {}

(* As long as the tables differ by a factor of two at most whenever        *)
(* dictScan is called with a cursor of a larger table, that guarantee      *)
(* holds.                                                                  *)
ScanCompleteUnlessSkewed == scan.v = 0 => scan.todo = {} \/ scan.skewed

(* A rehashing comes to its end when the dictionary is used and no         *)
(* iterator is started: "the hash table automatically migrates from H1 to  *)
(* H2 while it is actively used".                                          *)
RehashEnds == IsRehashing(d) ~> (~IsRehashing(d) \/ Running # {})

(* A scan comes to its end although the tables grow and shrink under it.   *)
ScanEnds == scan.v # 0 ~> scan.v = 0
=============================================================================
