------------------------------- MODULE Uthash -------------------------------
(***************************************************************************)
(* The hash table of uthash.h, by the macros uthash.c uses.  An element is *)
(* named by its key.  A table keeps every element twice: in the order of   *)
(* insertion (prev, next and tail of its handle), and in the chain of its  *)
(* bucket (hh_head, hh_prev, hh_next); both lists are sequences here.      *)
(***************************************************************************)
EXTENDS Integers, SequencesExt

CONSTANTS
  Hash,             (* HASH_FCN: the number of each key                    *)
  InitialBuckets,   (* HASH_INITIAL_NUM_BUCKETS                            *)
  Threshold         (* HASH_BKT_CAPACITY_THRESH                            *)

EmptyBucket == [chain |-> <<>>, count |-> 0, mult |-> 0]

(* HASH_MAKE_TABLE.  With no elements in it, it stands for head = NULL. *)
MakeTable ==
  [buckets |-> [b \in 0 .. InitialBuckets - 1 |-> EmptyBucket],
   num |-> InitialBuckets, order |-> <<>>, items |-> 0,
   ideal |-> 0, ineff |-> 0, noexpand |-> FALSE]

ToBkt(k, num) == Hash[k] % num

FindInBkt(bucket, k) == Contains(bucket.chain, k)
Find(t, k) == FindInBkt(t.buckets[ToBkt(k, t.num)], k)

(* f[0] + ... + f[n - 1] *)
Total(f, n) == LET sum[i \in 0 .. n] == IF i = 0 THEN 0 ELSE sum[i - 1] + f[i - 1] IN sum[n]

(* Bucket b of num gets the elements of chain c that belong there. *)
Pushed(c, num, b) ==
  LET chain[m \in 0 .. Len(c)] ==
        IF m = 0 THEN <<>>
        ELSE IF ToBkt(c[m], num) = b THEN <<c[m]>> \o chain[m - 1] ELSE chain[m - 1]
  IN chain[Len(c)]

(* HASH_EXPAND_BUCKETS.  The elements of a chain are pushed one by one on  *)
(* the new chains, which turns them round.                                 *)
Expand_OldMask(t) ==   (* mutant: the buckets are those of the old number *)
  LET num == 2 * t.num
      chains == [b \in 0 .. num - 1 |->
                   IF b < t.num THEN Reverse(t.buckets[b].chain) ELSE <<>>]
  IN [t EXCEPT !.num = num,
               !.buckets = [b \in DOMAIN chains |->
                              [chain |-> chains[b], count |-> Len(chains[b]), mult |-> 0]]]
Expand(t) ==
  LET num == 2 * t.num
      ideal == t.items \div num + (IF t.items % num = 0 THEN 0 ELSE 1)
      chains == [b \in 0 .. num - 1 |-> Pushed(t.buckets[b % t.num].chain, num, b)]
      Bucket(c) == [chain |-> c, count |-> Len(c),
                    mult |-> IF Len(c) > ideal THEN Len(c) \div ideal ELSE 0]
      nonideal == Total([b \in 0 .. num - 1 |-> Max({0, Len(chains[b]) - ideal})], num)
      ineff == IF nonideal > t.items \div 2 THEN t.ineff + 1 ELSE 0
  IN [t EXCEPT !.num = num, !.buckets = [b \in 0 .. num - 1 |-> Bucket(chains[b])],
               !.ideal = ideal, !.ineff = ineff, !.noexpand = @ \/ ineff > 1]

AddToBkt(t, k) ==
  LET b == ToBkt(k, t.num)
      bucket == [t.buckets[b] EXCEPT !.chain = <<k>> \o @, !.count = @ + 1]
      u == [t EXCEPT !.buckets[b] = bucket]
  IN IF bucket.count >= (bucket.mult + 1) * Threshold /\ ~t.noexpand THEN Expand(u) ELSE u

(* HASH_ADD_KEYPTR *)
HashAdd(t, k) ==
  AddToBkt([t EXCEPT !.order = Append(@, k), !.items = @ + 1], k)

DelInBkt(bucket, k) == [bucket EXCEPT !.chain = RemoveFirst(@, k), !.count = @ - 1]

(* HASH_DELETE: with the only element goes the table. *)
HashDelete(t, k) ==
  IF t.order = <<k>> THEN MakeTable
  ELSE [t EXCEPT !.order = RemoveFirst(@, k),
                 !.buckets[ToBkt(k, t.num)] = DelInBkt(@, k),
                 !.items = @ - 1]

(* HASH_ITER with HASH_DELETE of each element. *)
HashDeleteAll(t) ==
  LET u[m \in 0 .. Len(t.order)] == IF m = 0 THEN t ELSE HashDelete(u[m - 1], t.order[m])
  IN u[Len(t.order)]

(* HASH_FSCK: every chain is as long as its bucket says, and there are as  *)
(* many elements in all chains, and in the order of insertion, as items.   *)
Fsck(t) ==
  /\ \A b \in DOMAIN t.buckets : t.buckets[b].count = Len(t.buckets[b].chain)
  /\ t.items = Total([b \in DOMAIN t.buckets |-> Len(t.buckets[b].chain)], t.num)
  /\ t.items = Len(t.order)
=============================================================================
