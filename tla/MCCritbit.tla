----------------------------- MODULE MCCritbit -----------------------------
(***************************************************************************)
(* Model-checking instances of Critbit.  A key is a sequence of nonzero    *)
(* bytes of W bits; its bit string is read from the most significant bit   *)
(* of the first byte on and is 0 past the end of the key.                  *)
(***************************************************************************)
EXTENDS CritbitMap, Sequences, TLC

CONSTANTS r1, r2, d1, d2, w1

W == 2

BitsOf(k) ==
  [i \in Pos |-> LET byte == i \div W
                 IN  IF byte < Len(k)
                     THEN (k[byte + 1] \div 2 ^ (W - 1 - (i % W))) % 2
                     ELSE 0]

MCBit == [k \in Key |-> BitsOf(k)]

KeysSeq == {<<>>, <<1>>, <<2>>, <<1, 1>>, <<1, 3>>}
Keys2 == {<<1>>, <<2>>}
Keys3 == {<<>>, <<1>>, <<2>>}

MayAll == [t \in Thread |-> {"get", "insert", "delete"}]
(* Threads by their first letter: readers, writers, deleters. *)
MayByName ==
  [t \in Thread |-> CASE t \in {r1, r2} -> {"get"}
                      [] t = w1 -> {"insert"}
                      [] t \in {d1, d2} -> {"insert", "delete"}]

Blocks == Permutations(Node) \cup Permutations(Str)
============================================================================
