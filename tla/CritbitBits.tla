---------------------------- MODULE CritbitBits ----------------------------
(***************************************************************************)
(* The byte arithmetic of critbit_insert_inplace and get_direction: from   *)
(* the nearest string p of the tree and a new key it finds the pair        *)
(* (newbyte, newotherbits) of the new node and the side p's subtree takes. *)
(* Critbit stands on the result: the pair names the first bit, counted     *)
(* from the most significant bit of the first byte, at which the two       *)
(* differ.  Every iteration of the code's two loops is a step.             *)
(*                                                                         *)
(* A string is a sequence of bytes 1 .. 255 followed by a NUL.             *)
(***************************************************************************)
EXTENDS Integers, Sequences

CONSTANTS
  Pairs,     (* the pairs of strings compared                              *)
  Probes     (* strings whose direction at the new node is looked up       *)

Str == Seq(1 .. 255)

ASSUME StrAssumption == Pairs \subseteq Str \X Str /\ Probes \subseteq Str

VARIABLES p, bytes, newbyte, newotherbits, newdirection, pc

vars == <<p, bytes, newbyte, newotherbits, newdirection, pc>>

(* s[i] of the C string s, its NUL included. *)
Char(s, i) == IF i = Len(s) THEN 0 ELSE s[i + 1]

(* The bits of a byte, from the most significant one on, and the byte that *)
(* has the bits b.                                                         *)
Weight == <<128, 64, 32, 16, 8, 4, 2, 1>>
BitOf(c, j) == (c \div Weight[j + 1]) % 2
Byte(b) == 128 * b[0] + 64 * b[1] + 32 * b[2] + 16 * b[3] + 8 * b[4] + 4 * b[5] + 2 * b[6] + b[7]

(* c & d, c | d, c ^ d *)
And(c, d) == Byte([j \in 0 .. 7 |-> BitOf(c, j) * BitOf(d, j)])
Or(c, d) == Byte([j \in 0 .. 7 |-> IF BitOf(c, j) = 1 THEN 1 ELSE BitOf(d, j)])
Xor(c, d) == Byte([j \in 0 .. 7 |-> IF BitOf(c, j) = BitOf(d, j) THEN 0 ELSE 1])

(* (1 + (otherbits | c)) >> 8 *)
Direction(otherbits, c) == (1 + Or(otherbits, c)) \div 256

GetDirection_PastEnd(byte, otherbits, s) ==   (* mutant: a short key goes right *)
  IF byte < Len(s) THEN Direction(otherbits, Char(s, byte)) ELSE 1
(* get_direction *)
GetDirection(byte, otherbits, s) ==
  IF byte < Len(s) THEN Direction(otherbits, Char(s, byte)) ELSE 0

Init ==
  /\ \E pair \in Pairs : p = pair[1] /\ bytes = pair[2]
  /\ newbyte = 0
  /\ newotherbits = 0
  /\ newdirection = 0
  /\ pc = "compare"

Same_NoLength ==   (* mutant: keylen is not tested *)
  /\ pc = "compare"
  /\ Char(p, newbyte) = Char(bytes, newbyte)
  /\ newbyte' = newbyte + 1
  /\ UNCHANGED <<p, bytes, newotherbits, newdirection, pc>>
(* Two strings that agree on their first newbyte bytes. *)
Same ==
  /\ pc = "compare"
  /\ newbyte < Len(bytes)
  /\ Char(p, newbyte) = Char(bytes, newbyte)
  /\ newbyte' = newbyte + 1
  /\ UNCHANGED <<p, bytes, newotherbits, newdirection, pc>>

Differ ==
  /\ pc = "compare"
  /\ newbyte < Len(bytes)
  /\ Char(p, newbyte) # Char(bytes, newbyte)
  /\ newotherbits' = Xor(Char(p, newbyte), Char(bytes, newbyte))
  /\ pc' = "isolate"
  /\ UNCHANGED <<p, bytes, newbyte, newdirection>>

(* The key is over: p goes on, or it is the same string. *)
KeyEnd ==
  /\ pc = "compare"
  /\ newbyte = Len(bytes)
  /\ newotherbits' = Char(p, newbyte)
  /\ pc' = IF Char(p, newbyte) # 0 THEN "isolate" ELSE "exists"
  /\ UNCHANGED <<p, bytes, newbyte, newdirection>>

ClearLow_Same ==   (* mutant: the loop makes no progress *)
  /\ pc = "isolate"
  /\ And(newotherbits, newotherbits - 1) # 0
  /\ UNCHANGED vars
(* Clear the lowest bit until one bit is left. *)
ClearLow ==
  /\ pc = "isolate"
  /\ And(newotherbits, newotherbits - 1) # 0
  /\ newotherbits' = And(newotherbits, newotherbits - 1)
  /\ UNCHANGED <<p, bytes, newbyte, newdirection, pc>>

Finish_KeyByte ==   (* mutant: c is the key's byte *)
  /\ pc = "isolate"
  /\ And(newotherbits, newotherbits - 1) = 0
  /\ newotherbits' = Xor(newotherbits, 255)
  /\ newdirection' = Direction(newotherbits', Char(bytes, newbyte))
  /\ pc' = "done"
  /\ UNCHANGED <<p, bytes, newbyte>>
Finish ==
  /\ pc = "isolate"
  /\ And(newotherbits, newotherbits - 1) = 0
  /\ newotherbits' = Xor(newotherbits, 255)
  /\ newdirection' = Direction(newotherbits', Char(p, newbyte))
  /\ pc' = "done"
  /\ UNCHANGED <<p, bytes, newbyte>>

Next == Same \/ Differ \/ KeyEnd \/ ClearLow \/ Finish

Spec == Init /\ [][Next]_vars /\ WF_vars(Next)

-----------------------------------------------------------------------------
(* Bit i of the string s, 0 past its end. *)
BitAt(s, i) ==
  IF i \div 8 < Len(s) THEN BitOf(s[(i \div 8) + 1], i % 8) ELSE 0

(* The bit position that a pair (byte, otherbits) names: otherbits is all  *)
(* ones but for that bit.                                                  *)
Position(byte, otherbits) ==
  8 * byte + (CHOOSE j \in 0 .. 7 : otherbits = 255 - Weight[j + 1])

(* The loops end in a node that tests the first differing bit of the two   *)
(* strings and puts p's subtree on the side of p's bit, or report that     *)
(* the key exists, exactly when the strings are equal.                     *)
FindsCriticalBit ==
  /\ pc = "exists" => p = bytes
  /\ pc = "done" =>
       LET i == Position(newbyte, newotherbits)
       IN  /\ BitAt(p, i) # BitAt(bytes, i)
           /\ \A h \in 0 .. i - 1 : BitAt(p, h) = BitAt(bytes, h)
           /\ newdirection = BitAt(p, i)

(* At the new node get_direction sends every string to the side of its     *)
(* bit, and one that ends before the node's byte to side 0.                *)
DirectionIsBit ==
  pc = "done" =>
    LET i == Position(newbyte, newotherbits)
    IN  \A s \in Probes : GetDirection(newbyte, newotherbits, s) = BitAt(s, i)

(* The comparison reads neither string past its NUL.                       *)
InBounds == newbyte <= Len(p) /\ newbyte <= Len(bytes)

(* The loop that isolates a bit ends.                                      *)
Terminates == <>(pc \in {"exists", "done"})
============================================================================
