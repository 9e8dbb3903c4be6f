------------------------- MODULE CritbitBitsProofs -------------------------
(***************************************************************************)
(* The byte arithmetic of critbit_insert_inplace and get_direction is      *)
(* right for strings of any length: it finds the first bit at which two    *)
(* strings differ.                                                         *)
(***************************************************************************)
EXTENDS CritbitBits, Iteration, TLAPS

BitVec == [0 .. 7 -> {0, 1}]
Chars == 0 .. 255

-----------------------------------------------------------------------------
(* Bytes and their bits.                                                   *)

(* The bits of a byte written out.                                         *)
LEMMA BitsWritten ==
  ASSUME NEW c \in Chars
  PROVE  /\ BitOf(c, 0) = (c \div 128) % 2 /\ BitOf(c, 1) = (c \div 64) % 2
         /\ BitOf(c, 2) = (c \div 32) % 2 /\ BitOf(c, 3) = (c \div 16) % 2
         /\ BitOf(c, 4) = (c \div 8) % 2 /\ BitOf(c, 5) = (c \div 4) % 2
         /\ BitOf(c, 6) = (c \div 2) % 2 /\ BitOf(c, 7) = c % 2
<1>1. /\ Weight[0 + 1] = 128 /\ Weight[1 + 1] = 64 /\ Weight[2 + 1] = 32 /\ Weight[3 + 1] = 16
      /\ Weight[4 + 1] = 8 /\ Weight[5 + 1] = 4 /\ Weight[6 + 1] = 2 /\ Weight[7 + 1] = 1
  BY DEF Weight
<1>2. c \div 1 = c
  BY DEF Chars
<1> QED
  BY <1>1, <1>2 DEF BitOf

(* A bit is 0 or 1.                                                        *)
LEMMA BitIs01 ==
  ASSUME NEW c \in Chars
  PROVE  \A j \in 0 .. 7 : BitOf(c, j) \in {0, 1}
<1>1. /\ (c \div 128) % 2 \in {0, 1} /\ (c \div 64) % 2 \in {0, 1} /\ (c \div 32) % 2 \in {0, 1}
      /\ (c \div 16) % 2 \in {0, 1} /\ (c \div 8) % 2 \in {0, 1} /\ (c \div 4) % 2 \in {0, 1}
      /\ (c \div 2) % 2 \in {0, 1} /\ c % 2 \in {0, 1}
  BY DEF Chars
<1>2. \A j \in 0 .. 7 : j = 0 \/ j = 1 \/ j = 2 \/ j = 3 \/ j = 4 \/ j = 5 \/ j = 6 \/ j = 7
  OBVIOUS
<1> QED
  BY <1>1, <1>2, BitsWritten

(* c has the binary digits b0 ... b7.                                      *)
HasDigits(c, b0, b1, b2, b3, b4, b5, b6, b7) ==
  /\ c \in Int /\ {b0, b1, b2, b3, b4, b5, b6, b7} \subseteq 0 .. 1
  /\ c = 128 * b0 + 64 * b1 + 32 * b2 + 16 * b3 + 8 * b4 + 4 * b5 + 2 * b6 + b7

(* The binary digits of a number are found by division.                    *)
LEMMA Digits ==
  ASSUME NEW c, NEW b0, NEW b1, NEW b2, NEW b3, NEW b4, NEW b5, NEW b6, NEW b7,
         HasDigits(c, b0, b1, b2, b3, b4, b5, b6, b7)
  PROVE  /\ c \in Chars
         /\ (c \div 128) % 2 = b0 /\ (c \div 64) % 2 = b1 /\ (c \div 32) % 2 = b2 /\ (c \div 16) % 2 = b3
         /\ (c \div 8) % 2 = b4 /\ (c \div 4) % 2 = b5 /\ (c \div 2) % 2 = b6 /\ c % 2 = b7
<1> SUFFICES ASSUME c \in Int,
                    b0 \in 0 .. 1, b1 \in 0 .. 1, b2 \in 0 .. 1, b3 \in 0 .. 1,
                    b4 \in 0 .. 1, b5 \in 0 .. 1, b6 \in 0 .. 1, b7 \in 0 .. 1,
                    c = 128 * b0 + 64 * b1 + 32 * b2 + 16 * b3 + 8 * b4 + 4 * b5 + 2 * b6 + b7
             PROVE  /\ c \in Chars
                    /\ (c \div 128) % 2 = b0 /\ (c \div 64) % 2 = b1
                    /\ (c \div 32) % 2 = b2 /\ (c \div 16) % 2 = b3
                    /\ (c \div 8) % 2 = b4 /\ (c \div 4) % 2 = b5
                    /\ (c \div 2) % 2 = b6 /\ c % 2 = b7
  BY DEF HasDigits
<1>0. c \in Chars
  BY DEF Chars
<1>1. (c \div 128) % 2 = b0
  OBVIOUS
<1>2. (c \div 64) % 2 = b1
  OBVIOUS
<1>3. (c \div 32) % 2 = b2
  OBVIOUS
<1>4. (c \div 16) % 2 = b3
  OBVIOUS
<1>5. (c \div 8) % 2 = b4
  OBVIOUS
<1>6. (c \div 4) % 2 = b5
  OBVIOUS
<1>7. (c \div 2) % 2 = b6
  OBVIOUS
<1>8. c % 2 = b7
  OBVIOUS
<1> QED
  BY <1>0, <1>1, <1>2, <1>3, <1>4, <1>5, <1>6, <1>7, <1>8

(* A byte that is put together from bits has these bits.                   *)
LEMMA ByteHasBits ==
  ASSUME NEW b \in BitVec
  PROVE  Byte(b) \in Chars /\ \A j \in 0 .. 7 : BitOf(Byte(b), j) = b[j]
<1>1. /\ b[0] \in 0 .. 1 /\ b[1] \in 0 .. 1 /\ b[2] \in 0 .. 1 /\ b[3] \in 0 .. 1
      /\ b[4] \in 0 .. 1 /\ b[5] \in 0 .. 1 /\ b[6] \in 0 .. 1 /\ b[7] \in 0 .. 1
  BY DEF BitVec
<1>2. PICK c : c = 128 * b[0] + 64 * b[1] + 32 * b[2] + 16 * b[3] + 8 * b[4] + 4 * b[5] + 2 * b[6] + b[7]
  OBVIOUS
<1>0. c \in Int
  BY <1>1, <1>2
<1>9. c = Byte(b)
  BY <1>2, Zenon DEF Byte
<1>3. /\ c \in Chars
      /\ (c \div 128) % 2 = b[0] /\ (c \div 64) % 2 = b[1] /\ (c \div 32) % 2 = b[2] /\ (c \div 16) % 2 = b[3]
      /\ (c \div 8) % 2 = b[4] /\ (c \div 4) % 2 = b[5] /\ (c \div 2) % 2 = b[6] /\ c % 2 = b[7]
  <2>1. HasDigits(c, b[0], b[1], b[2], b[3], b[4], b[5], b[6], b[7])
    BY <1>0, <1>1, <1>2 DEF HasDigits
  <2> QED
    BY <2>1, Digits
<1>7. /\ BitOf(c, 0) = b[0] /\ BitOf(c, 1) = b[1] /\ BitOf(c, 2) = b[2] /\ BitOf(c, 3) = b[3]
      /\ BitOf(c, 4) = b[4] /\ BitOf(c, 5) = b[5] /\ BitOf(c, 6) = b[6] /\ BitOf(c, 7) = b[7]
  BY <1>3, BitsWritten
<1>8. \A j \in 0 .. 7 : j = 0 \/ j = 1 \/ j = 2 \/ j = 3 \/ j = 4 \/ j = 5 \/ j = 6 \/ j = 7
  OBVIOUS
<1> QED
  BY <1>9, <1>3, <1>7, <1>8

(* A byte is put together from its bits.                                   *)
LEMMA ByteOfBits ==
  ASSUME NEW c \in Chars
  PROVE  /\ [j \in 0 .. 7 |-> BitOf(c, j)] \in BitVec
         /\ c = 128 * BitOf(c, 0) + 64 * BitOf(c, 1) + 32 * BitOf(c, 2) + 16 * BitOf(c, 3)
                  + 8 * BitOf(c, 4) + 4 * BitOf(c, 5) + 2 * BitOf(c, 6) + BitOf(c, 7)
<1>1. [j \in 0 .. 7 |-> BitOf(c, j)] \in BitVec
  BY BitIs01 DEF BitVec
<1>2. c = 128 * ((c \div 128) % 2) + 64 * ((c \div 64) % 2) + 32 * ((c \div 32) % 2)
            + 16 * ((c \div 16) % 2) + 8 * ((c \div 8) % 2) + 4 * ((c \div 4) % 2)
            + 2 * ((c \div 2) % 2) + (c % 2)
  BY DEF Chars
<1> QED
  BY <1>1, <1>2, BitsWritten

(* Two bytes with the same bits are the same.                              *)
LEMMA SameBits ==
  ASSUME NEW c \in Chars, NEW d \in Chars, \A j \in 0 .. 7 : BitOf(c, j) = BitOf(d, j)
  PROVE  c = d
<1>1. /\ BitOf(c, 0) = BitOf(d, 0) /\ BitOf(c, 1) = BitOf(d, 1) /\ BitOf(c, 2) = BitOf(d, 2)
      /\ BitOf(c, 3) = BitOf(d, 3) /\ BitOf(c, 4) = BitOf(d, 4) /\ BitOf(c, 5) = BitOf(d, 5)
      /\ BitOf(c, 6) = BitOf(d, 6) /\ BitOf(c, 7) = BitOf(d, 7)
  OBVIOUS
<1> QED
  BY <1>1, ByteOfBits

(* The bits of 0 and 255.                                                  *)
LEMMA BitsOfEnds ==
  \A j \in 0 .. 7 : BitOf(0, j) = 0 /\ BitOf(255, j) = 1
<1>1. 0 \in Chars /\ 255 \in Chars
  BY DEF Chars
<1>2. \A j \in 0 .. 7 : j = 0 \/ j = 1 \/ j = 2 \/ j = 3 \/ j = 4 \/ j = 5 \/ j = 6 \/ j = 7
  OBVIOUS
<1> QED
  BY <1>1, <1>2, BitsWritten

(* What the operators of C do with the bits.                               *)
LEMMA BitsOfOps ==
  ASSUME NEW c \in Chars, NEW d \in Chars
  PROVE  /\ And(c, d) \in Chars /\ Or(c, d) \in Chars /\ Xor(c, d) \in Chars
         /\ \A j \in 0 .. 7 :
              /\ BitOf(And(c, d), j) = IF BitOf(c, j) = 1 /\ BitOf(d, j) = 1 THEN 1 ELSE 0
              /\ BitOf(Or(c, d), j) = IF BitOf(c, j) = 1 \/ BitOf(d, j) = 1 THEN 1 ELSE 0
              /\ BitOf(Xor(c, d), j) = IF BitOf(c, j) # BitOf(d, j) THEN 1 ELSE 0
<1>0. \A j \in 0 .. 7 : BitOf(c, j) \in {0, 1} /\ BitOf(d, j) \in {0, 1}
  BY BitIs01
<1>1. PICK a : a = [j \in 0 .. 7 |-> BitOf(c, j) * BitOf(d, j)]
  OBVIOUS
<1>2. PICK o : o = [j \in 0 .. 7 |-> IF BitOf(c, j) = 1 THEN 1 ELSE BitOf(d, j)]
  OBVIOUS
<1>3. PICK x : x = [j \in 0 .. 7 |-> IF BitOf(c, j) = BitOf(d, j) THEN 0 ELSE 1]
  OBVIOUS
<1>4. And(c, d) = Byte(a) /\ Or(c, d) = Byte(o) /\ Xor(c, d) = Byte(x)
  BY <1>1, <1>2, <1>3 DEF And, Or, Xor
<1>5. \A j \in 0 .. 7 : /\ a[j] = IF BitOf(c, j) = 1 /\ BitOf(d, j) = 1 THEN 1 ELSE 0
                        /\ o[j] = IF BitOf(c, j) = 1 \/ BitOf(d, j) = 1 THEN 1 ELSE 0
                        /\ x[j] = IF BitOf(c, j) # BitOf(d, j) THEN 1 ELSE 0
  BY <1>0, <1>1, <1>2, <1>3
<1>6. a \in BitVec /\ o \in BitVec /\ x \in BitVec
  BY <1>1, <1>2, <1>3, <1>5 DEF BitVec
<1> QED
  BY <1>4, <1>5, <1>6, ByteHasBits

-----------------------------------------------------------------------------
(* The bit that the second loop isolates.                                  *)

(* Bit l of c is set, and no lower one ...                                 *)
Lowest(c, l) == BitOf(c, l) = 1 /\ \A j \in l + 1 .. 7 : BitOf(c, j) = 0
(* ... and no higher one.                                                  *)
Highest(c, h) == BitOf(c, h) = 1 /\ \A j \in 0 .. h - 1 : BitOf(c, j) = 0

(* Bit h is the first one at which c and d differ.                         *)
FirstDiff(c, d, h) == BitOf(c, h) # BitOf(d, h) /\ \A j \in 0 .. h - 1 : BitOf(c, j) = BitOf(d, j)

(* A byte that is not 0 has a lowest and a highest bit.                    *)
LEMMA HasBits ==
  ASSUME NEW c \in Chars, c # 0
  PROVE  (\E l \in 0 .. 7 : Lowest(c, l)) /\ (\E h \in 0 .. 7 : Highest(c, h))
<1>1. \E j \in 0 .. 7 : BitOf(c, j) = 1
  <2>1. 0 \in Chars
    BY DEF Chars
  <2> QED
    BY <2>1, SameBits, BitIs01, BitsOfEnds
<1>2. PICK S : S = {j \in 0 .. 7 : BitOf(c, j) = 1}
  OBVIOUS
<1>3. PICK l \in S : \A j \in S : j <= l
  <2>1. S # {} /\ S \subseteq 0 .. 7
    BY <1>1, <1>2
  <2>2. PICK R : R = {n \in Nat : 7 - n \in S}
    OBVIOUS
  <2>3. R # {} /\ R \in SUBSET Nat
    <3>1. PICK j \in S : TRUE
      BY <2>1
    <3>2. 7 - j \in Nat /\ 7 - (7 - j) = j
      BY <2>1
    <3> QED
      BY <2>2, <3>2
  <2>4. PICK n \in R : \A m \in R : n <= m
    BY <2>3, Least
  <2>5. ASSUME NEW j \in S PROVE j <= 7 - n
    <3>1. 7 - j \in Nat /\ 7 - (7 - j) = j /\ n \in Nat
      BY <2>1, <2>3
    <3>2. n <= 7 - j
      BY <2>2, <2>4, <3>1
    <3> QED
      BY <2>1, <3>1, <3>2
  <2> QED
    BY <2>2, <2>4, <2>5
<1>4. PICK h \in S : \A j \in S : h <= j
  <2>1. S # {} /\ S \in SUBSET Nat
    BY <1>1, <1>2
  <2> QED
    BY <2>1, Least
<1>5. Lowest(c, l) /\ Highest(c, h) /\ l \in 0 .. 7 /\ h \in 0 .. 7
  BY <1>2, <1>3, <1>4, BitIs01 DEF Lowest, Highest
<1> QED
  BY <1>5

(* Subtracting 1 clears the lowest bit, sets those below it and leaves     *)
(* those above it alone.                                                   *)
LEMMA MinusOne ==
  ASSUME NEW c \in Chars, NEW l \in 0 .. 7, Lowest(c, l)
  PROVE  /\ c - 1 \in Chars
         /\ \A j \in 0 .. 7 : BitOf(c - 1, j) = IF j < l THEN BitOf(c, j) ELSE IF j = l THEN 0 ELSE 1
<1>1. PICK b : b = [j \in 0 .. 7 |-> IF j < l THEN BitOf(c, j) ELSE IF j = l THEN 0 ELSE 1]
  OBVIOUS
<1>2. b \in BitVec
  BY <1>1, BitIs01 DEF BitVec
<1>3. PICK c0 \in 0 .. 1, c1 \in 0 .. 1, c2 \in 0 .. 1, c3 \in 0 .. 1,
           c4 \in 0 .. 1, c5 \in 0 .. 1, c6 \in 0 .. 1, c7 \in 0 .. 1 :
        /\ c0 = BitOf(c, 0) /\ c1 = BitOf(c, 1) /\ c2 = BitOf(c, 2) /\ c3 = BitOf(c, 3)
        /\ c4 = BitOf(c, 4) /\ c5 = BitOf(c, 5) /\ c6 = BitOf(c, 6) /\ c7 = BitOf(c, 7)
  <2>1. \A j \in 0 .. 7 : BitOf(c, j) \in 0 .. 1
    BY BitIs01
  <2> QED
    BY <2>1
<1>4. c = 128 * c0 + 64 * c1 + 32 * c2 + 16 * c3 + 8 * c4 + 4 * c5 + 2 * c6 + c7
  BY <1>3, ByteOfBits
<1>5. Byte(b) = c - 1
  <2> SUFFICES 128 * b[0] + 64 * b[1] + 32 * b[2] + 16 * b[3] + 8 * b[4] + 4 * b[5] + 2 * b[6] + b[7] = c - 1
    BY Zenon DEF Byte
  <2>0. \A j \in 0 .. 7 : b[j] = IF j < l THEN BitOf(c, j) ELSE IF j = l THEN 0 ELSE 1
    BY <1>1
  <2>1. /\ b[0] = (IF 0 < l THEN c0 ELSE IF 0 = l THEN 0 ELSE 1)
        /\ b[1] = (IF 1 < l THEN c1 ELSE IF 1 = l THEN 0 ELSE 1)
        /\ b[2] = (IF 2 < l THEN c2 ELSE IF 2 = l THEN 0 ELSE 1)
        /\ b[3] = (IF 3 < l THEN c3 ELSE IF 3 = l THEN 0 ELSE 1)
        /\ b[4] = (IF 4 < l THEN c4 ELSE IF 4 = l THEN 0 ELSE 1)
        /\ b[5] = (IF 5 < l THEN c5 ELSE IF 5 = l THEN 0 ELSE 1)
        /\ b[6] = (IF 6 < l THEN c6 ELSE IF 6 = l THEN 0 ELSE 1)
        /\ b[7] = (IF 7 < l THEN c7 ELSE IF 7 = l THEN 0 ELSE 1)
    BY <1>3, <2>0
  <2>2. \A j \in 0 .. 7 : (j = l => BitOf(c, j) = 1) /\ (j > l => BitOf(c, j) = 0)
    BY DEF Lowest
  <2>3. /\ (0 = l => c0 = 1) /\ (0 > l => c0 = 0) /\ (1 = l => c1 = 1) /\ (1 > l => c1 = 0)
        /\ (2 = l => c2 = 1) /\ (2 > l => c2 = 0) /\ (3 = l => c3 = 1) /\ (3 > l => c3 = 0)
        /\ (4 = l => c4 = 1) /\ (4 > l => c4 = 0) /\ (5 = l => c5 = 1) /\ (5 > l => c5 = 0)
        /\ (6 = l => c6 = 1) /\ (6 > l => c6 = 0) /\ (7 = l => c7 = 1) /\ (7 > l => c7 = 0)
    BY <1>3, <2>2
  <2>4. l = 0 \/ l = 1 \/ l = 2 \/ l = 3 \/ l = 4 \/ l = 5 \/ l = 6 \/ l = 7
    OBVIOUS
  <2> QED
    BY <1>4, <2>1, <2>3, <2>4
<1> QED
  BY <1>1, <1>2, <1>5, ByteHasBits

(* c & (c - 1): the lowest bit is cleared; if nothing is left, there was   *)
(* one bit only.                                                           *)
LEMMA ClearsLowest ==
  ASSUME NEW c \in Chars, NEW h \in 0 .. 7, Highest(c, h)
  PROVE  /\ c # 0 /\ And(c, c - 1) \in Chars
         /\ And(c, c - 1) # 0 => Highest(And(c, c - 1), h)
         /\ And(c, c - 1) = 0 => \A j \in 0 .. 7 : BitOf(c, j) = IF j = h THEN 1 ELSE 0
<1>1. c # 0
  BY BitsOfEnds DEF Highest
<1>2. PICK l \in 0 .. 7 : Lowest(c, l)
  BY <1>1, HasBits
<1>3. c - 1 \in Chars /\ \A j \in 0 .. 7 : BitOf(c - 1, j) = IF j < l THEN BitOf(c, j) ELSE IF j = l THEN 0 ELSE 1
  BY <1>2, MinusOne
<1>4. PICK a : a = And(c, c - 1)
  OBVIOUS
<1>5. a \in Chars /\ \A j \in 0 .. 7 : BitOf(a, j) = IF BitOf(c, j) = 1 /\ BitOf(c - 1, j) = 1 THEN 1 ELSE 0
  BY <1>3, <1>4, BitsOfOps
<1>6. \A j \in 0 .. 7 : BitOf(a, j) = IF j < l THEN BitOf(c, j) ELSE 0
  <2> SUFFICES ASSUME NEW j \in 0 .. 7 PROVE BitOf(a, j) = IF j < l THEN BitOf(c, j) ELSE 0
    OBVIOUS
  <2>1. BitOf(c, j) \in {0, 1} /\ (j > l => BitOf(c, j) = 0)
    BY <1>2, BitIs01 DEF Lowest
  <2> QED
    BY <1>3, <1>5, <2>1
<1>7. h <= l
  BY <1>2 DEF Lowest, Highest
<1>8. ASSUME a # 0 PROVE Highest(a, h)
  <2>1. PICK g \in 0 .. 7 : Highest(a, g)
    BY <1>5, <1>8, HasBits
  <2>2. g < l /\ BitOf(c, g) = 1
    BY <1>6, <2>1 DEF Highest
  <2>3. h < l
    BY <1>7, <2>2 DEF Highest
  <2> QED
    BY <1>6, <2>3 DEF Highest
<1>9. ASSUME a = 0 PROVE \A j \in 0 .. 7 : BitOf(c, j) = IF j = h THEN 1 ELSE 0
  <2>1. \A j \in 0 .. 7 : j < l => BitOf(c, j) = 0
    BY <1>6, <1>9, BitsOfEnds
  <2>2. h = l
    BY <1>7, <2>1 DEF Highest
  <2> QED
    BY <1>2, <2>1, <2>2 DEF Lowest, Highest
<1> QED
  BY <1>1, <1>4, <1>5, <1>8, <1>9
(* The mask that the code stores is all ones but for the bit, and the      *)
(* carry of 1 + (otherbits | c) is c's bit there.                          *)
LEMMA MaskOfBit ==
  ASSUME NEW h \in 0 .. 7
  PROVE  /\ 255 - Weight[h + 1] \in Chars
         /\ \A j \in 0 .. 7 : BitOf(255 - Weight[h + 1], j) = IF j = h THEN 0 ELSE 1
<1>1. PICK b : b = [j \in 0 .. 7 |-> IF j = h THEN 0 ELSE 1]
  OBVIOUS
<1>2. b \in BitVec
  BY <1>1 DEF BitVec
<1>3. Byte(b) = 255 - Weight[h + 1]
  <2>1. h = 0 \/ h = 1 \/ h = 2 \/ h = 3 \/ h = 4 \/ h = 5 \/ h = 6 \/ h = 7
    OBVIOUS
  <2>2. /\ Weight[0 + 1] = 128 /\ Weight[1 + 1] = 64 /\ Weight[2 + 1] = 32 /\ Weight[3 + 1] = 16
        /\ Weight[4 + 1] = 8 /\ Weight[5 + 1] = 4 /\ Weight[6 + 1] = 2 /\ Weight[7 + 1] = 1
    BY DEF Weight
  <2>3. /\ b[0] = (IF 0 = h THEN 0 ELSE 1) /\ b[1] = (IF 1 = h THEN 0 ELSE 1)
        /\ b[2] = (IF 2 = h THEN 0 ELSE 1) /\ b[3] = (IF 3 = h THEN 0 ELSE 1)
        /\ b[4] = (IF 4 = h THEN 0 ELSE 1) /\ b[5] = (IF 5 = h THEN 0 ELSE 1)
        /\ b[6] = (IF 6 = h THEN 0 ELSE 1) /\ b[7] = (IF 7 = h THEN 0 ELSE 1)
    BY <1>1
  <2>4. 128 * b[0] + 64 * b[1] + 32 * b[2] + 16 * b[3] + 8 * b[4] + 4 * b[5] + 2 * b[6] + b[7] = 255 - Weight[h + 1]
    BY <2>1, <2>2, <2>3
  <2> QED
    BY <2>4, Zenon DEF Byte
<1> QED
  BY <1>1, <1>2, <1>3, ByteHasBits

(* 0xFF ^ the isolated bit.                                                *)
LEMMA FlipsBit ==
  ASSUME NEW c \in Chars, NEW h \in 0 .. 7, \A j \in 0 .. 7 : BitOf(c, j) = IF j = h THEN 1 ELSE 0
  PROVE  Xor(c, 255) = 255 - Weight[h + 1]
<1>1. 255 \in Chars
  BY DEF Chars
<1>2. PICK x : x = Xor(c, 255)
  OBVIOUS
<1>3. x \in Chars /\ \A j \in 0 .. 7 : BitOf(x, j) = IF BitOf(c, j) # BitOf(255, j) THEN 1 ELSE 0
  BY <1>1, <1>2, BitsOfOps
<1>4. PICK m : m = 255 - Weight[h + 1]
  OBVIOUS
<1>5. m \in Chars /\ \A j \in 0 .. 7 : BitOf(m, j) = IF j = h THEN 0 ELSE 1
  BY <1>4, MaskOfBit
<1>6. \A j \in 0 .. 7 : BitOf(x, j) = BitOf(m, j)
  BY <1>3, <1>5, BitsOfEnds
<1> QED
  BY <1>2, <1>3, <1>4, <1>5, <1>6, SameBits

(* (1 + (otherbits | c)) >> 8 is the bit of c that otherbits leaves out.   *)
LEMMA DirectionOfBit ==
  ASSUME NEW c \in Chars, NEW h \in 0 .. 7
  PROVE  Direction(255 - Weight[h + 1], c) = BitOf(c, h)
<1>1. PICK m : m = 255 - Weight[h + 1]
  OBVIOUS
<1>2. m \in Chars /\ \A j \in 0 .. 7 : BitOf(m, j) = IF j = h THEN 0 ELSE 1
  BY <1>1, MaskOfBit
<1>3. PICK o : o = Or(m, c)
  OBVIOUS
<1>4. o \in Chars /\ \A j \in 0 .. 7 : BitOf(o, j) = IF BitOf(m, j) = 1 \/ BitOf(c, j) = 1 THEN 1 ELSE 0
  BY <1>2, <1>3, BitsOfOps
<1>5. BitOf(c, h) \in {0, 1}
  BY BitIs01
<1>6. Direction(m, c) = (1 + o) \div 256
  BY <1>3 DEF Direction
<1>7. CASE BitOf(c, h) = 1
  <2>1. 255 \in Chars /\ \A j \in 0 .. 7 : BitOf(o, j) = BitOf(255, j)
    BY <1>2, <1>4, <1>7, BitsOfEnds DEF Chars
  <2>2. o = 255
    BY <1>4, <2>1, SameBits
  <2> QED
    BY <1>1, <1>6, <1>7, <2>2
<1>8. CASE BitOf(c, h) = 0
  <2>1. o # 255
    BY <1>2, <1>4, <1>8, BitsOfEnds
  <2>2. o \in 0 .. 254
    BY <1>4, <2>1 DEF Chars
  <2>3. (1 + o) \div 256 = 0
    BY <2>2
  <2> QED
    BY <1>1, <1>6, <1>8, <2>3
<1> QED
  BY <1>5, <1>7, <1>8

(* Two bytes that differ have a first bit at which they do: the highest of *)
(* their exclusive or.                                                     *)
LEMMA HighestDiffers ==
  ASSUME NEW c \in Chars, NEW d \in Chars, c # d
  PROVE  /\ Xor(c, d) \in Chars
         /\ \E h \in 0 .. 7 : Highest(Xor(c, d), h) /\ FirstDiff(c, d, h)
<1>1. PICK x : x = Xor(c, d)
  OBVIOUS
<1>2. x \in Chars /\ \A j \in 0 .. 7 : BitOf(x, j) = IF BitOf(c, j) # BitOf(d, j) THEN 1 ELSE 0
  BY <1>1, BitsOfOps
<1>3. x # 0
  <2>1. PICK j \in 0 .. 7 : BitOf(c, j) # BitOf(d, j)
    BY SameBits
  <2> QED
    BY <1>2, <2>1, BitsOfEnds
<1>4. PICK h \in 0 .. 7 : Highest(x, h)
  BY <1>2, <1>3, HasBits
<1>5. FirstDiff(c, d, h)
  BY <1>2, <1>4 DEF Highest, FirstDiff
<1> QED
  BY <1>1, <1>2, <1>4, <1>5

(* The first differing bit of a byte and the NUL is the byte's highest.    *)
LEMMA HighestFromNul ==
  ASSUME NEW c \in Chars, c # 0
  PROVE  \E h \in 0 .. 7 : Highest(c, h) /\ FirstDiff(c, 0, h)
<1>1. PICK h \in 0 .. 7 : Highest(c, h)
  BY HasBits
<1>2. FirstDiff(c, 0, h)
  BY <1>1, BitsOfEnds DEF Highest, FirstDiff
<1> QED
  BY <1>1, <1>2

-----------------------------------------------------------------------------
(* Strings.                                                                *)

(* The elements of a sequence over S are in S.                             *)
LEMMA Elements ==
  ASSUME NEW S, NEW s \in Seq(S)
  PROVE  Len(s) \in Nat /\ \A i \in 1 .. Len(s) : s[i] \in S
OBVIOUS

(* The characters of a string, and where it ends.                          *)
LEMMA CharOf ==
  ASSUME NEW s \in Str, NEW i \in 0 .. Len(s)
  PROVE  /\ Len(s) \in Nat /\ Char(s, i) \in Chars
         /\ i = Len(s) => Char(s, i) = 0
         /\ i < Len(s) => Char(s, i) # 0 /\ Char(s, i) = s[i + 1]
<1>1. Len(s) \in Nat
  BY DEF Str
<1>2. ASSUME i < Len(s) PROVE s[i + 1] \in 1 .. 255
  <2>1. i + 1 \in 1 .. Len(s)
    BY <1>1, <1>2
  <2> QED
    BY <2>1, Elements DEF Str
<1>3. i = Len(s) => Char(s, i) = 0
  BY DEF Char
<1>4. i < Len(s) => Char(s, i) = s[i + 1]
  BY <1>1 DEF Char
<1>5. i = Len(s) \/ i < Len(s)
  BY <1>1
<1>6. i < Len(s) => Char(s, i) \in 1 .. 255
  BY <1>2, <1>4
<1>7. 0 \in Chars /\ \A c \in 1 .. 255 : c \in Chars /\ c # 0
  BY DEF Chars
<1> QED
  BY <1>1, <1>3, <1>4, <1>5, <1>6, <1>7

(* A position is a bit of a byte.                                          *)
LEMMA ByteAndBit ==
  ASSUME NEW n \in Nat, NEW h \in 0 .. 7
  PROVE  /\ (8 * n + h) \div 8 = n /\ (8 * n + h) % 8 = h /\ 8 * n + h \in Nat
         /\ \A i \in 0 .. (8 * n + h) - 1 : \E m \in 0 .. n, j \in 0 .. 7 :
              i = 8 * m + j /\ (m = n => j < h) /\ i \div 8 = m /\ i % 8 = j
<1>1. (8 * n + h) \div 8 = n /\ (8 * n + h) % 8 = h
  OBVIOUS
<1>2. ASSUME NEW i \in 0 .. (8 * n + h) - 1
      PROVE  \E m \in 0 .. n, j \in 0 .. 7 : i = 8 * m + j /\ (m = n => j < h) /\ i \div 8 = m /\ i % 8 = j
  <2>1. i \div 8 \in 0 .. n /\ i % 8 \in 0 .. 7 /\ i = 8 * (i \div 8) + (i % 8)
    OBVIOUS
  <2>2. i \div 8 = n => i % 8 < h
    BY <2>1
  <2> QED
    BY <2>1, <2>2
<1> QED
  BY <1>1, <1>2

(* Bit i of a string is a bit of its character.                            *)
LEMMA BitOfChar ==
  ASSUME NEW s \in Str, NEW n \in 0 .. Len(s), NEW j \in 0 .. 7
  PROVE  BitAt(s, 8 * n + j) = BitOf(Char(s, n), j)
<1>1. Len(s) \in Nat
  BY DEF Str
<1>2. (8 * n + j) \div 8 = n /\ (8 * n + j) % 8 = j
  BY <1>1, ByteAndBit
<1>3. CASE n = Len(s)
  BY <1>1, <1>2, <1>3, CharOf, BitsOfEnds DEF BitAt
<1>4. CASE n < Len(s)
  BY <1>1, <1>2, <1>4, CharOf DEF BitAt
<1> QED
  BY <1>1, <1>3, <1>4

(* Position reads off what Finish stores.                                  *)
LEMMA PositionOf ==
  ASSUME NEW n \in Nat, NEW h \in 0 .. 7
  PROVE  Position(n, 255 - Weight[h + 1]) = 8 * n + h
<1>1. \A j \in 0 .. 7 : 255 - Weight[h + 1] = 255 - Weight[j + 1] => j = h
  <2> SUFFICES ASSUME NEW j \in 0 .. 7, 255 - Weight[h + 1] = 255 - Weight[j + 1] PROVE j = h
    OBVIOUS
  <2>1. BitOf(255 - Weight[h + 1], h) = 0
    BY MaskOfBit
  <2>2. j # h => BitOf(255 - Weight[j + 1], h) = 1
    BY MaskOfBit
  <2> QED
    BY <2>1, <2>2
<1>2. (CHOOSE j \in 0 .. 7 : 255 - Weight[h + 1] = 255 - Weight[j + 1]) = h
  BY <1>1
<1> QED
  BY <1>2 DEF Position
-----------------------------------------------------------------------------
(* The invariant of the loops.                                             *)

(* The strings agree on what the first loop has passed.                    *)
Passed ==
  /\ p \in Str /\ bytes \in Str
  /\ newbyte \in 0 .. Len(p) /\ newbyte \in 0 .. Len(bytes)
  /\ \A m \in 0 .. newbyte - 1 : Char(p, m) = Char(bytes, m)

(* The node found tests the first differing bit, and has p's on its side.  *)
Found(h) ==
  /\ FirstDiff(Char(p, newbyte), Char(bytes, newbyte), h)
  /\ newotherbits = 255 - Weight[h + 1]
  /\ newdirection = BitOf(Char(p, newbyte), h)

LoopInv ==
  /\ Passed
  /\ pc = "isolate" => \E h \in 0 .. 7 :
       /\ newotherbits \in Chars /\ Highest(newotherbits, h)
       /\ FirstDiff(Char(p, newbyte), Char(bytes, newbyte), h)
  /\ pc = "exists" => newbyte = Len(p) /\ newbyte = Len(bytes)
  /\ pc = "done" => \E h \in 0 .. 7 : Found(h)

(* No loop has begun.                                                      *)
LEMMA InitLoops == Init => LoopInv
<1> SUFFICES ASSUME Init PROVE LoopInv
  OBVIOUS
<1>1. pc = "compare" /\ newbyte = 0
  BY DEF Init
<1>2. p \in Str /\ bytes \in Str
  BY StrAssumption DEF Init
<1>3. Len(p) \in Nat /\ Len(bytes) \in Nat
  BY <1>2, CharOf DEF Str
<1>4. Passed
  BY <1>1, <1>2, <1>3 DEF Passed
<1> QED
  BY <1>1, <1>4 DEF LoopInv

(* What Passed says of the current byte.                                   *)
LEMMA AtByte ==
  ASSUME Passed
  PROVE  /\ Len(p) \in Nat /\ Len(bytes) \in Nat /\ newbyte \in Nat
         /\ Char(p, newbyte) \in Chars /\ Char(bytes, newbyte) \in Chars
         /\ newbyte = Len(p) <=> Char(p, newbyte) = 0
         /\ newbyte = Len(bytes) <=> Char(bytes, newbyte) = 0
<1>1. /\ p \in Str /\ bytes \in Str
      /\ newbyte \in 0 .. Len(p) /\ newbyte \in 0 .. Len(bytes)
  BY DEF Passed
<1>2. /\ Len(p) \in Nat /\ Char(p, newbyte) \in Chars
      /\ newbyte = Len(p) => Char(p, newbyte) = 0
      /\ newbyte < Len(p) => Char(p, newbyte) # 0
  BY <1>1, CharOf
<1>3. /\ Len(bytes) \in Nat /\ Char(bytes, newbyte) \in Chars
      /\ newbyte = Len(bytes) => Char(bytes, newbyte) = 0
      /\ newbyte < Len(bytes) => Char(bytes, newbyte) # 0
  BY <1>1, CharOf
<1> QED
  BY <1>1, <1>2, <1>3

(* The first loop goes on: p cannot be over, because the key is not.       *)
LEMMA SameLoops == LoopInv /\ Same => LoopInv'
<1> SUFFICES ASSUME LoopInv, Same PROVE LoopInv'
  OBVIOUS
<1>0. Passed
  BY DEF LoopInv
<1>1. /\ pc = "compare" /\ newbyte < Len(bytes) /\ Char(p, newbyte) = Char(bytes, newbyte)
      /\ newbyte' = newbyte + 1 /\ p' = p /\ bytes' = bytes /\ pc' = pc
  BY DEF Same
<1>2. newbyte \in Nat /\ Len(p) \in Nat /\ Len(bytes) \in Nat /\ newbyte < Len(p)
  <2>1. newbyte # Len(p)
    BY <1>0, <1>1, AtByte
  <2>2. newbyte \in 0 .. Len(p)
    BY <1>0 DEF Passed
  <2> QED
    BY <1>0, <2>1, <2>2, AtByte
<1>3. Passed'
  <2>1. newbyte + 1 \in 0 .. Len(p) /\ newbyte + 1 \in 0 .. Len(bytes)
    BY <1>1, <1>2
  <2>2. \A m \in 0 .. newbyte : Char(p, m) = Char(bytes, m)
    BY <1>0, <1>1, <1>2 DEF Passed
  <2>3. \A m \in 0 .. newbyte' - 1 : m \in 0 .. newbyte
    BY <1>1, <1>2
  <2>4. \A m \in 0 .. newbyte' - 1 : Char(p, m)' = Char(bytes, m)'
    BY <1>1, <2>2, <2>3 DEF Char
  <2> QED
    BY <1>0, <1>1, <2>1, <2>4 DEF Passed
<1> QED
  BY <1>1, <1>3 DEF LoopInv

(* Leaves Passed and the current bytes alone.                              *)
LEMMA KeepsPassed ==
  ASSUME Passed, UNCHANGED <<p, bytes, newbyte>>
  PROVE  /\ Passed'
         /\ Char(p, newbyte)' = Char(p, newbyte) /\ Char(bytes, newbyte)' = Char(bytes, newbyte)
<1>1. p' = p /\ bytes' = bytes /\ newbyte' = newbyte
  OBVIOUS
<1>2. Char(p, newbyte)' = Char(p, newbyte) /\ Char(bytes, newbyte)' = Char(bytes, newbyte)
  BY <1>1 DEF Char
<1>3. \A m : Char(p, m)' = Char(p, m) /\ Char(bytes, m)' = Char(bytes, m)
  BY <1>1 DEF Char
<1> QED
  BY <1>1, <1>2, <1>3 DEF Passed

(* The first loop ends at two different bytes: ^ has the bits at which     *)
(* they differ.                                                            *)
LEMMA DifferLoops == LoopInv /\ Differ => LoopInv'
<1> SUFFICES ASSUME LoopInv, Differ PROVE LoopInv'
  OBVIOUS
<1>0. Passed
  BY DEF LoopInv
<1>1. /\ Char(p, newbyte) # Char(bytes, newbyte)
      /\ newotherbits' = Xor(Char(p, newbyte), Char(bytes, newbyte))
      /\ pc' = "isolate" /\ UNCHANGED <<p, bytes, newbyte>>
  BY DEF Differ
<1>2. PICK c, d : c = Char(p, newbyte) /\ d = Char(bytes, newbyte)
  OBVIOUS
<1>3. c \in Chars /\ d \in Chars /\ c # d
  BY <1>0, <1>1, <1>2, AtByte
<1>4. Xor(c, d) \in Chars /\ \E h \in 0 .. 7 : Highest(Xor(c, d), h) /\ FirstDiff(c, d, h)
  BY <1>3, HighestDiffers
<1>5. Passed' /\ Char(p, newbyte)' = c /\ Char(bytes, newbyte)' = d
  BY <1>0, <1>1, <1>2, KeepsPassed
<1>6. newotherbits' = Xor(c, d)
  BY <1>1, <1>2
<1>7. (\E h \in 0 .. 7 : /\ newotherbits \in Chars /\ Highest(newotherbits, h)
                         /\ FirstDiff(Char(p, newbyte), Char(bytes, newbyte), h))'
  BY <1>4, <1>5, <1>6 DEF Highest, FirstDiff
<1> QED
  BY <1>1, <1>5, <1>7 DEF LoopInv

(* The key ends: p goes on with a byte of at least one bit, or ends too.   *)
LEMMA KeyEndLoops == LoopInv /\ KeyEnd => LoopInv'
<1> SUFFICES ASSUME LoopInv, KeyEnd PROVE LoopInv'
  OBVIOUS
<1>0. Passed
  BY DEF LoopInv
<1>1. /\ newbyte = Len(bytes) /\ newotherbits' = Char(p, newbyte)
      /\ pc' = (IF Char(p, newbyte) # 0 THEN "isolate" ELSE "exists")
      /\ UNCHANGED <<p, bytes, newbyte>>
  BY DEF KeyEnd
<1>2. PICK c : c = Char(p, newbyte)
  OBVIOUS
<1>3. c \in Chars /\ Char(bytes, newbyte) = 0 /\ (newbyte = Len(p) <=> c = 0)
  BY <1>0, <1>1, <1>2, AtByte
<1>5. Passed' /\ Char(p, newbyte)' = c /\ Char(bytes, newbyte)' = 0
  BY <1>0, <1>1, <1>2, <1>3, KeepsPassed
<1>6. CASE c = 0
  <2>1. pc' = "exists" /\ newbyte' = Len(p)' /\ newbyte' = Len(bytes)'
    BY <1>1, <1>2, <1>3, <1>6
  <2> QED
    BY <1>5, <2>1 DEF LoopInv
<1>7. CASE c # 0
  <2>1. PICK h \in 0 .. 7 : Highest(c, h) /\ FirstDiff(c, 0, h)
    BY <1>3, <1>7, HighestFromNul
  <2>2. pc' = "isolate" /\ newotherbits' = c
    BY <1>1, <1>2, <1>7
  <2>3. (\E g \in 0 .. 7 : /\ newotherbits \in Chars /\ Highest(newotherbits, g)
                           /\ FirstDiff(Char(p, newbyte), Char(bytes, newbyte), g))'
    BY <1>3, <1>5, <2>1, <2>2 DEF Highest, FirstDiff
  <2> QED
    BY <1>5, <2>2, <2>3 DEF LoopInv
<1> QED
  BY <1>6, <1>7

(* The second loop clears a bit, but never the highest.                    *)
LEMMA ClearLowLoops == LoopInv /\ ClearLow => LoopInv'
<1> SUFFICES ASSUME LoopInv, ClearLow PROVE LoopInv'
  OBVIOUS
<1>0. Passed
  BY DEF LoopInv
<1>1. /\ pc = "isolate" /\ And(newotherbits, newotherbits - 1) # 0
      /\ newotherbits' = And(newotherbits, newotherbits - 1)
      /\ pc' = pc /\ UNCHANGED <<p, bytes, newbyte>>
  BY DEF ClearLow
<1>2. PICK c, d : c = Char(p, newbyte) /\ d = Char(bytes, newbyte)
  OBVIOUS
<1>3. PICK h \in 0 .. 7 : newotherbits \in Chars /\ Highest(newotherbits, h) /\ FirstDiff(c, d, h)
  BY <1>1, <1>2 DEF LoopInv
<1>4. newotherbits' \in Chars /\ Highest(newotherbits', h)
  BY <1>1, <1>3, ClearsLowest
<1>5. Passed' /\ Char(p, newbyte)' = c /\ Char(bytes, newbyte)' = d
  BY <1>0, <1>1, <1>2, KeepsPassed
<1>7. (\E g \in 0 .. 7 : /\ newotherbits \in Chars /\ Highest(newotherbits, g)
                         /\ FirstDiff(Char(p, newbyte), Char(bytes, newbyte), g))'
  BY <1>3, <1>4, <1>5 DEF Highest, FirstDiff
<1> QED
  BY <1>1, <1>5, <1>7 DEF LoopInv

(* One bit is left: it is flipped to the mask, and p's side is read off.   *)
LEMMA FinishLoops == LoopInv /\ Finish => LoopInv'
<1> SUFFICES ASSUME LoopInv, Finish PROVE LoopInv'
  OBVIOUS
<1>0. Passed
  BY DEF LoopInv
<1>1. /\ pc = "isolate" /\ And(newotherbits, newotherbits - 1) = 0
      /\ newotherbits' = Xor(newotherbits, 255)
      /\ newdirection' = Direction(newotherbits', Char(p, newbyte))
      /\ pc' = "done" /\ UNCHANGED <<p, bytes, newbyte>>
  BY DEF Finish
<1>2. PICK c, d : c = Char(p, newbyte) /\ d = Char(bytes, newbyte)
  OBVIOUS
<1>3. PICK h \in 0 .. 7 : newotherbits \in Chars /\ Highest(newotherbits, h) /\ FirstDiff(c, d, h)
  BY <1>1, <1>2 DEF LoopInv
<1>4. newotherbits' = 255 - Weight[h + 1]
  BY <1>1, <1>3, ClearsLowest, FlipsBit
<1>5. Passed' /\ Char(p, newbyte)' = c /\ Char(bytes, newbyte)' = d
  BY <1>0, <1>1, <1>2, KeepsPassed
<1>6. c \in Chars
  BY <1>0, <1>2, AtByte
<1>7. newdirection' = BitOf(c, h)
  BY <1>1, <1>2, <1>4, <1>6, DirectionOfBit
<1>8. Found(h)'
  BY <1>3, <1>4, <1>5, <1>7 DEF Found, FirstDiff
<1> QED
  BY <1>1, <1>5, <1>8 DEF LoopInv

(* A step that changes nothing.                                            *)
LEMMA StutterLoops == LoopInv /\ UNCHANGED vars => LoopInv'
<1> SUFFICES ASSUME LoopInv, UNCHANGED vars PROVE LoopInv'
  OBVIOUS
<1>1. /\ p' = p /\ bytes' = bytes /\ newbyte' = newbyte /\ newotherbits' = newotherbits
      /\ newdirection' = newdirection /\ pc' = pc
  BY DEF vars
<1> QED
  BY <1>1 DEF LoopInv, Passed, Found, FirstDiff, Highest, Char

(* The invariant holds in every state of the two loops.                    *)
THEOREM LoopsInvariant == Spec => []LoopInv
<1>1. Init => LoopInv
  BY InitLoops
<1>2. LoopInv /\ [Next]_vars => LoopInv'
  BY SameLoops, DifferLoops, KeyEndLoops, ClearLowLoops, FinishLoops, StutterLoops DEF Next
<1> QED
  BY <1>1, <1>2, PTL DEF Spec

-----------------------------------------------------------------------------
(* What the loops establish.                                               *)

(* The comparison reads neither string past its NUL.                       *)
THEOREM BoundsKept == Spec => []InBounds
<1>1. LoopInv => InBounds
  <2> SUFFICES ASSUME LoopInv PROVE InBounds
    OBVIOUS
  <2>1. Passed
    BY DEF LoopInv
  <2> QED
    BY <2>1, AtByte DEF Passed, InBounds
<1> QED
  BY <1>1, LoopsInvariant, PTL

(* The position of the node found.                                         *)
LEMMA FoundAt ==
  ASSUME Passed, NEW h \in 0 .. 7, Found(h)
  PROVE  Position(newbyte, newotherbits) = 8 * newbyte + h /\ newbyte \in Nat
BY AtByte, PositionOf DEF Found

(* Strings that agree on n bytes and at bit h of the next first differ     *)
(* agree on all earlier bits.                                              *)
LEMMA FirstBit ==
  ASSUME NEW s \in Str, NEW t \in Str, NEW n \in 0 .. Len(s), n \in 0 .. Len(t), NEW h \in 0 .. 7,
         \A m \in 0 .. n - 1 : Char(s, m) = Char(t, m), FirstDiff(Char(s, n), Char(t, n), h)
  PROVE  /\ BitAt(s, 8 * n + h) # BitAt(t, 8 * n + h)
         /\ \A i \in 0 .. (8 * n + h) - 1 : BitAt(s, i) = BitAt(t, i)
<1>0. Len(s) \in Nat /\ Len(t) \in Nat /\ n \in Nat
  BY CharOf
<1>1. BitAt(s, 8 * n + h) # BitAt(t, 8 * n + h)
  <2>1. BitOf(Char(s, n), h) # BitOf(Char(t, n), h)
    BY DEF FirstDiff
  <2>2. BitAt(s, 8 * n + h) = BitOf(Char(s, n), h)
    BY BitOfChar
  <2>3. BitAt(t, 8 * n + h) = BitOf(Char(t, n), h)
    BY BitOfChar
  <2> QED
    BY <2>1, <2>2, <2>3
<1>2. ASSUME NEW i \in 0 .. (8 * n + h) - 1 PROVE BitAt(s, i) = BitAt(t, i)
  <2>0. \A k \in 0 .. (8 * n + h) - 1 : \E m \in 0 .. n, j \in 0 .. 7 :
          k = 8 * m + j /\ (m = n => j < h) /\ k \div 8 = m /\ k % 8 = j
    BY <1>0, ByteAndBit, Zenon
  <2>1. PICK m \in 0 .. n, j \in 0 .. 7 : i = 8 * m + j /\ (m = n => j < h)
    BY <2>0
  <2>2. m \in 0 .. Len(s) /\ m \in 0 .. Len(t)
    BY <1>0
  <2>3. BitAt(s, i) = BitOf(Char(s, m), j) /\ BitAt(t, i) = BitOf(Char(t, m), j)
    BY <2>1, <2>2, BitOfChar
  <2>4. CASE m = n
    BY <2>1, <2>3, <2>4 DEF FirstDiff
  <2>5. CASE m < n
    BY <1>0, <2>3, <2>5
  <2> QED
    BY <1>0, <2>4, <2>5
<1> QED
  BY <1>1, <1>2

(* Two different strings have a first bit at which they differ: what the   *)
(* tree stands on (KeyAssumption of Critbit).  A string that is a prefix   *)
(* of the other is told apart by a bit of the other's next byte, since no  *)
(* byte of a string is NUL.                                                *)
THEOREM DifferentStringsDiffer ==
  ASSUME NEW s \in Str, NEW t \in Str, s # t
  PROVE  \E i \in Nat : BitAt(s, i) # BitAt(t, i) /\ \A j \in 0 .. i - 1 : BitAt(s, j) = BitAt(t, j)
<1>0. s \in Seq(1 .. 255) /\ t \in Seq(1 .. 255) /\ Len(s) \in Nat /\ Len(t) \in Nat
  BY Elements DEF Str
<1>1. PICK T : T = {n \in Nat : n <= Len(s) /\ n <= Len(t) /\ Char(s, n) # Char(t, n)}
  OBVIOUS
<1>2. T # {}
  <2>1. CASE Len(s) < Len(t)
    <3>1. Len(s) \in 0 .. Len(s) /\ Len(s) \in 0 .. Len(t)
      BY <1>0, <2>1
    <3>2. Char(s, Len(s)) = 0 /\ Char(t, Len(s)) # 0
      BY <2>1, <3>1, CharOf
    <3> QED
      BY <1>0, <1>1, <2>1, <3>2
  <2>2. CASE Len(t) < Len(s)
    <3>1. Len(t) \in 0 .. Len(s) /\ Len(t) \in 0 .. Len(t)
      BY <1>0, <2>2
    <3>2. Char(t, Len(t)) = 0 /\ Char(s, Len(t)) # 0
      BY <2>2, <3>1, CharOf
    <3> QED
      BY <1>0, <1>1, <2>2, <3>2
  <2>3. CASE Len(s) = Len(t)
    <3>1. s = [i \in 1 .. Len(s) |-> s[i]] /\ t = [i \in 1 .. Len(t) |-> t[i]]
      BY <1>0
    <3>2. PICK i \in 1 .. Len(s) : s[i] # t[i]
      BY <2>3, <3>1
    <3>3. i - 1 \in Nat /\ i - 1 < Len(s) /\ i - 1 < Len(t) /\ (i - 1) + 1 = i
      BY <1>0, <2>3
    <3>4. Char(s, i - 1) = s[i] /\ Char(t, i - 1) = t[i]
      BY <1>0, <3>3 DEF Char
    <3> QED
      BY <1>0, <1>1, <3>2, <3>3, <3>4
  <2> QED
    BY <1>0, <2>1, <2>2, <2>3
<1>3. PICK n \in T : \A m \in T : n <= m
  <2>1. T \in SUBSET Nat
    BY <1>1
  <2> QED
    BY <1>2, <2>1, Least
<1>4. n \in 0 .. Len(s) /\ n \in 0 .. Len(t) /\ n \in Nat /\ Char(s, n) # Char(t, n)
  BY <1>0, <1>1, <1>3
<1>5. \A m \in 0 .. n - 1 : Char(s, m) = Char(t, m)
  BY <1>0, <1>1, <1>3, <1>4
<1>6. PICK h \in 0 .. 7 : FirstDiff(Char(s, n), Char(t, n), h)
  BY <1>4, CharOf, HighestDiffers
<1>7. /\ BitAt(s, 8 * n + h) # BitAt(t, 8 * n + h)
      /\ \A i \in 0 .. (8 * n + h) - 1 : BitAt(s, i) = BitAt(t, i)
  BY <1>4, <1>5, <1>6, FirstBit
<1>8. 8 * n + h \in Nat
  BY <1>4
<1> QED
  BY <1>7, <1>8

(* The node found tests the first bit at which the strings differ, with    *)
(* p's subtree on the side of p's bit; "exists" is reported only of equal  *)
(* strings.                                                                *)
THEOREM CriticalBitFound == Spec => []FindsCriticalBit
<1>1. LoopInv => FindsCriticalBit
  <2> SUFFICES ASSUME LoopInv PROVE FindsCriticalBit
    OBVIOUS
  <2>0. Passed
    BY DEF LoopInv
  <2>1. ASSUME pc = "exists" PROVE p = bytes
    <3>1. newbyte = Len(p) /\ newbyte = Len(bytes) /\ newbyte \in Nat
      BY <2>0, <2>1, AtByte DEF LoopInv
    <3>2. p \in Seq(1 .. 255) /\ bytes \in Seq(1 .. 255)
      BY <2>0 DEF Passed, Str
    <3>3. ASSUME NEW i \in 1 .. Len(p) PROVE p[i] = bytes[i]
      <4>1. i - 1 \in 0 .. newbyte - 1 /\ (i - 1) + 1 = i /\ i - 1 # Len(p) /\ i - 1 # Len(bytes)
        BY <3>1
      <4>2. Char(p, i - 1) = Char(bytes, i - 1)
        BY <2>0, <4>1 DEF Passed
      <4> QED
        BY <4>1, <4>2 DEF Char
    <3>4. p = [i \in 1 .. Len(p) |-> p[i]] /\ bytes = [i \in 1 .. Len(bytes) |-> bytes[i]]
      BY <3>2
    <3>5. Len(p) = Len(bytes)
      BY <3>1
    <3> QED
      BY <3>3, <3>4, <3>5
  <2>2. ASSUME pc = "done"
        PROVE  LET i == Position(newbyte, newotherbits)
               IN  /\ BitAt(p, i) # BitAt(bytes, i)
                   /\ \A h \in 0 .. i - 1 : BitAt(p, h) = BitAt(bytes, h)
                   /\ newdirection = BitAt(p, i)
    <3>1. PICK h \in 0 .. 7 : Found(h)
      BY <2>2 DEF LoopInv
    <3>2. Position(newbyte, newotherbits) = 8 * newbyte + h
      BY <2>0, <3>1, FoundAt
    <3>3. /\ p \in Str /\ bytes \in Str
          /\ newbyte \in 0 .. Len(p) /\ newbyte \in 0 .. Len(bytes)
          /\ \A m \in 0 .. newbyte - 1 : Char(p, m) = Char(bytes, m)
          /\ FirstDiff(Char(p, newbyte), Char(bytes, newbyte), h)
          /\ newdirection = BitOf(Char(p, newbyte), h)
      BY <2>0, <3>1 DEF Passed, Found
    <3>4. /\ BitAt(p, 8 * newbyte + h) # BitAt(bytes, 8 * newbyte + h)
          /\ \A i \in 0 .. (8 * newbyte + h) - 1 : BitAt(p, i) = BitAt(bytes, i)
      BY <3>3, FirstBit
    <3>5. newdirection = BitAt(p, 8 * newbyte + h)
      BY <3>3, BitOfChar
    <3> QED
      BY <3>2, <3>4, <3>5
  <2> QED
    BY <2>1, <2>2 DEF FindsCriticalBit
<1> QED
  BY <1>1, LoopsInvariant, PTL

(* get_direction at the node found is the tested bit of every string.      *)
THEOREM DirectionsAreBits == Spec => []DirectionIsBit
<1>1. LoopInv => DirectionIsBit
  <2> SUFFICES ASSUME LoopInv, pc = "done", NEW s \in Probes
               PROVE  GetDirection(newbyte, newotherbits, s) = BitAt(s, Position(newbyte, newotherbits))
    BY DEF DirectionIsBit
  <2>0. Passed
    BY DEF LoopInv
  <2>1. PICK h \in 0 .. 7 : Found(h)
    BY DEF LoopInv
  <2>2. Position(newbyte, newotherbits) = 8 * newbyte + h /\ newbyte \in Nat
    BY <2>0, <2>1, FoundAt
  <2>3. newotherbits = 255 - Weight[h + 1]
    BY <2>1 DEF Found
  <2>4. s \in Str /\ Len(s) \in Nat
    BY StrAssumption, Elements DEF Str
  <2>5. CASE newbyte < Len(s)
    <3>1. newbyte \in 0 .. Len(s)
      BY <2>2, <2>4, <2>5
    <3>2. Char(s, newbyte) \in Chars
      BY <2>4, <3>1, CharOf
    <3>3. GetDirection(newbyte, newotherbits, s) = BitOf(Char(s, newbyte), h)
      BY <2>3, <2>5, <3>2, DirectionOfBit DEF GetDirection
    <3> QED
      BY <2>2, <2>4, <3>1, <3>3, BitOfChar
  <2>6. CASE ~(newbyte < Len(s))
    <3>1. (8 * newbyte + h) \div 8 = newbyte
      BY <2>2, ByteAndBit
    <3> QED
      BY <2>2, <2>6, <3>1 DEF GetDirection, BitAt
  <2> QED
    BY <2>5, <2>6
<1> QED
  BY <1>1, LoopsInvariant, PTL
=============================================================================
