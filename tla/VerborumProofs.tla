---------------------------- MODULE VerborumProofs ----------------------------
(***************************************************************************)
(* The tools that work by whole words, proved for words of 2, 4 and 8, in  *)
(* either byte order and for every byte.                                   *)
(*                                                                         *)
(* First verbum_scrutor.  A word is judged lane by lane: a carry or a      *)
(* borrow is followed to the lane it started in, and what a lane's eight   *)
(* bits come to is worked out once for all pairs of bytes.  Then the lane  *)
(* masks, with their counts, smears and runs.                              *)
(*                                                                         *)
(* Then the moves and the scans of memoria_operor and proximus_operor, for *)
(* every memory and every region.  A walk is judged by how its pieces tile *)
(* the region, upward or downward; a scan by how its words cover it.       *)
(***************************************************************************)
EXTENDS VerbumScrutor, MemoriaOperor, WellFoundedInduction, SequenceTheorems, FiniteSetTheorems, TLAPS

-----------------------------------------------------------------------------
(* Bytes and their bits.                                                   *)

Byte == 0 .. 255

LEMMA HighPowers == \A i \in 8 .. 30 : 2^i \in Nat /\ 2^i >= 256
<1> DEFINE P == [i \in 0 .. 30 |-> 2^i]
<1>8. P[8] = 256
  OBVIOUS
<1>9. P[9] = 512
  OBVIOUS
<1>10. P[10] = 1024
  OBVIOUS
<1>11. P[11] = 2048
  OBVIOUS
<1>12. P[12] = 4096
  OBVIOUS
<1>13. P[13] = 8192
  OBVIOUS
<1>14. P[14] = 16384
  OBVIOUS
<1>15. P[15] = 32768
  OBVIOUS
<1>16. P[16] = 65536
  OBVIOUS
<1>17. P[17] = 131072
  OBVIOUS
<1>18. P[18] = 262144
  OBVIOUS
<1>19. P[19] = 524288
  OBVIOUS
<1>20. P[20] = 1048576
  OBVIOUS
<1>21. P[21] = 2097152
  OBVIOUS
<1>22. P[22] = 4194304
  OBVIOUS
<1>23. P[23] = 8388608
  OBVIOUS
<1>24. P[24] = 16777216
  OBVIOUS
<1>25. P[25] = 33554432
  OBVIOUS
<1>26. P[26] = 67108864
  OBVIOUS
<1>27. P[27] = 134217728
  OBVIOUS
<1>28. P[28] = 268435456
  OBVIOUS
<1>29. P[29] = 536870912
  OBVIOUS
<1>30. P[30] = 1073741824
  OBVIOUS
<1> HIDE DEF P
<1>50. ASSUME NEW i \in 8 .. 30 PROVE P[i] \in Nat /\ P[i] >= 256
  <2>1. CASE i \in 8 .. 15
    <3>1. i = 8 \/ i = 9 \/ i = 10 \/ i = 11 \/ i = 12 \/ i = 13 \/ i = 14 \/ i = 15
      BY <2>1
    <3> QED BY <3>1, <1>8, <1>9, <1>10, <1>11, <1>12, <1>13, <1>14, <1>15
  <2>2. CASE i \in 16 .. 23
    <3>1. i = 16 \/ i = 17 \/ i = 18 \/ i = 19 \/ i = 20 \/ i = 21 \/ i = 22 \/ i = 23
      BY <2>2
    <3> QED BY <3>1, <1>16, <1>17, <1>18, <1>19, <1>20, <1>21, <1>22, <1>23
  <2>3. CASE i \in 24 .. 30
    <3>1. i = 24 \/ i = 25 \/ i = 26 \/ i = 27 \/ i = 28 \/ i = 29 \/ i = 30
      BY <2>3
    <3> QED BY <3>1, <1>24, <1>25, <1>26, <1>27, <1>28, <1>29, <1>30
  <2> QED BY <2>1, <2>2, <2>3
<1>51. \A i \in 8 .. 30 : P[i] = 2^i
  BY DEF P
<1> QED BY <1>50, <1>51

LEMMA ByteBits ==
  ASSUME NEW v \in Byte
  PROVE  /\ BitsOf(v) \subseteq 0 .. 7
         /\ (0 \in BitsOf(v)) = (v % 2 = 1)
         /\ (1 \in BitsOf(v)) = ((v \div 2) % 2 = 1)
         /\ (2 \in BitsOf(v)) = ((v \div 4) % 2 = 1)
         /\ (3 \in BitsOf(v)) = ((v \div 8) % 2 = 1)
         /\ (4 \in BitsOf(v)) = ((v \div 16) % 2 = 1)
         /\ (5 \in BitsOf(v)) = ((v \div 32) % 2 = 1)
         /\ (6 \in BitsOf(v)) = ((v \div 64) % 2 = 1)
         /\ (7 \in BitsOf(v)) = ((v \div 128) % 2 = 1)
<1>1. ASSUME NEW i \in 8 .. 30 PROVE i \notin BitsOf(v)
  <2>1. PICK p \in Nat : p = 2^i /\ p >= 256
    BY HighPowers
  <2>2. v \div p = 0
    BY <2>1 DEF Byte
  <2> QED BY <2>1, <2>2 DEF BitsOf
<1>2. BitsOf(v) \subseteq 0 .. 7
  <2>1. BitsOf(v) \subseteq 0 .. 30
    BY DEF BitsOf
  <2> QED BY <1>1, <2>1
<1>3. 2^0 = 1 /\ 2^1 = 2 /\ 2^2 = 4 /\ 2^3 = 8 /\ 2^4 = 16 /\ 2^5 = 32 /\ 2^6 = 64 /\ 2^7 = 128
  OBVIOUS
<1>4. v \div 1 = v
  BY DEF Byte
<1> QED BY <1>2, <1>3, <1>4 DEF BitsOf

Bit(v, i) == IF i \in BitsOf(v) THEN 1 ELSE 0

(* A byte is the sum of its bits.                                          *)
LEMMA ByteSum ==
  ASSUME NEW v \in Byte
  PROVE  v = Bit(v, 0) + 2 * Bit(v, 1) + 4 * Bit(v, 2) + 8 * Bit(v, 3) + 16 * Bit(v, 4)
               + 32 * Bit(v, 5) + 64 * Bit(v, 6) + 128 * Bit(v, 7)
BY ByteBits DEF Bit, Byte

LEMMA SameByte ==
  ASSUME NEW v \in Byte, NEW w \in Byte, BitsOf(v) = BitsOf(w)
  PROVE  v = w
BY ByteSum DEF Bit
-----------------------------------------------------------------------------
(* A word is lanes of eight bits.                                          *)

LEMMA LanesNat ==
  ASSUME LanesAssumption
  PROVE  /\ Lanes \in Nat /\ Lanes > 0 /\ Lanes <= 8 /\ BigEndian \in BOOLEAN
         /\ Positions = 0 .. 8 * Lanes - 1
         /\ LaneIndexes = 0 .. Lanes - 1
BY DEF LanesAssumption, Positions, LaneIndexes

(* A place in a word is a bit of a lane.                                   *)
LEMMA Spot ==
  ASSUME LanesAssumption, NEW i \in Positions
  PROVE  \E l \in LaneIndexes, b \in 0 .. 7 : i = 8 * l + b
<1> DEFINE l == i \div 8
           b == i % 8
<1>1. i \in Nat /\ i <= 8 * Lanes - 1 /\ Lanes \in Nat
  BY LanesNat
<1>2. l \in Nat /\ b \in 0 .. 7 /\ i = 8 * l + b
  BY <1>1
<1> HIDE DEF l, b
<1>3. l \in LaneIndexes
  BY <1>1, <1>2, LanesNat
<1> QED BY <1>2, <1>3

LEMMA SpotOf ==
  ASSUME LanesAssumption, NEW l \in LaneIndexes, NEW b \in 0 .. 7
  PROVE  8 * l + b \in Positions
BY LanesNat

(* Two words are the same when each lane of them is.                       *)
LEMMA SameLanes ==
  ASSUME LanesAssumption, NEW S \in SUBSET Positions, NEW T \in SUBSET Positions,
         \A l \in LaneIndexes, b \in 0 .. 7 : 8 * l + b \in S <=> 8 * l + b \in T
  PROVE  S = T
BY Spot

LEMMA InLanesIs ==
  ASSUME LanesAssumption, NEW lanes \in SUBSET LaneIndexes, NEW bits \in SUBSET (0 .. 7)
  PROVE  /\ InLanes(lanes, bits) \subseteq Positions
         /\ \A l \in LaneIndexes, b \in 0 .. 7 :
              8 * l + b \in InLanes(lanes, bits) <=> l \in lanes /\ b \in bits
<1>1. \A l \in lanes, b \in bits : l \in LaneIndexes /\ b \in 0 .. 7
  OBVIOUS
<1>2. InLanes(lanes, bits) \subseteq Positions
  <2>1. \A l \in lanes, b \in bits : 8 * l + b \in Positions
    BY <1>1, SpotOf
  <2> QED BY <2>1 DEF InLanes
<1>3. ASSUME NEW l \in LaneIndexes, NEW b \in 0 .. 7
      PROVE  8 * l + b \in InLanes(lanes, bits) <=> l \in lanes /\ b \in bits
  <2>1. \A k \in lanes, c \in bits : 8 * l + b = 8 * k + c => l = k /\ b = c
    BY <1>1, LanesNat
  <2> QED BY <2>1 DEF InLanes
<1> QED BY <1>2, <1>3

LEMMA BroadcastIs ==
  ASSUME LanesAssumption, NEW byte \in Byte
  PROVE  /\ Broadcast(byte) \subseteq Positions
         /\ \A l \in LaneIndexes, b \in 0 .. 7 : 8 * l + b \in Broadcast(byte) <=> b \in BitsOf(byte)
<1>1. BitsOf(byte) \in SUBSET (0 .. 7)
  BY ByteBits
<1> QED BY <1>1, InLanesIs DEF Broadcast

LEMMA HighIs ==
  ASSUME LanesAssumption
  PROVE  /\ High \subseteq Positions /\ Low7 \subseteq Positions
         /\ \A l \in LaneIndexes, b \in 0 .. 7 :
              (8 * l + b \in High <=> b = 7) /\ (8 * l + b \in Low7 <=> b # 7)
<1>1. BitsOf(128) = {7} /\ BitsOf(127) = 0 .. 6
  BY ByteBits DEF Byte
<1>2. 128 \in Byte /\ 127 \in Byte
  BY DEF Byte
<1> QED BY <1>1, <1>2, BroadcastIs DEF High, Low7

Bytes == [1 .. Lanes -> Byte]

Spells(w, bytes) ==
  /\ w \in SUBSET Positions
  /\ \A l \in LaneIndexes, b \in 0 .. 7 : 8 * l + b \in w <=> b \in BitsOf(bytes[l + 1])

LEMMA WordIs ==
  ASSUME LanesAssumption, NEW bytes \in Bytes
  PROVE  Spells(Word(bytes), bytes)
<1>1. \A k \in LaneIndexes : bytes[k + 1] \in Byte
  BY LanesNat DEF Bytes
<1>2. \A k \in LaneIndexes : BitsOf(bytes[k + 1]) \in SUBSET (0 .. 7)
  BY <1>1, ByteBits
<1>3. \A k \in LaneIndexes : InLanes({k}, BitsOf(bytes[k + 1])) \subseteq Positions
  BY <1>2, InLanesIs
<1>4. \A k, l \in LaneIndexes, b \in 0 .. 7 :
        8 * l + b \in InLanes({k}, BitsOf(bytes[k + 1])) <=> l = k /\ b \in BitsOf(bytes[k + 1])
  <2> SUFFICES ASSUME NEW k \in LaneIndexes PROVE \A l \in LaneIndexes, b \in 0 .. 7 :
        8 * l + b \in InLanes({k}, BitsOf(bytes[k + 1])) <=> l = k /\ b \in BitsOf(bytes[k + 1])
    OBVIOUS
  <2>1. {k} \in SUBSET LaneIndexes
    OBVIOUS
  <2> DEFINE bits == BitsOf(bytes[k + 1])
  <2>2. bits \in SUBSET (0 .. 7)
    BY <1>2
  <2> HIDE DEF bits
  <2>3. \A l \in LaneIndexes, b \in 0 .. 7 : 8 * l + b \in InLanes({k}, bits) <=> l \in {k} /\ b \in bits
    BY <2>1, <2>2, InLanesIs
  <2> QED BY <2>3 DEF bits
<1>5. \A i : i \in Word(bytes) <=> \E k \in LaneIndexes : i \in InLanes({k}, BitsOf(bytes[k + 1]))
  BY DEF Word
<1>6. Word(bytes) \subseteq Positions
  BY <1>3, <1>5
<1>7. ASSUME NEW l \in LaneIndexes, NEW b \in 0 .. 7
      PROVE  8 * l + b \in Word(bytes) <=> b \in BitsOf(bytes[l + 1])
  <2>1. 8 * l + b \in Word(bytes) <=>
          \E k \in LaneIndexes : 8 * l + b \in InLanes({k}, BitsOf(bytes[k + 1]))
    BY <1>5
  <2>2. \A k \in LaneIndexes :
          8 * l + b \in InLanes({k}, BitsOf(bytes[k + 1])) <=> l = k /\ b \in BitsOf(bytes[k + 1])
    BY <1>4
  <2> QED BY <2>1, <2>2
<1> QED BY <1>6, <1>7 DEF Spells
-----------------------------------------------------------------------------
(* Carries and borrows that stay in their lane.                            *)

Carries(x, y, i) ==
  \E j \in Positions : j \in x /\ j \in y /\ j < i /\ \A k \in Positions : j < k /\ k < i => k \in x \/ k \in y

Owes(x, y, i) ==
  \E j \in Positions : j \in y /\ j \notin x /\ j < i /\ \A k \in Positions : j < k /\ k < i => k \notin x \/ k \in y

LEMMA CarriesAre ==
  ASSUME LanesAssumption, NEW x \in SUBSET Positions, NEW y \in SUBSET Positions
  PROVE  Plus(x, y) = Xor(Xor(x, y), {i \in Positions : Carries(x, y, i)})
<1> DEFINE carries == {i \in Positions : \E j \in x \cap y : j < i /\ (j + 1) .. (i - 1) \subseteq x \cup y}
<1>1. Positions = 0 .. 8 * Lanes - 1 /\ Lanes \in Nat
  BY LanesNat
<1>2. \A i, j \in Positions : (j + 1) .. (i - 1) \subseteq x \cup y
                                <=> \A k \in Positions : j < k /\ k < i => k \in x \/ k \in y
  BY <1>1
<1>3. \A i \in Positions : i \in carries <=> Carries(x, y, i)
  BY <1>2 DEF Carries
<1>4. carries = {i \in Positions : Carries(x, y, i)}
  BY <1>3
<1> QED BY <1>4 DEF Plus

LEMMA BorrowsAre ==
  ASSUME LanesAssumption, NEW x \in SUBSET Positions, NEW y \in SUBSET Positions
  PROVE  Minus(x, y) = Xor(Xor(x, y), {i \in Positions : Owes(x, y, i)})
<1> DEFINE borrows == {i \in Positions : \E j \in y \ x : j < i /\ (j + 1) .. (i - 1) \cap (x \ y) = {}}
<1>1. Positions = 0 .. 8 * Lanes - 1 /\ Lanes \in Nat
  BY LanesNat
<1>2. \A i, j \in Positions : (j + 1) .. (i - 1) \cap (x \ y) = {}
                                <=> \A k \in Positions : j < k /\ k < i => k \notin x \/ k \in y
  BY <1>1
<1>3. \A i \in Positions : i \in borrows <=> Owes(x, y, i)
  BY <1>2 DEF Owes
<1>4. borrows = {i \in Positions : Owes(x, y, i)}
  BY <1>3
<1> QED BY <1>4 DEF Minus

LEMMA XorAt ==
  ASSUME NEW x, NEW y, NEW c, NEW i
  PROVE  i \in Xor(Xor(x, y), c) <=> (i \in x <=> (i \in y <=> i \in c))
<1>1. \A S, T : i \in Xor(S, T) <=> ~(i \in S <=> i \in T)
  BY DEF Xor
<1>2. i \in Xor(x, y) <=> ~(i \in x <=> i \in y)
  BY <1>1
<1>3. i \in Xor(Xor(x, y), c) <=> ~(i \in Xor(x, y) <=> i \in c)
  BY <1>1
<1> QED BY <1>2, <1>3

LEMMA PlusAt ==
  ASSUME LanesAssumption, NEW x \in SUBSET Positions, NEW y \in SUBSET Positions, NEW i \in Positions
  PROVE  i \in Plus(x, y) <=> (i \in x <=> (i \in y <=> Carries(x, y, i)))
<1> DEFINE c == {h \in Positions : Carries(x, y, h)}
<1>1. i \in c <=> Carries(x, y, i)
  OBVIOUS
<1>2. i \in Plus(x, y) <=> i \in Xor(Xor(x, y), c)
  BY CarriesAre
<1> HIDE DEF c
<1> QED BY <1>1, <1>2, XorAt

LEMMA MinusAt ==
  ASSUME LanesAssumption, NEW x \in SUBSET Positions, NEW y \in SUBSET Positions, NEW i \in Positions
  PROVE  i \in Minus(x, y) <=> (i \in x <=> (i \in y <=> Owes(x, y, i)))
<1> DEFINE c == {h \in Positions : Owes(x, y, h)}
<1>1. i \in c <=> Owes(x, y, i)
  OBVIOUS
<1>2. i \in Minus(x, y) <=> i \in Xor(Xor(x, y), c)
  BY BorrowsAre
<1> HIDE DEF c
<1> QED BY <1>1, <1>2, XorAt

(* A zero lane is found by a sum whose carries no bit 7 lets through.      *)
LEMMA HasZeroIs ==
  ASSUME LanesAssumption, NEW w \in SUBSET Positions
  PROVE  /\ HasZero(w) \subseteq Positions
         /\ \A l \in LaneIndexes, b \in 0 .. 7 :
              8 * l + b \in HasZero(w) <=> b = 7 /\ \A c \in 0 .. 7 : 8 * l + c \notin w
<1> DEFINE x == w \cap Low7
<1>1. HasZero(w) \subseteq Positions
  BY HighIs DEF HasZero
<1>2. x \in SUBSET Positions /\ Low7 \in SUBSET Positions /\ x \subseteq Low7
  BY HighIs
<1>3. ASSUME NEW l \in LaneIndexes
      PROVE  Carries(x, Low7, 8 * l + 7) <=> \E c \in 0 .. 6 : 8 * l + c \in w
  <2>1. ASSUME Carries(x, Low7, 8 * l + 7) PROVE \E c \in 0 .. 6 : 8 * l + c \in w
    <3>1. PICK j \in Positions : /\ j \in x /\ j < 8 * l + 7
                                 /\ \A k \in Positions : j < k /\ k < 8 * l + 7 => k \in Low7
      BY <2>1, <1>2 DEF Carries
    <3>2. PICK m \in LaneIndexes, c \in 0 .. 7 : j = 8 * m + c
      BY Spot
    <3>3. c # 7
      BY <3>1, <3>2, <1>2, HighIs
    <3>4. 8 * m + 7 \in Positions /\ 8 * m + 7 \notin Low7
      BY HighIs, SpotOf
    <3>5. ~(j < 8 * m + 7 /\ 8 * m + 7 < 8 * l + 7)
      BY <3>1, <3>4
    <3>6. m \in Int /\ l \in Int /\ c \in 0 .. 6
      BY <3>3, LanesNat
    <3>7. m = l
      BY <3>1, <3>2, <3>5, <3>6
    <3> QED BY <3>1, <3>2, <3>6, <3>7
  <2>2. ASSUME NEW c \in 0 .. 6, 8 * l + c \in w PROVE Carries(x, Low7, 8 * l + 7)
    <3>1. \A d \in 0 .. 6 : d \in 0 .. 7 /\ d # 7
      OBVIOUS
    <3>2. \A d \in 0 .. 6 : 8 * l + d \in Low7
      BY <3>1, HighIs
    <3>3. l \in Int
      BY LanesNat
    <3>4. 8 * l + c \in Low7 /\ 8 * l + c \in x /\ 8 * l + c \in Positions /\ 8 * l + c < 8 * l + 7
      BY <2>2, <3>2, <3>3, <1>2
    <3>5. ASSUME NEW k \in Positions, 8 * l + c < k, k < 8 * l + 7 PROVE k \in Low7
      <4>1. k \in Int
        BY LanesNat
      <4>2. k - 8 * l \in 0 .. 6 /\ k = 8 * l + (k - 8 * l)
        BY <3>3, <3>5, <4>1
      <4> QED BY <3>2, <4>2
    <3> HIDE DEF x
    <3> QED BY <3>4, <3>5 DEF Carries
  <2> QED BY <2>1, <2>2
<1>4. ASSUME NEW l \in LaneIndexes
      PROVE  8 * l + 7 \in Plus(x, Low7) <=> \E c \in 0 .. 6 : 8 * l + c \in w
  <2>1. 8 * l + 7 \notin Low7 /\ 8 * l + 7 \in Positions
    BY HighIs, SpotOf
  <2>2. 8 * l + 7 \in Plus(x, Low7)
          <=> (8 * l + 7 \in x <=> (8 * l + 7 \in Low7 <=> Carries(x, Low7, 8 * l + 7)))
    BY <2>1, <1>2, PlusAt
  <2>3. 8 * l + 7 \notin x
    BY <2>1
  <2>4. Carries(x, Low7, 8 * l + 7) <=> \E c \in 0 .. 6 : 8 * l + c \in w
    BY <1>3
  <2> HIDE DEF x
  <2>5. 8 * l + 7 \in Plus(x, Low7) <=> Carries(x, Low7, 8 * l + 7)
    BY <2>1, <2>2, <2>3
  <2> QED BY <2>4, <2>5
<1>5. ASSUME NEW l \in LaneIndexes, NEW b \in 0 .. 7
      PROVE  8 * l + b \in HasZero(w) <=> b = 7 /\ \A c \in 0 .. 7 : 8 * l + c \notin w
  <2>1. 8 * l + b \in HasZero(w) <=>
          /\ 8 * l + b \in Positions /\ 8 * l + b \in High
          /\ 8 * l + b \notin w /\ 8 * l + b \notin Plus(x, Low7)
    BY DEF HasZero, Not
  <2>2. 8 * l + b \in Positions /\ (8 * l + b \in High <=> b = 7)
    BY SpotOf, HighIs
  <2>3. (\A c \in 0 .. 7 : 8 * l + c \notin w) <=> 8 * l + 7 \notin w /\ \A c \in 0 .. 6 : 8 * l + c \notin w
    <3>1. \A c : c \in 0 .. 7 <=> c = 7 \/ c \in 0 .. 6
      OBVIOUS
    <3> QED BY <3>1
  <2> HIDE DEF x
  <2> QED BY <1>4, <2>1, <2>2, <2>3
<1> QED BY <1>1, <1>5

Borrows(x, y, l, b) ==
  \E j \in 0 .. 7 :
    /\ j < b /\ 8 * l + j \in y /\ 8 * l + j \notin x
    /\ \A k \in 0 .. 7 : j < k /\ k < b => 8 * l + k \notin x \/ 8 * l + k \in y

(* Where the minuend has every bit 7 and the subtrahend none, a borrow     *)
(* ends in the lane it starts in.                                          *)
LEMMA MinusIs ==
  ASSUME LanesAssumption, NEW x \in SUBSET Positions, NEW y \in SUBSET Positions,
         \A l \in LaneIndexes : 8 * l + 7 \in x /\ 8 * l + 7 \notin y
  PROVE  /\ Minus(x, y) \subseteq Positions
         /\ \A l \in LaneIndexes, b \in 0 .. 7 :
              8 * l + b \in Minus(x, y) <=>
                (8 * l + b \in x <=> (8 * l + b \in y <=> Borrows(x, y, l, b)))
<1>1. Minus(x, y) \subseteq Positions
  BY DEF Minus, Xor
<1>2. ASSUME NEW l \in LaneIndexes, NEW b \in 0 .. 7
      PROVE  Owes(x, y, 8 * l + b) <=> Borrows(x, y, l, b)
  <2>0. l \in Int
    BY LanesNat
  <2>1. ASSUME Owes(x, y, 8 * l + b) PROVE Borrows(x, y, l, b)
    <3>1. PICK j \in Positions :
            /\ j \in y /\ j \notin x /\ j < 8 * l + b
            /\ \A k \in Positions : j < k /\ k < 8 * l + b => k \notin x \/ k \in y
      BY <2>1 DEF Owes
    <3>2. PICK m \in LaneIndexes, c \in 0 .. 7 : j = 8 * m + c
      BY Spot
    <3>3. c # 7 /\ 8 * m + 7 \in x /\ 8 * m + 7 \notin y
      BY <3>1, <3>2
    <3>4. 8 * m + 7 \in Positions
      BY SpotOf
    <3>5. ~(j < 8 * m + 7 /\ 8 * m + 7 < 8 * l + b)
      BY <3>1, <3>3, <3>4
    <3>6. m \in Int
      BY LanesNat
    <3>7. m = l /\ c < b
      BY <2>0, <3>1, <3>2, <3>3, <3>5, <3>6
    <3>8. ASSUME NEW k \in 0 .. 7, c < k, k < b PROVE 8 * l + k \notin x \/ 8 * l + k \in y
      <4>1. 8 * l + k \in Positions
        BY SpotOf
      <4>2. j < 8 * l + k /\ 8 * l + k < 8 * l + b
        BY <2>0, <3>2, <3>7, <3>8
      <4> QED BY <3>1, <4>1, <4>2
    <3> QED BY <3>1, <3>2, <3>7, <3>8 DEF Borrows
  <2>2. ASSUME Borrows(x, y, l, b) PROVE Owes(x, y, 8 * l + b)
    <3>1. PICK c \in 0 .. 7 :
            /\ c < b /\ 8 * l + c \in y /\ 8 * l + c \notin x
            /\ \A k \in 0 .. 7 : c < k /\ k < b => 8 * l + k \notin x \/ 8 * l + k \in y
      BY <2>2 DEF Borrows
    <3>2. 8 * l + c < 8 * l + b /\ 8 * l + c \in Positions
      BY <2>0, <3>1, SpotOf
    <3>3. ASSUME NEW k \in Positions, 8 * l + c < k, k < 8 * l + b PROVE k \notin x \/ k \in y
      <4>1. k \in Int
        BY LanesNat
      <4>2. k - 8 * l \in 0 .. 7 /\ c < k - 8 * l /\ k - 8 * l < b /\ k = 8 * l + (k - 8 * l)
        BY <2>0, <3>3, <4>1
      <4> QED BY <3>1, <4>2
    <3> QED BY <3>1, <3>2, <3>3 DEF Owes
  <2> QED BY <2>1, <2>2
<1>3. ASSUME NEW l \in LaneIndexes, NEW b \in 0 .. 7
      PROVE  8 * l + b \in Minus(x, y) <=>
               (8 * l + b \in x <=> (8 * l + b \in y <=> Borrows(x, y, l, b)))
  <2>1. 8 * l + b \in Positions
    BY SpotOf
  <2>2. Owes(x, y, 8 * l + b) <=> Borrows(x, y, l, b)
    BY <1>2
  <2>3. 8 * l + b \in Minus(x, y) <=>
          (8 * l + b \in x <=> (8 * l + b \in y <=> Owes(x, y, 8 * l + b)))
    BY <2>1, MinusAt
  <2> QED BY <2>2, <2>3
<1> QED BY <1>1, <1>3
-----------------------------------------------------------------------------
(* Bytes subtracted bit by bit.                                            *)

(* A byte has one way to be the sum of its bits.                           *)
LEMMA BitsUnique ==
  ASSUME NEW v \in Byte,
         NEW b0 \in 0 .. 1, NEW b1 \in 0 .. 1, NEW b2 \in 0 .. 1, NEW b3 \in 0 .. 1,
         NEW b4 \in 0 .. 1, NEW b5 \in 0 .. 1, NEW b6 \in 0 .. 1, NEW b7 \in 0 .. 1,
         v = b0 + 2 * b1 + 4 * b2 + 8 * b3 + 16 * b4 + 32 * b5 + 64 * b6 + 128 * b7
  PROVE  /\ Bit(v, 0) = b0 /\ Bit(v, 1) = b1 /\ Bit(v, 2) = b2 /\ Bit(v, 3) = b3
         /\ Bit(v, 4) = b4 /\ Bit(v, 5) = b5 /\ Bit(v, 6) = b6 /\ Bit(v, 7) = b7
<1>1. \A i \in 0 .. 7 : Bit(v, i) \in 0 .. 1
  BY DEF Bit
<1>2. PICK c0 \in 0 .. 1, c1 \in 0 .. 1, c2 \in 0 .. 1, c3 \in 0 .. 1,
           c4 \in 0 .. 1, c5 \in 0 .. 1, c6 \in 0 .. 1, c7 \in 0 .. 1 :
        /\ c0 = Bit(v, 0) /\ c1 = Bit(v, 1) /\ c2 = Bit(v, 2) /\ c3 = Bit(v, 3)
        /\ c4 = Bit(v, 4) /\ c5 = Bit(v, 5) /\ c6 = Bit(v, 6) /\ c7 = Bit(v, 7)
  BY <1>1
<1>3. v = c0 + 2 * c1 + 4 * c2 + 8 * c3 + 16 * c4 + 32 * c5 + 64 * c6 + 128 * c7
  BY <1>2, ByteSum
<1>4. c7 = b7
  BY <1>3
<1>5. c6 = b6
  BY <1>3, <1>4
<1>6. c5 = b5
  BY <1>3, <1>4, <1>5
<1>7. c4 = b4
  BY <1>3, <1>4, <1>5, <1>6
<1>8. c3 = b3
  BY <1>3, <1>4, <1>5, <1>6, <1>7
<1>9. c2 = b2 /\ c1 = b1 /\ c0 = b0
  BY <1>3, <1>4, <1>5, <1>6, <1>7, <1>8
<1> QED BY <1>2, <1>4, <1>5, <1>6, <1>7, <1>8, <1>9

ByteOwes(u, v, b) ==
  \E j \in 0 .. 7 :
    /\ j < b /\ j \in BitsOf(v) /\ j \notin BitsOf(u)
    /\ \A k \in 0 .. 7 : j < k /\ k < b => k \notin BitsOf(u) \/ k \in BitsOf(v)

LEMMA OwesFirst == ASSUME NEW u, NEW v PROVE ~ByteOwes(u, v, 0)
BY DEF ByteOwes

LEMMA OwesNext ==
  ASSUME NEW u, NEW v, NEW b \in 0 .. 6
  PROVE  ByteOwes(u, v, b + 1) <=>
           \/ b \in BitsOf(v) /\ b \notin BitsOf(u)
           \/ ByteOwes(u, v, b) /\ (b \notin BitsOf(u) \/ b \in BitsOf(v))
<1> DEFINE U == BitsOf(u)
           V == BitsOf(v)
<1> HIDE DEF U, V
<1>1. ASSUME NEW j \in 0 .. 7, j < b + 1, j \in V, j \notin U,
             \A k \in 0 .. 7 : j < k /\ k < b + 1 => k \notin U \/ k \in V, j # b
      PROVE  /\ j < b /\ (b \notin U \/ b \in V)
             /\ \A k \in 0 .. 7 : j < k /\ k < b => k \notin U \/ k \in V
  BY <1>1
<1>2. ASSUME NEW j \in 0 .. 7, j < b, \A k \in 0 .. 7 : j < k /\ k < b => k \notin U \/ k \in V,
             b \notin U \/ b \in V
      PROVE  j < b + 1 /\ \A k \in 0 .. 7 : j < k /\ k < b + 1 => k \notin U \/ k \in V
  BY <1>2
<1>3. b \in 0 .. 7 /\ b < b + 1 /\ \A k \in 0 .. 7 : ~(b < k /\ k < b + 1)
  OBVIOUS
<1>4. (\E j \in 0 .. 7 : /\ j < b + 1 /\ j \in V /\ j \notin U
                         /\ \A k \in 0 .. 7 : j < k /\ k < b + 1 => k \notin U \/ k \in V)
        => \/ b \in V /\ b \notin U
           \/ /\ \E j \in 0 .. 7 : /\ j < b /\ j \in V /\ j \notin U
                                   /\ \A k \in 0 .. 7 : j < k /\ k < b => k \notin U \/ k \in V
              /\ b \notin U \/ b \in V
  BY <1>1
<1>5. b \in V /\ b \notin U =>
        \E j \in 0 .. 7 : /\ j < b + 1 /\ j \in V /\ j \notin U
                         /\ \A k \in 0 .. 7 : j < k /\ k < b + 1 => k \notin U \/ k \in V
  BY <1>3
<1>6. /\ \E j \in 0 .. 7 : /\ j < b /\ j \in V /\ j \notin U
                           /\ \A k \in 0 .. 7 : j < k /\ k < b => k \notin U \/ k \in V
      /\ b \notin U \/ b \in V
      => \E j \in 0 .. 7 : /\ j < b + 1 /\ j \in V /\ j \notin U
                          /\ \A k \in 0 .. 7 : j < k /\ k < b + 1 => k \notin U \/ k \in V
  BY <1>2
<1> QED BY <1>4, <1>5, <1>6 DEF ByteOwes, U, V

Owed(u, v, b) == IF ByteOwes(u, v, b) THEN 1 ELSE 0

(* The bit of a difference, and the borrow it leaves.                      *)
LEMMA DifferenceBit ==
  ASSUME NEW u, NEW v, NEW b \in 0 .. 6
  PROVE  LET d == Bit(u, b) - Bit(v, b) - Owed(u, v, b) + 2 * Owed(u, v, b + 1)
         IN  /\ d \in 0 .. 1
             /\ d = 1 <=> (b \in BitsOf(u) <=> (b \in BitsOf(v) <=> ByteOwes(u, v, b)))
<1> DEFINE x == b \in BitsOf(u)
           y == b \in BitsOf(v)
           o == ByteOwes(u, v, b)
           n == ByteOwes(u, v, b + 1)
<1>1. n <=> (y /\ ~x) \/ (o /\ (~x \/ y))
  BY OwesNext
<1> HIDE DEF x, y, o, n
<1>2. LET d == (IF x THEN 1 ELSE 0) - (IF y THEN 1 ELSE 0) - (IF o THEN 1 ELSE 0) + 2 * (IF n THEN 1 ELSE 0)
      IN  d \in 0 .. 1 /\ (d = 1 <=> (x <=> (y <=> o)))
  <2>1. CASE x
    BY <1>1, <2>1
  <2>2. CASE ~x
    BY <1>1, <2>2
  <2> QED BY <2>1, <2>2
<1> QED BY <1>2 DEF x, y, o, n, Bit, Owed

Half == 0 .. 127

LEMMA Difference ==
  ASSUME NEW u \in Half, NEW v \in Half
  PROVE  /\ ByteOwes(u, v, 7) <=> u < v
         /\ \A b \in 0 .. 6 :
              b \in BitsOf((u - v) % 128) <=> (b \in BitsOf(u) <=> (b \in BitsOf(v) <=> ByteOwes(u, v, b)))
<1> DEFINE o(b) == Owed(u, v, b)
           z(b) == Bit(u, b) - Bit(v, b) - o(b) + 2 * o(b + 1)
<1>1. \A b \in 0 .. 6 : z(b) \in 0 .. 1
  BY DifferenceBit
<1>2. u \in Byte /\ v \in Byte
  BY DEF Half, Byte
<1>3. Bit(u, 7) = 0 /\ Bit(v, 7) = 0
  BY <1>2, ByteBits DEF Bit, Half
<1>4. o(0) = 0 /\ o(7) \in 0 .. 1 /\ \A b \in 0 .. 7 : o(b) \in 0 .. 1 /\ Bit(u, b) \in 0 .. 1 /\ Bit(v, b) \in 0 .. 1
  BY OwesFirst DEF Owed, Bit
<1>5. /\ z(0) = Bit(u, 0) - Bit(v, 0) - o(0) + 2 * o(1)
      /\ z(1) = Bit(u, 1) - Bit(v, 1) - o(1) + 2 * o(2)
      /\ z(2) = Bit(u, 2) - Bit(v, 2) - o(2) + 2 * o(3)
      /\ z(3) = Bit(u, 3) - Bit(v, 3) - o(3) + 2 * o(4)
      /\ z(4) = Bit(u, 4) - Bit(v, 4) - o(4) + 2 * o(5)
      /\ z(5) = Bit(u, 5) - Bit(v, 5) - o(5) + 2 * o(6)
      /\ z(6) = Bit(u, 6) - Bit(v, 6) - o(6) + 2 * o(7)
  OBVIOUS
<1> DEFINE d == z(0) + 2 * z(1) + 4 * z(2) + 8 * z(3) + 16 * z(4) + 32 * z(5) + 64 * z(6)
<1>6. d = u - v + 128 * o(7)
  <2>1. u = Bit(u, 0) + 2 * Bit(u, 1) + 4 * Bit(u, 2) + 8 * Bit(u, 3) + 16 * Bit(u, 4)
              + 32 * Bit(u, 5) + 64 * Bit(u, 6)
    BY <1>2, <1>3, <1>4, ByteSum
  <2>2. v = Bit(v, 0) + 2 * Bit(v, 1) + 4 * Bit(v, 2) + 8 * Bit(v, 3) + 16 * Bit(v, 4)
              + 32 * Bit(v, 5) + 64 * Bit(v, 6)
    BY <1>2, <1>3, <1>4, ByteSum
  <2>3. PICK o1, o2, o3, o4, o5, o6, o7 \in Int :
          /\ o1 = o(1) /\ o2 = o(2) /\ o3 = o(3) /\ o4 = o(4) /\ o5 = o(5) /\ o6 = o(6) /\ o7 = o(7)
    <3> HIDE DEF o
    <3>1. o(1) \in Int /\ o(2) \in Int /\ o(3) \in Int /\ o(4) \in Int /\ o(5) \in Int /\ o(6) \in Int /\ o(7) \in Int
      BY <1>4
    <3> QED BY <3>1
  <2>4. PICK u0, u1, u2, u3, u4, u5, u6 \in Int :
          /\ u0 = Bit(u, 0) /\ u1 = Bit(u, 1) /\ u2 = Bit(u, 2) /\ u3 = Bit(u, 3)
          /\ u4 = Bit(u, 4) /\ u5 = Bit(u, 5) /\ u6 = Bit(u, 6)
    BY DEF Bit
  <2>5. PICK v0, v1, v2, v3, v4, v5, v6 \in Int :
          /\ v0 = Bit(v, 0) /\ v1 = Bit(v, 1) /\ v2 = Bit(v, 2) /\ v3 = Bit(v, 3)
          /\ v4 = Bit(v, 4) /\ v5 = Bit(v, 5) /\ v6 = Bit(v, 6)
    BY DEF Bit
  <2> HIDE DEF z, o
  <2>6. /\ z(0) = u0 - v0 + 2 * o1 /\ z(1) = u1 - v1 - o1 + 2 * o2 /\ z(2) = u2 - v2 - o2 + 2 * o3
        /\ z(3) = u3 - v3 - o3 + 2 * o4 /\ z(4) = u4 - v4 - o4 + 2 * o5 /\ z(5) = u5 - v5 - o5 + 2 * o6
        /\ z(6) = u6 - v6 - o6 + 2 * o7
    BY <1>4, <1>5, <2>3, <2>4, <2>5
  <2>7. u = u0 + 2 * u1 + 4 * u2 + 8 * u3 + 16 * u4 + 32 * u5 + 64 * u6
    BY <2>1, <2>4
  <2>8. v = v0 + 2 * v1 + 4 * v2 + 8 * v3 + 16 * v4 + 32 * v5 + 64 * v6
    BY <2>2, <2>5
  <2>9. d = u - v + 128 * o7
    BY ONLY <2>6, <2>7, <2>8
  <2> QED BY <2>3, <2>9
<1>7. d \in 0 .. 127
  <2> HIDE DEF z
  <2> QED BY <1>1
<1>8. d = (u - v) % 128 /\ (o(7) = 1 <=> u < v)
  <2>1. PICK e, p \in Int : e = d /\ p = o(7)
    <3> HIDE DEF d, o
    <3>1. d \in Int /\ o(7) \in Int
      BY <1>4, <1>7
    <3> QED BY <3>1
  <2>2. e = u - v + 128 * p /\ e \in 0 .. 127 /\ p \in 0 .. 1 /\ u \in 0 .. 127 /\ v \in 0 .. 127
    BY <1>4, <1>6, <1>7, <2>1 DEF Half
  <2>3. e = (u - v) % 128 /\ (p = 1 <=> u < v)
    BY ONLY <2>2
  <2> HIDE DEF d, o
  <2> QED BY <2>1, <2>3
<1>9. \A b \in 0 .. 6 : Bit(d, b) = z(b)
  <2>1. d \in Byte
    BY <1>7 DEF Byte
  <2>2. d = z(0) + 2 * z(1) + 4 * z(2) + 8 * z(3) + 16 * z(4) + 32 * z(5) + 64 * z(6) + 128 * 0
    <3> HIDE DEF z
    <3> QED BY <1>1
  <2> HIDE DEF d, z
  <2>3. /\ Bit(d, 0) = z(0) /\ Bit(d, 1) = z(1) /\ Bit(d, 2) = z(2) /\ Bit(d, 3) = z(3)
        /\ Bit(d, 4) = z(4) /\ Bit(d, 5) = z(5) /\ Bit(d, 6) = z(6)
    BY <1>1, <2>1, <2>2, BitsUnique
  <2> QED BY <2>3
<1>10. \A b \in 0 .. 6 : z(b) = 1 <=> (b \in BitsOf(u) <=> (b \in BitsOf(v) <=> ByteOwes(u, v, b)))
  BY DifferenceBit
<1>11. \A b \in 0 .. 6 : b \in BitsOf(d) <=> z(b) = 1
  <2> HIDE DEF d, z
  <2> QED BY <1>9 DEF Bit
<1>12. ByteOwes(u, v, 7) <=> u < v
  BY <1>8 DEF Owed
<1> HIDE DEF d, z, o
<1> QED BY <1>8, <1>10, <1>11, <1>12
-----------------------------------------------------------------------------
(* What is answered of a lane.                                             *)

LEMMA LaneByte ==
  ASSUME LanesAssumption, NEW bytes \in Bytes, NEW l \in LaneIndexes
  PROVE  bytes[l + 1] \in Byte /\ l + 1 \in 1 .. Lanes
BY LanesNat DEF Bytes

LEMMA LowBits ==
  ASSUME NEW v \in Byte
  PROVE  /\ v % 128 \in Half /\ v % 128 \in Byte /\ BitsOf(v % 128) = BitsOf(v) \ {7}
         /\ 7 \in BitsOf(v) <=> v >= 128
<1> DEFINE h == v % 128
<1>1. /\ h \in Half /\ h \in Byte
      /\ h % 2 = v % 2 /\ (h \div 2) % 2 = (v \div 2) % 2 /\ (h \div 4) % 2 = (v \div 4) % 2
      /\ (h \div 8) % 2 = (v \div 8) % 2 /\ (h \div 16) % 2 = (v \div 16) % 2
      /\ (h \div 32) % 2 = (v \div 32) % 2 /\ (h \div 64) % 2 = (v \div 64) % 2
      /\ (h \div 128) % 2 = 0 /\ ((v \div 128) % 2 = 1 <=> v >= 128)
  BY DEF Byte, Half
<1> HIDE DEF h
<1>2. BitsOf(h) \subseteq 0 .. 7 /\ BitsOf(v) \subseteq 0 .. 7 /\ 7 \notin BitsOf(h)
  BY <1>1, ByteBits
<1>3. \A b \in 0 .. 6 : b \in BitsOf(h) <=> b \in BitsOf(v)
  <2> SUFFICES ASSUME NEW b \in 0 .. 6 PROVE b \in BitsOf(h) <=> b \in BitsOf(v)
    OBVIOUS
  <2>1. b = 0 \/ b = 1 \/ b = 2 \/ b = 3 \/ b = 4 \/ b = 5 \/ b = 6
    OBVIOUS
  <2> QED BY <1>1, <2>1, ByteBits
<1>4. 7 \in BitsOf(v) <=> v >= 128
  BY <1>1, ByteBits
<1>5. \A b \in 0 .. 7 : b = 7 \/ b \in 0 .. 6
  OBVIOUS
<1>6. BitsOf(h) = BitsOf(v) \ {7}
  BY <1>2, <1>3, <1>5
<1> QED BY <1>1, <1>4, <1>6 DEF h

(* The borrows of a lane are those of its bytes.                           *)
LEMMA LaneOwes ==
  ASSUME NEW x, NEW y, NEW l, NEW u, NEW v, NEW b \in 0 .. 7,
         \A j \in 0 .. 6 : /\ 8 * l + j \in x <=> j \in BitsOf(u)
                           /\ 8 * l + j \in y <=> j \in BitsOf(v)
  PROVE  Borrows(x, y, l, b) <=> ByteOwes(u, v, b)
<1>1. \A j \in 0 .. 7 : j < b => j \in 0 .. 6
  OBVIOUS
<1> QED BY <1>1 DEF Borrows, ByteOwes

LEMMA GeLanes ==
  ASSUME LanesAssumption, NEW w \in SUBSET Positions, NEW bytes \in Bytes, NEW byte \in Half,
         \A l \in LaneIndexes, b \in 0 .. 7 : 8 * l + b \in w <=> b \in BitsOf(bytes[l + 1])
  PROVE  /\ Ge(w, byte) \subseteq Positions
         /\ \A l \in LaneIndexes, b \in 0 .. 7 :
              8 * l + b \in Ge(w, byte) <=> b = 7 /\ bytes[l + 1] >= byte
         /\ Sub7(w, byte) \subseteq Positions
         /\ \A l \in LaneIndexes, b \in 0 .. 7 :
              8 * l + b \in Sub7(w, byte) <=> b # 7 /\ b \in BitsOf((bytes[l + 1] - byte) % 128)
<1> DEFINE x == w \cup High
           y == Broadcast(byte)
<1>1. byte \in Byte /\ 7 \notin BitsOf(byte)
  BY LowBits DEF Half, Byte
<1>2. y \in SUBSET Positions /\ x \in SUBSET Positions
  BY <1>1, BroadcastIs, HighIs
<1>3. ASSUME NEW l \in LaneIndexes, NEW b \in 0 .. 7
      PROVE  /\ 8 * l + b \in y <=> b \in BitsOf(byte)
             /\ 8 * l + b \in x <=> b = 7 \/ b \in BitsOf(bytes[l + 1])
  BY <1>1, BroadcastIs, HighIs
<1>4. \A l \in LaneIndexes : 8 * l + 7 \in x /\ 8 * l + 7 \notin y
  <2>1. 7 \in 0 .. 7
    OBVIOUS
  <2> HIDE DEF x, y
  <2> QED BY <1>1, <1>3, <2>1
<1>5. /\ Minus(x, y) \subseteq Positions
      /\ \A l \in LaneIndexes, b \in 0 .. 7 :
           8 * l + b \in Minus(x, y) <=> (8 * l + b \in x <=> (8 * l + b \in y <=> Borrows(x, y, l, b)))
  <2> HIDE DEF x, y
  <2> QED BY <1>2, <1>4, MinusIs
<1> HIDE DEF x, y
<1>6. ASSUME NEW l \in LaneIndexes, NEW b \in 0 .. 7
      PROVE  /\ 8 * l + b \in Ge(w, byte) <=> b = 7 /\ bytes[l + 1] >= byte
             /\ 8 * l + b \in Sub7(w, byte) <=> b # 7 /\ b \in BitsOf((bytes[l + 1] - byte) % 128)
  <2> DEFINE v == bytes[l + 1]
             u == v % 128
  <2>1. v \in Byte
    BY LaneByte
  <2>2. u \in Half /\ BitsOf(u) = BitsOf(v) \ {7} /\ (7 \in BitsOf(v) <=> v >= 128)
    <3> HIDE DEF v
    <3> QED BY <2>1, LowBits
  <2>3. (u - byte) % 128 = (v - byte) % 128 /\ (v < 128 => u = v) /\ u <= v
    <3> HIDE DEF v
    <3> QED BY <2>1 DEF Byte, Half
  <2>4. \A j \in 0 .. 6 : (8 * l + j \in x <=> j \in BitsOf(u)) /\ (8 * l + j \in y <=> j \in BitsOf(byte))
    <3>1. \A j \in 0 .. 6 : j \in 0 .. 7 /\ j # 7
      OBVIOUS
    <3> HIDE DEF u
    <3> QED BY <1>3, <2>2, <3>1
  <2>5. 8 * l + b \in Minus(x, y) <=> (8 * l + b \in x <=> (8 * l + b \in y <=> ByteOwes(u, byte, b)))
    <3>1. Borrows(x, y, l, b) <=> ByteOwes(u, byte, b)
      <4> HIDE DEF u
      <4> QED BY <2>4, LaneOwes
    <3>2. 8 * l + b \in Minus(x, y) <=> (8 * l + b \in x <=> (8 * l + b \in y <=> Borrows(x, y, l, b)))
      BY <1>5
    <3> HIDE DEF u
    <3> QED BY <3>1, <3>2
  <2> HIDE DEF u, v
  <2>6. 8 * l + b \in Ge(w, byte) <=> b = 7 /\ v >= byte
    <3>1. 8 * l + b \in Ge(w, byte) <=> b = 7 /\ (8 * l + b \in w \/ 8 * l + b \in Minus(x, y))
      BY HighIs DEF Ge, x, y
    <3>2. CASE b = 7
      <4>1. 8 * l + b \in Minus(x, y) <=> ~ByteOwes(u, byte, 7)
        BY <1>1, <1>3, <2>5, <3>2
      <4>2. ByteOwes(u, byte, 7) <=> u < byte
        BY <2>2, Difference
      <4>3. 8 * l + b \in w <=> v >= 128
        BY <2>2, <3>2 DEF v
      <4>4. v >= byte <=> v >= 128 \/ ~(u < byte)
        BY <2>1, <2>2, <2>3 DEF Half, Byte
      <4> QED BY <3>1, <3>2, <4>1, <4>2, <4>3, <4>4
    <3> QED BY <3>1, <3>2
  <2>7. 8 * l + b \in Sub7(w, byte) <=> b # 7 /\ b \in BitsOf((v - byte) % 128)
    <3>1. 8 * l + b \in Sub7(w, byte) <=> b # 7 /\ 8 * l + b \in Minus(x, y)
      BY HighIs DEF Sub7, x, y
    <3>2. CASE b # 7
      <4>1. b \in 0 .. 6
        BY <3>2
      <4>2. b \in BitsOf((u - byte) % 128) <=> (b \in BitsOf(u) <=> (b \in BitsOf(byte) <=> ByteOwes(u, byte, b)))
        BY <2>2, <4>1, Difference
      <4>3. (8 * l + b \in x <=> b \in BitsOf(u)) /\ (8 * l + b \in y <=> b \in BitsOf(byte))
        BY <2>4, <4>1
      <4>4. 8 * l + b \in Minus(x, y) <=> b \in BitsOf((u - byte) % 128)
        BY <2>5, <4>2, <4>3
      <4> QED BY <2>3, <3>1, <3>2, <4>4
    <3> QED BY <3>1, <3>2
  <2> QED BY <2>6, <2>7 DEF v
<1>7. Ge(w, byte) \subseteq Positions /\ Sub7(w, byte) \subseteq Positions
  BY HighIs DEF Ge, Sub7
<1> QED BY <1>6, <1>7

LEMMA GeIs ==
  ASSUME LanesAssumption, NEW w, NEW bytes \in Bytes, Spells(w, bytes), NEW byte \in Half
  PROVE  /\ Ge(w, byte) \subseteq Positions /\ Sub7(w, byte) \subseteq Positions
         /\ \A l \in LaneIndexes, b \in 0 .. 7 :
              /\ 8 * l + b \in Ge(w, byte) <=> b = 7 /\ bytes[l + 1] >= byte
              /\ 8 * l + b \in Sub7(w, byte) <=> b # 7 /\ b \in BitsOf((bytes[l + 1] - byte) % 128)
BY GeLanes DEF Spells

LEMMA LeLanes ==
  ASSUME LanesAssumption, NEW w \in SUBSET Positions, NEW bytes \in Bytes, NEW byte \in Half,
         \A l \in LaneIndexes, b \in 0 .. 7 : 8 * l + b \in w <=> b \in BitsOf(bytes[l + 1])
  PROVE  /\ Le(w, byte) \subseteq Positions
         /\ \A l \in LaneIndexes, b \in 0 .. 7 :
              8 * l + b \in Le(w, byte) <=> b = 7 /\ bytes[l + 1] <= byte
<1> DEFINE x == Broadcast(byte) \cup High
           y == w \ High
<1>1. byte \in Byte
  BY DEF Half, Byte
<1>2. y \in SUBSET Positions /\ x \in SUBSET Positions
  BY <1>1, BroadcastIs, HighIs
<1>3. ASSUME NEW l \in LaneIndexes, NEW b \in 0 .. 7
      PROVE  /\ 8 * l + b \in x <=> b = 7 \/ b \in BitsOf(byte)
             /\ 8 * l + b \in y <=> b # 7 /\ b \in BitsOf(bytes[l + 1])
  BY <1>1, BroadcastIs, HighIs
<1>4. \A l \in LaneIndexes : 8 * l + 7 \in x /\ 8 * l + 7 \notin y
  <2>1. 7 \in 0 .. 7
    OBVIOUS
  <2> HIDE DEF x, y
  <2> QED BY <1>3, <2>1
<1>5. /\ Minus(x, y) \subseteq Positions
      /\ \A l \in LaneIndexes, b \in 0 .. 7 :
           8 * l + b \in Minus(x, y) <=> (8 * l + b \in x <=> (8 * l + b \in y <=> Borrows(x, y, l, b)))
  <2> HIDE DEF x, y
  <2> QED BY <1>2, <1>4, MinusIs
<1> HIDE DEF x, y
<1>6. ASSUME NEW l \in LaneIndexes, NEW b \in 0 .. 7
      PROVE  8 * l + b \in Le(w, byte) <=> b = 7 /\ bytes[l + 1] <= byte
  <2> DEFINE v == bytes[l + 1]
             u == v % 128
  <2>1. v \in Byte
    BY LaneByte
  <2>2. u \in Half /\ BitsOf(u) = BitsOf(v) \ {7} /\ (7 \in BitsOf(v) <=> v >= 128)
    <3> HIDE DEF v
    <3> QED BY <2>1, LowBits
  <2>3. (v < 128 => u = v) /\ u <= v
    <3> HIDE DEF v
    <3> QED BY <2>1 DEF Byte, Half
  <2>4. \A j \in 0 .. 6 : (8 * l + j \in x <=> j \in BitsOf(byte)) /\ (8 * l + j \in y <=> j \in BitsOf(u))
    <3>1. \A j \in 0 .. 6 : j \in 0 .. 7 /\ j # 7
      OBVIOUS
    <3> HIDE DEF u
    <3> QED BY <1>3, <2>2, <3>1
  <2>5. Borrows(x, y, l, 7) <=> ByteOwes(byte, u, 7)
    <3>1. 7 \in 0 .. 7
      OBVIOUS
    <3> HIDE DEF u
    <3> QED BY <2>4, <3>1, LaneOwes
  <2> HIDE DEF u, v
  <2>6. 8 * l + b \in Le(w, byte) <=>
          b = 7 /\ 8 * l + b \in Positions /\ 8 * l + b \notin w /\ 8 * l + b \in Minus(x, y)
    BY HighIs DEF Le, Not, x, y
  <2>7. CASE b = 7
    <3>1. 8 * l + 7 \in Minus(x, y) <=> ~ByteOwes(byte, u, 7)
      <4>1. 8 * l + 7 \in Minus(x, y) <=> (8 * l + 7 \in x <=> (8 * l + 7 \in y <=> Borrows(x, y, l, 7)))
        BY <1>5, <2>7
      <4> QED BY <1>4, <2>5, <4>1
    <3>2. ByteOwes(byte, u, 7) <=> byte < u
      BY <2>2, Difference
    <3>3. 8 * l + 7 \in w <=> v >= 128
      BY <2>2, <2>7 DEF v
    <3>4. v <= byte <=> ~(v >= 128) /\ ~(byte < u)
      BY <2>1, <2>2, <2>3 DEF Half, Byte
    <3>5. 8 * l + 7 \in Positions
      BY <2>7, SpotOf
    <3> QED BY <2>6, <2>7, <3>1, <3>2, <3>3, <3>4, <3>5 DEF v
  <2> QED BY <2>6, <2>7
<1>7. Le(w, byte) \subseteq Positions
  BY HighIs DEF Le
<1> QED BY <1>6, <1>7

LEMMA LeIs ==
  ASSUME LanesAssumption, NEW w, NEW bytes \in Bytes, Spells(w, bytes), NEW byte \in Half
  PROVE  /\ Le(w, byte) \subseteq Positions
         /\ \A l \in LaneIndexes, b \in 0 .. 7 :
              8 * l + b \in Le(w, byte) <=> b = 7 /\ bytes[l + 1] <= byte
BY LeLanes DEF Spells

(* A byte with the bit of a lower case letter set.                         *)
Folded(v) == IF 5 \in BitsOf(v) THEN v ELSE v + 32

LEMMA FoldedIs ==
  ASSUME NEW v \in Byte
  PROVE  Folded(v) \in Byte /\ BitsOf(Folded(v)) = BitsOf(v) \cup {5}
<1> DEFINE f == Folded(v)
<1>0. 5 \in BitsOf(v) <=> (v \div 32) % 2 = 1
  BY ByteBits
<1>1. /\ f \in Byte
      /\ f % 2 = v % 2 /\ (f \div 2) % 2 = (v \div 2) % 2 /\ (f \div 4) % 2 = (v \div 4) % 2
      /\ (f \div 8) % 2 = (v \div 8) % 2 /\ (f \div 16) % 2 = (v \div 16) % 2
      /\ (f \div 32) % 2 = 1 /\ (f \div 64) % 2 = (v \div 64) % 2 /\ (f \div 128) % 2 = (v \div 128) % 2
  BY <1>0 DEF Byte, Folded
<1> HIDE DEF f
<1>2. BitsOf(f) \subseteq 0 .. 7 /\ BitsOf(v) \subseteq 0 .. 7 /\ 5 \in BitsOf(f)
  BY <1>1, ByteBits
<1>3. ASSUME NEW b \in 0 .. 7 PROVE b \in BitsOf(f) <=> b \in BitsOf(v) \/ b = 5
  <2>1. b = 0 \/ b = 1 \/ b = 2 \/ b = 3 \/ b = 4 \/ b = 5 \/ b = 6 \/ b = 7
    OBVIOUS
  <2> QED BY <1>1, <2>1, ByteBits
<1>4. BitsOf(f) = BitsOf(v) \cup {5}
  BY <1>2, <1>3
<1> QED BY <1>1, <1>4 DEF f

Letter(v) == Lower(v) \in 97 .. 122

LEMMA LetterIs ==
  ASSUME NEW v \in Byte
  PROVE  Letter(v) <=> v < 128 /\ Folded(v) % 128 >= 97 /\ Folded(v) % 128 <= 122
<1>1. 5 \in BitsOf(v) <=> (v \div 32) % 2 = 1
  BY ByteBits
<1> QED BY <1>1 DEF Byte, Folded, Letter, Lower

LEMMA AlphaIs ==
  ASSUME LanesAssumption, NEW w, NEW bytes \in Bytes, Spells(w, bytes)
  PROVE  /\ Alpha(w) \subseteq Positions
         /\ \A l \in LaneIndexes, b \in 0 .. 7 : 8 * l + b \in Alpha(w) <=> b = 7 /\ Letter(bytes[l + 1])
<1> DEFINE folded == w \cup Broadcast(32)
           low == folded \cap Low7
           halves == [n \in 1 .. Lanes |-> Folded(bytes[n]) % 128]
<1>1. BitsOf(32) = {5} /\ 32 \in Byte /\ 97 \in Half /\ 122 \in Half
  <2>1. 32 \in Byte
    BY DEF Byte
  <2> QED BY <2>1, ByteBits DEF Half
<1>2. w \in SUBSET Positions /\ folded \in SUBSET Positions /\ low \in SUBSET Positions
  BY <1>1, BroadcastIs DEF Spells
<1>3. ASSUME NEW l \in LaneIndexes, NEW b \in 0 .. 7
      PROVE  /\ 8 * l + b \in folded <=> b \in BitsOf(bytes[l + 1]) \/ b = 5
             /\ 8 * l + b \in low <=> 8 * l + b \in folded /\ b # 7
  BY <1>1, BroadcastIs, HighIs DEF Spells
<1>4. halves \in Bytes
  <2>1. \A n \in 1 .. Lanes : Folded(bytes[n]) % 128 \in Byte
    BY FoldedIs, LowBits DEF Bytes
  <2> QED BY <2>1 DEF Bytes
<1>5. \A l \in LaneIndexes : halves[l + 1] = Folded(bytes[l + 1]) % 128
  BY LaneByte
<1> HIDE DEF folded, low, halves
<1>6. Spells(low, halves)
  <2> SUFFICES ASSUME NEW l \in LaneIndexes, NEW b \in 0 .. 7
               PROVE  8 * l + b \in low <=> b \in BitsOf(halves[l + 1])
    BY <1>2 DEF Spells
  <2>1. BitsOf(halves[l + 1]) = (BitsOf(bytes[l + 1]) \cup {5}) \ {7}
    BY <1>5, LaneByte, FoldedIs, LowBits
  <2> QED BY <1>3, <2>1
<1>8. PICK least \in Half, most \in Half : least = 97 /\ most = 122
  BY <1>1
<1>9. \A l \in LaneIndexes, b \in 0 .. 7 :
        /\ 8 * l + b \in Ge(low, least) <=> b = 7 /\ halves[l + 1] >= least
        /\ 8 * l + b \in Sub7(low, least) <=> b # 7 /\ b \in BitsOf((halves[l + 1] - least) % 128)
  BY ONLY LanesAssumption, <1>4, <1>6, GeIs
<1>10. \A l \in LaneIndexes, b \in 0 .. 7 : 8 * l + b \in Le(low, most) <=> b = 7 /\ halves[l + 1] <= most
  BY ONLY LanesAssumption, <1>4, <1>6, LeIs
<1>7. ASSUME NEW l \in LaneIndexes, NEW b \in 0 .. 7
      PROVE  8 * l + b \in Alpha(w) <=> b = 7 /\ Letter(bytes[l + 1])
  <2>1. 8 * l + b \in Ge(low, 97) <=> b = 7 /\ halves[l + 1] >= 97
    BY <1>8, <1>9
  <2>2. 8 * l + b \in Le(low, 122) <=> b = 7 /\ halves[l + 1] <= 122
    BY <1>8, <1>10
  <2>3. 8 * l + b \in Alpha(w) <=>
          8 * l + b \in Ge(low, 97) /\ 8 * l + b \in Le(low, 122) /\ 8 * l + b \in Positions /\ 8 * l + b \notin folded
    BY DEF Alpha, Not, folded, low
  <2>4. 8 * l + 7 \in folded <=> bytes[l + 1] >= 128
    BY <1>3, LaneByte, LowBits
  <2>5. bytes[l + 1] \in Byte /\ 8 * l + b \in Positions
    BY LaneByte, SpotOf
  <2>6. Letter(bytes[l + 1]) <=> ~(bytes[l + 1] >= 128) /\ halves[l + 1] >= 97 /\ halves[l + 1] <= 122
    <3>1. bytes[l + 1] < 128 <=> ~(bytes[l + 1] >= 128)
      BY <2>5 DEF Byte
    <3> QED BY <1>5, <2>5, <3>1, LetterIs
  <2> QED BY <2>1, <2>2, <2>3, <2>4, <2>5, <2>6
<1>11. Alpha(w) \subseteq Positions
  BY DEF Alpha, Not
<1> QED BY <1>7, <1>11

(* The bit of a lower case letter, where there is a letter.                *)
LEMMA CaseBits ==
  ASSUME LanesAssumption, NEW w, NEW bytes \in Bytes, Spells(w, bytes)
  PROVE  \A l \in LaneIndexes, b \in 0 .. 7 :
           8 * l + b \in ShiftDown(Alpha(w), 2) <=> b = 5 /\ Letter(bytes[l + 1])
<1>1. /\ Alpha(w) \subseteq Positions
      /\ \A l \in LaneIndexes, b \in 0 .. 7 : 8 * l + b \in Alpha(w) <=> b = 7 /\ Letter(bytes[l + 1])
  BY AlphaIs
<1> SUFFICES ASSUME NEW l \in LaneIndexes, NEW b \in 0 .. 7
             PROVE  8 * l + b \in ShiftDown(Alpha(w), 2) <=> b = 5 /\ Letter(bytes[l + 1])
  OBVIOUS
<1>2. ASSUME NEW i \in Alpha(w) PROVE \E m \in LaneIndexes : i = 8 * m + 7 /\ Letter(bytes[m + 1])
  <2>1. PICK m \in LaneIndexes, c \in 0 .. 7 : i = 8 * m + c
    BY <1>1, Spot
  <2> QED BY <1>1, <2>1
<1>3. ASSUME 8 * l + b \in ShiftDown(Alpha(w), 2) PROVE b = 5 /\ Letter(bytes[l + 1])
  <2>1. PICK i \in Alpha(w) : 8 * l + b = i - 2
    BY <1>3 DEF ShiftDown
  <2>2. PICK m \in LaneIndexes : i = 8 * m + 7 /\ Letter(bytes[m + 1])
    BY <1>2
  <2>3. m \in Int /\ l \in Int
    BY LanesNat
  <2>4. m = l /\ b = 5
    BY <2>1, <2>2, <2>3
  <2> QED BY <2>2, <2>4
<1>4. ASSUME b = 5, Letter(bytes[l + 1]) PROVE 8 * l + b \in ShiftDown(Alpha(w), 2)
  <2>1. 7 \in 0 .. 7 /\ l \in Int
    BY LanesNat
  <2>2. 8 * l + 7 \in Alpha(w)
    BY <1>1, <1>4, <2>1
  <2>3. 8 * l + b = (8 * l + 7) - 2
    BY <1>4, <2>1
  <2>4. 8 * l + b \in Positions
    BY SpotOf
  <2> QED BY <2>2, <2>3, <2>4 DEF ShiftDown
<1> QED BY <1>3, <1>4

LEMMA LowerIs ==
  ASSUME NEW v \in Byte
  PROVE  /\ Lower(v) \in Byte
         /\ Letter(v) => Lower(v) = Folded(v)
         /\ ~Letter(v) => Lower(v) = v
<1>1. 5 \in BitsOf(v) <=> (v \div 32) % 2 = 1
  BY ByteBits
<1> QED BY <1>1 DEF Byte, Folded, Letter, Lower

LEMMA SameLetter ==
  ASSUME NEW v \in Byte, NEW u \in Byte
  PROVE  /\ Letter(v) => (Folded(v) = Folded(u) <=> Lower(v) = Lower(u))
         /\ ~Letter(v) => (v = u <=> v = u \/ Lower(v) = Lower(u))
<1>1. (5 \in BitsOf(v) <=> (v \div 32) % 2 = 1) /\ (5 \in BitsOf(u) <=> (u \div 32) % 2 = 1)
  BY ByteBits
<1> QED BY <1>1 DEF Byte, Folded, Letter, Lower

LEMMA EqIs ==
  ASSUME LanesAssumption, NEW w, NEW bytes \in Bytes, Spells(w, bytes), NEW byte \in Byte, NEW ci \in BOOLEAN
  PROVE  /\ Eq(w, byte, ci) \subseteq Positions
         /\ \A l \in LaneIndexes, b \in 0 .. 7 :
              8 * l + b \in Eq(w, byte, ci) <=>
                b = 7 /\ (bytes[l + 1] = byte \/ (ci /\ Lower(bytes[l + 1]) = Lower(byte)))
<1> DEFINE x == XorCase(w, Broadcast(byte), ci)
<1>1. x \in SUBSET Positions
  <2>1. Broadcast(byte) \subseteq Positions
    BY BroadcastIs
  <2> QED BY <2>1 DEF Spells, XorCase, Xor
<1>2. ASSUME NEW l \in LaneIndexes, NEW b \in 0 .. 7
      PROVE  8 * l + b \in x <=> /\ ~(b \in BitsOf(bytes[l + 1]) <=> b \in BitsOf(byte))
                                /\ ~(ci /\ b = 5 /\ Letter(bytes[l + 1]))
  <2>1. 8 * l + b \in Xor(w, Broadcast(byte)) <=> ~(b \in BitsOf(bytes[l + 1]) <=> b \in BitsOf(byte))
    <3>1. 8 * l + b \in w <=> b \in BitsOf(bytes[l + 1])
      BY DEF Spells
    <3>2. 8 * l + b \in Broadcast(byte) <=> b \in BitsOf(byte)
      BY BroadcastIs
    <3> QED BY <3>1, <3>2 DEF Xor
  <2>2. 8 * l + b \in ShiftDown(Alpha(w), 2) <=> b = 5 /\ Letter(bytes[l + 1])
    BY CaseBits
  <2>3. 8 * l + b \in x <=> 8 * l + b \in Xor(w, Broadcast(byte)) /\ ~(ci /\ 8 * l + b \in ShiftDown(Alpha(w), 2))
    BY DEF XorCase
  <2> QED BY <2>1, <2>2, <2>3
<1>3. /\ HasZero(x) \subseteq Positions
      /\ \A l \in LaneIndexes, b \in 0 .. 7 :
           8 * l + b \in HasZero(x) <=> b = 7 /\ \A c \in 0 .. 7 : 8 * l + c \notin x
  <2> HIDE DEF x
  <2> QED BY <1>1, HasZeroIs
<1> HIDE DEF x
<1>4. ASSUME NEW l \in LaneIndexes
      PROVE  (\A c \in 0 .. 7 : 8 * l + c \notin x)
               <=> bytes[l + 1] = byte \/ (ci /\ Lower(bytes[l + 1]) = Lower(byte))
  <2> DEFINE v == bytes[l + 1]
  <2>1. v \in Byte
    BY LaneByte
  <2>2. (\A c \in 0 .. 7 : 8 * l + c \notin x) <=>
          \A c \in 0 .. 7 : (c \in BitsOf(v) <=> c \in BitsOf(byte)) \/ (ci /\ c = 5 /\ Letter(v))
    BY <1>2
  <2> HIDE DEF v
  <2>3. BitsOf(v) \subseteq 0 .. 7 /\ BitsOf(byte) \subseteq 0 .. 7
    BY <2>1, ByteBits
  <2>4. CASE ci /\ Letter(v)
    <3>1. (\A c \in 0 .. 7 : 8 * l + c \notin x) <=> BitsOf(v) \cup {5} = BitsOf(byte) \cup {5}
      <4>1. (\A c \in 0 .. 7 : (c \in BitsOf(v) <=> c \in BitsOf(byte)) \/ c = 5)
              <=> BitsOf(v) \cup {5} = BitsOf(byte) \cup {5}
        BY <2>3
      <4> QED BY <2>2, <2>4, <4>1
    <3>2. BitsOf(v) \cup {5} = BitsOf(byte) \cup {5} <=> Folded(v) = Folded(byte)
      BY <2>1, FoldedIs, SameByte
    <3>3. v = byte => Lower(v) = Lower(byte)
      OBVIOUS
    <3> QED BY <2>1, <2>4, <3>1, <3>2, <3>3, SameLetter DEF v
  <2>5. CASE ~(ci /\ Letter(v))
    <3>1. (\A c \in 0 .. 7 : 8 * l + c \notin x) <=> BitsOf(v) = BitsOf(byte)
      <4>1. (\A c \in 0 .. 7 : (c \in BitsOf(v) <=> c \in BitsOf(byte))) <=> BitsOf(v) = BitsOf(byte)
        BY <2>3
      <4> QED BY <2>2, <2>5, <4>1
    <3>2. BitsOf(v) = BitsOf(byte) <=> v = byte
      BY <2>1, SameByte
    <3>3. ci => (v = byte <=> v = byte \/ Lower(v) = Lower(byte))
      BY <2>1, <2>5, SameLetter
    <3> QED BY <3>1, <3>2, <3>3 DEF v
  <2> QED BY <2>4, <2>5
<1>5. Eq(w, byte, ci) = HasZero(x)
  BY DEF Eq, x
<1> QED BY <1>3, <1>4, <1>5

LEMMA FamEqIs ==
  ASSUME LanesAssumption, NEW w, NEW bytes \in Bytes, Spells(w, bytes), NEW byte \in Byte, NEW fam \in Byte
  PROVE  /\ FamEq(w, byte, fam) \subseteq Positions
         /\ \A l \in LaneIndexes, b \in 0 .. 7 :
              8 * l + b \in FamEq(w, byte, fam) <=>
                b = 7 /\ \A c \in BitsOf(fam) : c \in BitsOf(bytes[l + 1]) <=> c \in BitsOf(byte)
<1> DEFINE x == Xor(w \cap Broadcast(fam), Broadcast(byte) \cap Broadcast(fam))
<1>1. x \in SUBSET Positions
  BY BroadcastIs DEF Xor
<1>2. ASSUME NEW l \in LaneIndexes, NEW b \in 0 .. 7
      PROVE  8 * l + b \in x <=> b \in BitsOf(fam) /\ ~(b \in BitsOf(bytes[l + 1]) <=> b \in BitsOf(byte))
  <2>1. 8 * l + b \in w <=> b \in BitsOf(bytes[l + 1])
    BY DEF Spells
  <2>2. 8 * l + b \in Broadcast(byte) <=> b \in BitsOf(byte)
    BY BroadcastIs
  <2>3. 8 * l + b \in Broadcast(fam) <=> b \in BitsOf(fam)
    BY BroadcastIs
  <2> QED BY <2>1, <2>2, <2>3 DEF Xor
<1>3. BitsOf(fam) \subseteq 0 .. 7
  BY ByteBits
<1> HIDE DEF x
<1>4. /\ HasZero(x) \subseteq Positions
      /\ \A l \in LaneIndexes, b \in 0 .. 7 :
           8 * l + b \in HasZero(x) <=> b = 7 /\ \A c \in 0 .. 7 : 8 * l + c \notin x
  BY <1>1, HasZeroIs
<1>5. \A l \in LaneIndexes :
        (\A c \in 0 .. 7 : 8 * l + c \notin x)
          <=> \A c \in BitsOf(fam) : c \in BitsOf(bytes[l + 1]) <=> c \in BitsOf(byte)
  BY <1>2, <1>3
<1>6. FamEq(w, byte, fam) = HasZero(x)
  BY DEF FamEq, x
<1> QED BY <1>4, <1>5, <1>6

LEMMA FamiliesAre ==
  ASSUME NEW v \in Byte
  PROVE  /\ v % 128 \in 64 .. 95 <=> \A c \in BitsOf(96) : c \in BitsOf(v) <=> c \in BitsOf(64)
         /\ v \in 48 .. 63 <=> \A c \in BitsOf(240) : c \in BitsOf(v) <=> c \in BitsOf(48)
<1>1. 96 \in Byte /\ 64 \in Byte /\ 240 \in Byte /\ 48 \in Byte
  BY DEF Byte
<1>2. BitsOf(96) = {5, 6} /\ BitsOf(64) = {6}
  BY <1>1, ByteBits
<1>3. BitsOf(240) = {4, 5, 6, 7} /\ BitsOf(48) = {4, 5}
  BY <1>1, ByteBits
<1>4. v % 128 \in 64 .. 95 <=> (v \div 32) % 2 = 0 /\ (v \div 64) % 2 = 1
  BY DEF Byte
<1>5. v \in 48 .. 63 <=> /\ (v \div 16) % 2 = 1 /\ (v \div 32) % 2 = 1
                         /\ (v \div 64) % 2 = 0 /\ (v \div 128) % 2 = 0
  BY DEF Byte
<1>6. (v \div 16) % 2 \in 0 .. 1 /\ (v \div 32) % 2 \in 0 .. 1 /\ (v \div 64) % 2 \in 0 .. 1 /\ (v \div 128) % 2 \in 0 .. 1
  BY DEF Byte
<1>7. /\ 4 \in BitsOf(v) <=> (v \div 16) % 2 = 1
      /\ 5 \in BitsOf(v) <=> (v \div 32) % 2 = 1
      /\ 6 \in BitsOf(v) <=> (v \div 64) % 2 = 1
      /\ 7 \in BitsOf(v) <=> (v \div 128) % 2 = 1
  BY ByteBits
<1>8. v % 128 \in 64 .. 95 <=> 5 \notin BitsOf(v) /\ 6 \in BitsOf(v)
  BY <1>4, <1>6, <1>7
<1>9. v \in 48 .. 63 <=> 4 \in BitsOf(v) /\ 5 \in BitsOf(v) /\ 6 \notin BitsOf(v) /\ 7 \notin BitsOf(v)
  BY <1>5, <1>6, <1>7
<1>10. v % 128 \in 64 .. 95 <=> \A c \in BitsOf(96) : c \in BitsOf(v) <=> c \in BitsOf(64)
  BY <1>2, <1>8
<1>11. v \in 48 .. 63 <=> \A c \in BitsOf(240) : c \in BitsOf(v) <=> c \in BitsOf(48)
  BY <1>3, <1>9
<1> QED BY <1>10, <1>11

LEMMA FoldLowerIs ==
  ASSUME LanesAssumption, NEW w, NEW bytes \in Bytes, Spells(w, bytes)
  PROVE  Spells(FoldLower(w), [n \in 1 .. Lanes |-> Lower(bytes[n])])
<1> DEFINE lower == [n \in 1 .. Lanes |-> Lower(bytes[n])]
<1>1. FoldLower(w) \subseteq Positions
  BY DEF FoldLower, ShiftDown, Spells
<1>2. ASSUME NEW l \in LaneIndexes, NEW b \in 0 .. 7
      PROVE  8 * l + b \in FoldLower(w) <=> b \in BitsOf(lower[l + 1])
  <2> DEFINE v == bytes[l + 1]
  <2>1. v \in Byte /\ lower[l + 1] = Lower(v)
    BY LaneByte
  <2>2. 8 * l + b \in FoldLower(w) <=> 8 * l + b \in w \/ 8 * l + b \in ShiftDown(Alpha(w), 2)
    BY DEF FoldLower
  <2>3. 8 * l + b \in w <=> b \in BitsOf(v)
    BY DEF Spells
  <2>4. 8 * l + b \in ShiftDown(Alpha(w), 2) <=> b = 5 /\ Letter(v)
    BY CaseBits
  <2>5. BitsOf(Folded(v)) = BitsOf(v) \cup {5}
    BY <2>1, FoldedIs
  <2> HIDE DEF v, lower
  <2> QED BY <2>1, <2>2, <2>3, <2>4, <2>5, LowerIs
<1> QED BY <1>1, <1>2 DEF Spells
-----------------------------------------------------------------------------
(* The answers of the lane view.                                           *)

LEMMA HighLanes ==
  ASSUME LanesAssumption, NEW S \in SUBSET Positions, NEW K \in SUBSET LaneIndexes,
         \A l \in LaneIndexes, b \in 0 .. 7 : 8 * l + b \in S <=> b = 7 /\ l \in K
  PROVE  S = {8 * l + 7 : l \in K}
<1>1. ASSUME NEW i \in S PROVE i \in {8 * l + 7 : l \in K}
  <2>1. PICK l \in LaneIndexes, b \in 0 .. 7 : i = 8 * l + b
    BY Spot
  <2> QED BY <2>1
<1>2. ASSUME NEW l \in K PROVE 8 * l + 7 \in S
  <2>1. 7 \in 0 .. 7
    OBVIOUS
  <2> QED BY <2>1
<1> QED BY <1>1, <1>2

LEMMA WordOf ==
  ASSUME LanesAssumption, NEW w, NEW bytes \in Bytes, Spells(w, bytes)
  PROVE  w = Word(bytes)
<1>1. Spells(Word(bytes), bytes)
  BY WordIs
<1> QED BY <1>1, SameLanes DEF Spells

(* verbum_scrutor.c: every lane of a word is answered from its own byte,   *)
(* for words of two, four and eight lanes and all bytes beside it.         *)
THEOREM LanesAnswered ==
  ASSUME LanesAssumption, NEW bytes \in Bytes, NEW byte \in Byte, NEW ci \in BOOLEAN
  PROVE  LaneAnswer(bytes, byte, ci) = LaneWanted(bytes, byte, ci)
<1> DEFINE w == Word(bytes)
           Where(K) == {8 * l + 7 : l \in K}
           At(l) == bytes[l + 1]
<1>1. Spells(w, bytes) /\ w \in SUBSET Positions
  BY WordIs DEF Spells
<1> HIDE DEF w
<1>2. HasZero(w) = Where({k \in LaneIndexes : At(k) = 0})
  <2>1. 0 \in Byte /\ BitsOf(0) = {}
    BY ByteBits DEF Byte
  <2>2. ASSUME NEW l \in LaneIndexes PROVE (\A c \in 0 .. 7 : 8 * l + c \notin w) <=> At(l) = 0
    <3>1. At(l) \in Byte
      BY LaneByte
    <3>2. BitsOf(At(l)) \subseteq 0 .. 7 /\ \A c \in 0 .. 7 : 8 * l + c \in w <=> c \in BitsOf(At(l))
      BY <1>1, <3>1, ByteBits DEF Spells
    <3>3. (\A c \in 0 .. 7 : 8 * l + c \notin w) <=> BitsOf(At(l)) = {}
      <4> HIDE DEF At
      <4> QED BY <3>2
    <3> QED BY <2>1, <3>1, <3>3, SameByte
  <2>3. /\ HasZero(w) \subseteq Positions
        /\ \A l \in LaneIndexes, b \in 0 .. 7 :
             8 * l + b \in HasZero(w) <=> b = 7 /\ \A c \in 0 .. 7 : 8 * l + c \notin w
    BY <1>1, HasZeroIs
  <2>4. \A l \in LaneIndexes, b \in 0 .. 7 :
          8 * l + b \in HasZero(w) <=> b = 7 /\ l \in {k \in LaneIndexes : At(k) = 0}
    BY <2>2, <2>3
  <2> QED BY <2>3, <2>4, HighLanes
<1>3. Alpha(w) = Where({k \in LaneIndexes : Letter(At(k))})
  <2>1. /\ Alpha(w) \subseteq Positions
        /\ \A l \in LaneIndexes, b \in 0 .. 7 :
             8 * l + b \in Alpha(w) <=> b = 7 /\ l \in {k \in LaneIndexes : Letter(At(k))}
    BY <1>1, AlphaIs
  <2> QED BY <2>1, HighLanes
<1>4. Eq(w, byte, ci) = Where({k \in LaneIndexes : At(k) = byte \/ (ci /\ Lower(At(k)) = Lower(byte))})
  <2>1. /\ Eq(w, byte, ci) \subseteq Positions
        /\ \A l \in LaneIndexes, b \in 0 .. 7 : 8 * l + b \in Eq(w, byte, ci) <=>
             b = 7 /\ l \in {k \in LaneIndexes : At(k) = byte \/ (ci /\ Lower(At(k)) = Lower(byte))}
    BY <1>1, EqIs
  <2> QED BY <2>1, HighLanes
<1>5. AnyUpper(w) = Where({k \in LaneIndexes : At(k) % 128 \in 64 .. 95})
  <2>1. PICK f \in Byte, c \in Byte : f = 96 /\ c = 64
    BY DEF Byte
  <2>2. /\ FamEq(w, c, f) \subseteq Positions
        /\ \A l \in LaneIndexes, b \in 0 .. 7 : 8 * l + b \in FamEq(w, c, f) <=>
             b = 7 /\ \A h \in BitsOf(f) : h \in BitsOf(bytes[l + 1]) <=> h \in BitsOf(c)
    BY ONLY LanesAssumption, bytes \in Bytes, f \in Byte, c \in Byte, <1>1, FamEqIs
  <2>3. \A l \in LaneIndexes : (\A h \in BitsOf(f) : h \in BitsOf(bytes[l + 1]) <=> h \in BitsOf(c))
                                 <=> l \in {k \in LaneIndexes : At(k) % 128 \in 64 .. 95}
    BY <2>1, LaneByte, FamiliesAre
  <2>4. \A l \in LaneIndexes, b \in 0 .. 7 : 8 * l + b \in FamEq(w, c, f) <=>
             b = 7 /\ l \in {k \in LaneIndexes : At(k) % 128 \in 64 .. 95}
    BY <2>2, <2>3
  <2>5. FamEq(w, c, f) = Where({k \in LaneIndexes : At(k) % 128 \in 64 .. 95})
    BY <2>2, <2>4, HighLanes
  <2> QED BY <2>1, <2>5 DEF AnyUpper
<1>6. AnyDigit(w) = Where({k \in LaneIndexes : At(k) \in 48 .. 63})
  <2>1. PICK f \in Byte, c \in Byte : f = 240 /\ c = 48
    BY DEF Byte
  <2>2. /\ FamEq(w, c, f) \subseteq Positions
        /\ \A l \in LaneIndexes, b \in 0 .. 7 : 8 * l + b \in FamEq(w, c, f) <=>
             b = 7 /\ \A h \in BitsOf(f) : h \in BitsOf(bytes[l + 1]) <=> h \in BitsOf(c)
    BY ONLY LanesAssumption, bytes \in Bytes, f \in Byte, c \in Byte, <1>1, FamEqIs
  <2>3. \A l \in LaneIndexes : (\A h \in BitsOf(f) : h \in BitsOf(bytes[l + 1]) <=> h \in BitsOf(c))
                                 <=> l \in {k \in LaneIndexes : At(k) \in 48 .. 63}
    <3> SUFFICES ASSUME NEW l \in LaneIndexes
                 PROVE  (\A h \in BitsOf(f) : h \in BitsOf(bytes[l + 1]) <=> h \in BitsOf(c)) <=> At(l) \in 48 .. 63
      OBVIOUS
    <3>1. PICK v \in Byte : v = bytes[l + 1]
      BY LaneByte
    <3>2. (\A h \in BitsOf(240) : h \in BitsOf(v) <=> h \in BitsOf(48)) <=> v \in 48 .. 63
      BY FamiliesAre
    <3> QED BY <2>1, <3>1, <3>2
  <2>4. \A l \in LaneIndexes, b \in 0 .. 7 : 8 * l + b \in FamEq(w, c, f) <=>
             b = 7 /\ l \in {k \in LaneIndexes : At(k) \in 48 .. 63}
    BY <2>2, <2>3
  <2>5. FamEq(w, c, f) = Where({k \in LaneIndexes : At(k) \in 48 .. 63})
    BY <2>2, <2>4, HighLanes
  <2> QED BY <2>1, <2>5 DEF AnyDigit
<1>7. FoldLower(w) = Word([n \in 1 .. Lanes |-> Lower(bytes[n])])
  <2> DEFINE lower == [n \in 1 .. Lanes |-> Lower(bytes[n])]
  <2>1. lower \in Bytes
    BY LowerIs DEF Bytes
  <2>2. Spells(FoldLower(w), lower)
    BY <1>1, FoldLowerIs
  <2> HIDE DEF lower
  <2>3. FoldLower(w) = Word(lower)
    BY <2>1, <2>2, WordOf
  <2> QED BY <2>3 DEF lower
<1>8. ASSUME byte < 128
      PROVE  /\ Ge(w, byte) = Where({k \in LaneIndexes : At(k) >= byte})
             /\ Le(w, byte) = Where({k \in LaneIndexes : At(k) <= byte})
             /\ Sub7(w, byte) = Word([n \in 1 .. Lanes |-> (bytes[n] - byte) % 128])
  <2>1. byte \in Half
    BY <1>8 DEF Half, Byte
  <2>2. /\ Ge(w, byte) \subseteq Positions /\ Sub7(w, byte) \subseteq Positions
        /\ \A l \in LaneIndexes, b \in 0 .. 7 :
             /\ 8 * l + b \in Ge(w, byte) <=> b = 7 /\ bytes[l + 1] >= byte
             /\ 8 * l + b \in Sub7(w, byte) <=> b # 7 /\ b \in BitsOf((bytes[l + 1] - byte) % 128)
    BY <1>1, <2>1, GeIs
  <2>3. /\ Le(w, byte) \subseteq Positions
        /\ \A l \in LaneIndexes, b \in 0 .. 7 : 8 * l + b \in Le(w, byte) <=> b = 7 /\ bytes[l + 1] <= byte
    BY <1>1, <2>1, LeIs
  <2>4. Ge(w, byte) = Where({k \in LaneIndexes : At(k) >= byte})
    <3>1. \A l \in LaneIndexes, b \in 0 .. 7 :
            8 * l + b \in Ge(w, byte) <=> b = 7 /\ l \in {k \in LaneIndexes : At(k) >= byte}
      BY <2>2
    <3> QED BY <2>2, <3>1, HighLanes
  <2>5. Le(w, byte) = Where({k \in LaneIndexes : At(k) <= byte})
    <3>1. \A l \in LaneIndexes, b \in 0 .. 7 :
            8 * l + b \in Le(w, byte) <=> b = 7 /\ l \in {k \in LaneIndexes : At(k) <= byte}
      BY <2>3
    <3> QED BY <2>3, <3>1, HighLanes
  <2> DEFINE less == [n \in 1 .. Lanes |-> (bytes[n] - byte) % 128]
  <2>6. less \in Bytes /\ \A n \in 1 .. Lanes : less[n] \in Half
    <3>1. \A n \in 1 .. Lanes : bytes[n] \in Byte
      BY DEF Bytes
    <3>2. \A n \in 1 .. Lanes : (bytes[n] - byte) % 128 \in Half /\ (bytes[n] - byte) % 128 \in Byte
      <4> SUFFICES ASSUME NEW n \in 1 .. Lanes
                   PROVE  (bytes[n] - byte) % 128 \in Half /\ (bytes[n] - byte) % 128 \in Byte
        OBVIOUS
      <4>1. PICK v \in Int : v = bytes[n]
        BY <3>1 DEF Byte
      <4>2. byte \in Int
        BY DEF Byte
      <4>3. (v - byte) % 128 \in Half /\ (v - byte) % 128 \in Byte
        BY ONLY v \in Int, <4>2 DEF Byte, Half
      <4> QED BY <4>1, <4>3
    <3> QED BY <3>2 DEF Bytes
  <2>7. \A l \in LaneIndexes : less[l + 1] = (bytes[l + 1] - byte) % 128 /\ less[l + 1] \in Half /\ 7 \notin BitsOf(less[l + 1])
    <3> SUFFICES ASSUME NEW l \in LaneIndexes
                 PROVE  less[l + 1] = (bytes[l + 1] - byte) % 128 /\ less[l + 1] \in Half /\ 7 \notin BitsOf(less[l + 1])
      OBVIOUS
    <3>1. l + 1 \in 1 .. Lanes
      BY LaneByte
    <3>2. less[l + 1] = (bytes[l + 1] - byte) % 128
      BY <3>1
    <3>3. less[l + 1] \in Half /\ less[l + 1] \in Byte
      BY <2>6, <3>1 DEF Bytes
    <3> HIDE DEF less
    <3>4. ~(less[l + 1] >= 128)
      BY <3>3 DEF Half
    <3> QED BY <3>2, <3>3, <3>4, LowBits
  <2> HIDE DEF less
  <2>8. Spells(Sub7(w, byte), less)
    <3>1. \A l \in LaneIndexes, b \in 0 .. 7 : 8 * l + b \in Sub7(w, byte) <=> b \in BitsOf(less[l + 1])
      <4> SUFFICES ASSUME NEW l \in LaneIndexes, NEW b \in 0 .. 7
                   PROVE  8 * l + b \in Sub7(w, byte) <=> b \in BitsOf(less[l + 1])
        OBVIOUS
      <4>1. 8 * l + b \in Sub7(w, byte) <=> b # 7 /\ b \in BitsOf((bytes[l + 1] - byte) % 128)
        BY <2>2
      <4>2. less[l + 1] = (bytes[l + 1] - byte) % 128 /\ 7 \notin BitsOf(less[l + 1])
        BY <2>7
      <4> QED BY <4>1, <4>2
    <3> QED BY <2>2, <3>1 DEF Spells
  <2>9. Sub7(w, byte) = Word(less)
    BY <2>6, <2>8, WordOf
  <2> QED BY <2>4, <2>5, <2>9 DEF less
<1>9. LaneAnswer(bytes, byte, ci) =
        [ge |-> IF byte < 128 THEN Ge(w, byte) ELSE {}, le |-> IF byte < 128 THEN Le(w, byte) ELSE {},
         sub7 |-> IF byte < 128 THEN Sub7(w, byte) ELSE {},
         zero |-> HasZero(w), alpha |-> Alpha(w), eq |-> Eq(w, byte, ci),
         upper |-> AnyUpper(w), digit |-> AnyDigit(w), lower |-> FoldLower(w)]
  BY DEF LaneAnswer, w
<1>10. LaneWanted(bytes, byte, ci) =
        [ge |-> IF byte < 128 THEN Where({k \in LaneIndexes : At(k) >= byte}) ELSE {},
         le |-> IF byte < 128 THEN Where({k \in LaneIndexes : At(k) <= byte}) ELSE {},
         sub7 |-> IF byte < 128 THEN Word([n \in 1 .. Lanes |-> (bytes[n] - byte) % 128]) ELSE {},
         zero |-> Where({k \in LaneIndexes : At(k) = 0}),
         alpha |-> Where({k \in LaneIndexes : Letter(At(k))}),
         eq |-> Where({k \in LaneIndexes : At(k) = byte \/ (ci /\ Lower(At(k)) = Lower(byte))}),
         upper |-> Where({k \in LaneIndexes : At(k) % 128 \in 64 .. 95}),
         digit |-> Where({k \in LaneIndexes : At(k) \in 48 .. 63}),
         lower |-> Word([n \in 1 .. Lanes |-> Lower(bytes[n])])]
  BY DEF LaneWanted, Letter
<1> HIDE DEF Where
<1> QED BY <1>2, <1>3, <1>4, <1>5, <1>6, <1>7, <1>8, <1>9, <1>10

-----------------------------------------------------------------------------
(* Masks: the bit 7 of some lanes.                                         *)

Marks(lanes) == InLanes(lanes, {7})

LEMMA MarksAre ==
  ASSUME LanesAssumption, NEW K \in SUBSET LaneIndexes
  PROVE  /\ Marks(K) \in SUBSET Positions
         /\ \A l \in LaneIndexes, b \in 0 .. 7 : 8 * l + b \in Marks(K) <=> b = 7 /\ l \in K
<1>1. {7} \in SUBSET (0 .. 7)
  OBVIOUS
<1> QED BY <1>1, InLanesIs DEF Marks

LEMMA MarksOf ==
  ASSUME LanesAssumption, NEW S \in SUBSET Positions, NEW K \in SUBSET LaneIndexes,
         \A l \in LaneIndexes, b \in 0 .. 7 : 8 * l + b \in S <=> b = 7 /\ l \in K
  PROVE  S = Marks(K)
<1>1. /\ Marks(K) \in SUBSET Positions
      /\ \A l \in LaneIndexes, b \in 0 .. 7 : 8 * l + b \in Marks(K) <=> b = 7 /\ l \in K
  BY MarksAre
<1>2. \A l \in LaneIndexes, b \in 0 .. 7 : 8 * l + b \in S <=> 8 * l + b \in Marks(K)
  BY <1>1
<1> QED BY <1>1, <1>2, SameLanes

LEMMA MarksSets ==
  ASSUME LanesAssumption, NEW K \in SUBSET LaneIndexes, NEW J \in SUBSET LaneIndexes
  PROVE  /\ Marks(K) \cap Marks(J) = Marks(K \cap J)
         /\ Marks(K) \cup Marks(J) = Marks(K \cup J)
         /\ Marks(K) \ Marks(J) = Marks(K \ J)
         /\ High = Marks(LaneIndexes)
         /\ Not(Marks(K)) \cap High = Marks(LaneIndexes \ K)
<1>1. /\ Marks(K) \in SUBSET Positions
      /\ \A l \in LaneIndexes, b \in 0 .. 7 : 8 * l + b \in Marks(K) <=> b = 7 /\ l \in K
  BY MarksAre
<1>2. /\ Marks(J) \in SUBSET Positions
      /\ \A l \in LaneIndexes, b \in 0 .. 7 : 8 * l + b \in Marks(J) <=> b = 7 /\ l \in J
  BY MarksAre
<1>3. High \in SUBSET Positions /\ \A l \in LaneIndexes, b \in 0 .. 7 : 8 * l + b \in High <=> b = 7
  BY HighIs
<1>4. Marks(K) \cap Marks(J) = Marks(K \cap J)
  <2>1. \A l \in LaneIndexes, b \in 0 .. 7 :
          8 * l + b \in Marks(K) \cap Marks(J) <=> b = 7 /\ l \in K \cap J
    BY <1>1, <1>2
  <2>2. Marks(K) \cap Marks(J) \in SUBSET Positions /\ K \cap J \in SUBSET LaneIndexes
    BY <1>1, <1>2
  <2> QED BY <2>1, <2>2, MarksOf
<1>5. Marks(K) \cup Marks(J) = Marks(K \cup J)
  <2>1. \A l \in LaneIndexes, b \in 0 .. 7 :
          8 * l + b \in Marks(K) \cup Marks(J) <=> b = 7 /\ l \in K \cup J
    BY <1>1, <1>2
  <2>2. Marks(K) \cup Marks(J) \in SUBSET Positions /\ K \cup J \in SUBSET LaneIndexes
    BY <1>1, <1>2
  <2> QED BY <2>1, <2>2, MarksOf
<1>6. Marks(K) \ Marks(J) = Marks(K \ J)
  <2>1. \A l \in LaneIndexes, b \in 0 .. 7 :
          8 * l + b \in Marks(K) \ Marks(J) <=> b = 7 /\ l \in K \ J
    BY <1>1, <1>2
  <2>2. Marks(K) \ Marks(J) \in SUBSET Positions /\ K \ J \in SUBSET LaneIndexes
    BY <1>1, <1>2
  <2> QED BY <2>1, <2>2, MarksOf
<1>7. High = Marks(LaneIndexes)
  <2>1. \A l \in LaneIndexes, b \in 0 .. 7 : 8 * l + b \in High <=> b = 7 /\ l \in LaneIndexes
    BY <1>3
  <2> QED BY <1>3, <2>1, MarksOf
<1>8. Not(Marks(K)) \cap High = Marks(LaneIndexes \ K)
  <2>1. Not(Marks(K)) \cap High \in SUBSET Positions
    BY <1>3
  <2>2. \A l \in LaneIndexes, b \in 0 .. 7 : 8 * l + b \in Positions
    BY SpotOf
  <2>3. \A l \in LaneIndexes, b \in 0 .. 7 :
          8 * l + b \in Not(Marks(K)) \cap High <=> b = 7 /\ l \in LaneIndexes \ K
    BY <1>1, <1>3, <2>2 DEF Not
  <2> QED BY <2>1, <2>3, MarksOf
<1> QED BY <1>4, <1>5, <1>6, <1>7, <1>8

(* A word shifted by whole lanes.                                          *)
LEMMA ShiftedLanes ==
  ASSUME LanesAssumption, NEW w \in SUBSET Positions, NEW j \in Nat
  PROVE  /\ ShiftDown(w, 8 * j) \in SUBSET Positions /\ ShiftUp(w, 8 * j) \in SUBSET Positions
         /\ \A l \in LaneIndexes, b \in 0 .. 7 :
              /\ 8 * l + b \in ShiftDown(w, 8 * j) <=> l + j \in LaneIndexes /\ 8 * (l + j) + b \in w
              /\ 8 * l + b \in ShiftUp(w, 8 * j) <=> l - j \in LaneIndexes /\ 8 * (l - j) + b \in w
<1>1. \A i \in w : i \in Int
  BY LanesNat
<1>2. ASSUME NEW l \in LaneIndexes, NEW b \in 0 .. 7
      PROVE  8 * l + b \in ShiftDown(w, 8 * j) <=> l + j \in LaneIndexes /\ 8 * (l + j) + b \in w
  <2>0. 8 * l + b \in Positions
    BY SpotOf
  <2>1. l \in Int /\ 8 * l + b \in Positions
    BY <2>0, LanesNat
  <2>2. 8 * l + b \in ShiftDown(w, 8 * j) <=> 8 * (l + j) + b \in w
    BY <1>1, <2>1 DEF ShiftDown
  <2>3. 8 * (l + j) + b \in Positions => l + j \in LaneIndexes
    BY <2>1, LanesNat
  <2> QED BY <2>2, <2>3
<1>3. ASSUME NEW l \in LaneIndexes, NEW b \in 0 .. 7
      PROVE  8 * l + b \in ShiftUp(w, 8 * j) <=> l - j \in LaneIndexes /\ 8 * (l - j) + b \in w
  <2>0. 8 * l + b \in Positions
    BY SpotOf
  <2>1. l \in Int /\ 8 * l + b \in Positions
    BY <2>0, LanesNat
  <2>2. 8 * l + b \in ShiftUp(w, 8 * j) <=> 8 * (l - j) + b \in w
    BY <1>1, <2>1 DEF ShiftUp
  <2>3. 8 * (l - j) + b \in Positions => l - j \in LaneIndexes
    BY <2>1, LanesNat
  <2> QED BY <2>2, <2>3
<1> QED BY <1>2, <1>3 DEF ShiftDown, ShiftUp

LEMMA ShiftedMarks ==
  ASSUME LanesAssumption, NEW K \in SUBSET LaneIndexes, NEW j \in Nat
  PROVE  /\ ShiftDown(Marks(K), 8 * j) = Marks({l \in LaneIndexes : l + j \in K})
         /\ ShiftUp(Marks(K), 8 * j) = Marks({l \in LaneIndexes : l - j \in K})
<1>1. /\ Marks(K) \in SUBSET Positions
      /\ \A l \in LaneIndexes, b \in 0 .. 7 : 8 * l + b \in Marks(K) <=> b = 7 /\ l \in K
  BY MarksAre
<1>2. /\ ShiftDown(Marks(K), 8 * j) \in SUBSET Positions /\ ShiftUp(Marks(K), 8 * j) \in SUBSET Positions
      /\ \A l \in LaneIndexes, b \in 0 .. 7 :
           /\ 8 * l + b \in ShiftDown(Marks(K), 8 * j) <=> l + j \in LaneIndexes /\ 8 * (l + j) + b \in Marks(K)
           /\ 8 * l + b \in ShiftUp(Marks(K), 8 * j) <=> l - j \in LaneIndexes /\ 8 * (l - j) + b \in Marks(K)
  BY <1>1, ShiftedLanes
<1>3. \A l \in LaneIndexes, b \in 0 .. 7 :
        8 * l + b \in ShiftDown(Marks(K), 8 * j) <=> b = 7 /\ l \in {k \in LaneIndexes : k + j \in K}
  <2> SUFFICES ASSUME NEW l \in LaneIndexes, NEW b \in 0 .. 7
               PROVE  8 * l + b \in ShiftDown(Marks(K), 8 * j) <=> b = 7 /\ l + j \in K
    OBVIOUS
  <2>1. l + j \in LaneIndexes => (8 * (l + j) + b \in Marks(K) <=> b = 7 /\ l + j \in K)
    BY <1>1
  <2> QED BY <1>2, <2>1
<1>4. \A l \in LaneIndexes, b \in 0 .. 7 :
        8 * l + b \in ShiftUp(Marks(K), 8 * j) <=> b = 7 /\ l \in {k \in LaneIndexes : k - j \in K}
  <2> SUFFICES ASSUME NEW l \in LaneIndexes, NEW b \in 0 .. 7
               PROVE  8 * l + b \in ShiftUp(Marks(K), 8 * j) <=> b = 7 /\ l - j \in K
    OBVIOUS
  <2>1. l - j \in LaneIndexes => (8 * (l - j) + b \in Marks(K) <=> b = 7 /\ l - j \in K)
    BY <1>1
  <2> QED BY <1>2, <2>1
<1>5. ShiftDown(Marks(K), 8 * j) = Marks({l \in LaneIndexes : l + j \in K})
  BY <1>2, <1>3, MarksOf
<1>6. ShiftUp(Marks(K), 8 * j) = Marks({l \in LaneIndexes : l - j \in K})
  BY <1>2, <1>4, MarksOf
<1> QED BY <1>5, <1>6

(* The lanes under some lane of K.                                         *)
Under(K) == {l \in LaneIndexes : \E k \in K : l <= k}

LEMMA SmearIs ==
  ASSUME LanesAssumption, NEW K \in SUBSET LaneIndexes
  PROVE  Smear(Marks(K)) = Marks(Under(K))
<1> DEFINE Near(n) == {l \in LaneIndexes : \E j \in 0 .. n - 1 : l + j \in K}
           Shifts == {8, 16, 32, 64}
           Twice(s, shift) == IF shift < 8 * Lanes THEN s \cup ShiftDown(s, shift) ELSE s
           s8 == Twice(Marks(K), 8)
           s16 == Twice(s8, 16)
           s32 == Twice(s16, 32)
           s64 == Twice(s32, 64)
           Body(f, shift) ==
             LET s == IF shift = 8 THEN Marks(K) ELSE f[shift \div 2]
             IN  IF shift < 8 * Lanes THEN s \cup ShiftDown(s, shift) ELSE s
           Folds(f) == f = [shift \in Shifts |-> Body(f, shift)]
           iter == CHOOSE f : Folds(f)
           Four(shift) == IF shift = 8 THEN s8 ELSE IF shift = 16 THEN s16
                          ELSE IF shift = 32 THEN s32 ELSE s64
<1>0. 16 \div 2 = 8 /\ 32 \div 2 = 16 /\ 64 \div 2 = 32
  OBVIOUS
<1>12. \A f : /\ Body(f, 8) = s8 /\ Body(f, 16) = Twice(f[8], 16)
              /\ Body(f, 32) = Twice(f[16], 32) /\ Body(f, 64) = Twice(f[32], 64)
  BY <1>0
<1>13. s16 = Twice(s8, 16) /\ s32 = Twice(s16, 32) /\ s64 = Twice(s32, 64)
  OBVIOUS
<1> HIDE DEF Body
<1>1. Folds([shift \in Shifts |-> Four(shift)])
  <2> DEFINE f == [shift \in Shifts |-> Four(shift)]
  <2>1. f[8] = s8 /\ f[16] = s16 /\ f[32] = s32 /\ f[64] = s64
    <3> HIDE DEF s8, s16, s32, s64
    <3> QED OBVIOUS
  <2> HIDE DEF f
  <2>2. \A shift \in Shifts : Four(shift) = Body(f, shift)
    <3> HIDE DEF s8, s16, s32, s64, Twice
    <3> QED BY <2>1, <1>12, <1>13
  <2> HIDE DEF Four, Shifts
  <2>3. [shift \in Shifts |-> Four(shift)] = [shift \in Shifts |-> Body(f, shift)]
    BY <2>2
  <2> QED BY <2>3 DEF f
<1> HIDE DEF Folds, Four
<1>2. Folds(iter)
  BY <1>1
<1> HIDE DEF iter
<1>3. iter[8] = s8 /\ iter[16] = s16 /\ iter[32] = s32 /\ iter[64] = s64
  <2>1. \A shift \in Shifts : iter[shift] = Body(iter, shift)
    <3> HIDE DEF Shifts
    <3> QED BY <1>2 DEF Folds
  <2>2. /\ iter[8] = Body(iter, 8) /\ iter[16] = Body(iter, 16)
        /\ iter[32] = Body(iter, 32) /\ iter[64] = Body(iter, 64)
    BY <2>1
  <2> HIDE DEF s8, s16, s32, s64, Twice
  <2> QED BY <2>2, <1>12, <1>13
<1>4. Smear(Marks(K)) = s64
  <2>1. Smear(Marks(K)) = iter[64]
    BY DEF Smear, iter, Folds, Body
  <2> QED BY <1>3, <2>1
<1>5. ASSUME NEW n \in {1, 2, 4, 8}, NEW m \in Nat, m = 2 * n
      PROVE  Marks(Near(n)) \cup ShiftDown(Marks(Near(n)), 8 * n) = Marks(Near(m))
  <2> DEFINE far == {l \in LaneIndexes : l + n \in Near(n)}
  <2>0. n \in Nat
    OBVIOUS
  <2>1. ShiftDown(Marks(Near(n)), 8 * n) = Marks(far)
    BY <2>0, ShiftedMarks
  <2>2. Near(n) \cup far = Near(m)
    <3>1. ASSUME NEW l \in LaneIndexes, NEW j \in 0 .. m - 1, l + j \in K PROVE l \in Near(n) \cup far
      <4>0. l \in Int
        BY LanesNat
      <4>1. CASE j < n
        BY <4>1, <3>1
      <4>2. CASE j >= n
        <5>1. j - n \in 0 .. n - 1 /\ (l + n) + (j - n) = l + j
          BY <4>0, <4>2, <2>0, <1>5
        <5>2. l + n \in LaneIndexes
          BY <4>0, <4>2, <2>0, <3>1, LanesNat
        <5> QED BY <5>1, <5>2, <3>1
      <4> QED BY <4>1, <4>2, <2>0, <1>5
    <3>2. ASSUME NEW l \in Near(n) PROVE l \in Near(m)
      BY <1>5
    <3>3. ASSUME NEW l \in far PROVE l \in Near(m)
      <4>1. PICK j \in 0 .. n - 1 : (l + n) + j \in K
        OBVIOUS
      <4>2. l \in Int /\ l \in LaneIndexes
        BY LanesNat
      <4>3. n + j \in 0 .. m - 1 /\ l + (n + j) = (l + n) + j
        BY <4>2, <2>0, <1>5
      <4> QED BY <4>1, <4>2, <4>3
    <3> QED BY <3>1, <3>2, <3>3
  <2>3. Near(n) \in SUBSET LaneIndexes /\ far \in SUBSET LaneIndexes
    OBVIOUS
  <2> HIDE DEF far, Near
  <2>4. Marks(Near(n)) \cup Marks(far) = Marks(Near(n) \cup far)
    BY <2>3, MarksSets
  <2> QED BY <2>1, <2>2, <2>4
<1>6. ASSUME NEW n \in Nat, n >= Lanes PROVE Near(n) = Under(K)
  <2>1. ASSUME NEW l \in LaneIndexes, NEW k \in K, l <= k PROVE l \in Near(n)
    <3>1. k - l \in 0 .. n - 1 /\ l + (k - l) = k
      BY <1>6, <2>1, LanesNat
    <3> QED BY <3>1
  <2>2. ASSUME NEW l \in LaneIndexes, NEW j \in 0 .. n - 1, l + j \in K PROVE l \in Under(K)
    <3>1. l <= l + j
      BY <2>2, LanesNat
    <3> QED BY <2>2, <3>1 DEF Under
  <2> QED BY <2>1, <2>2 DEF Under
<1>7. Near(1) = K
  <2>1. \A l \in LaneIndexes : l + 0 = l
    BY LanesNat
  <2>2. 0 .. 1 - 1 = {0}
    OBVIOUS
  <2> QED BY <2>1, <2>2
<1>8. s8 = Marks(Near(2))
  <2>1. Lanes >= 2 /\ Lanes \in Nat
    BY DEF LanesAssumption
  <2>2. s8 = Marks(K) \cup ShiftDown(Marks(K), 8 * 1)
    BY <2>1
  <2>3. Marks(Near(1)) \cup ShiftDown(Marks(Near(1)), 8 * 1) = Marks(Near(2))
    <3> HIDE DEF Near
    <3> QED BY <1>5
  <2> HIDE DEF s8, Near
  <2> QED BY <1>7, <2>2, <2>3
<1> HIDE DEF s8
<1>9. CASE Lanes = 2
  <2>1. s64 = s8
    BY <1>9
  <2> HIDE DEF s64
  <2>2. Near(2) = Under(K)
    <3>1. PICK n \in Nat : n = 2
      OBVIOUS
    <3> HIDE DEF Near
    <3>2. Near(n) = Under(K)
      BY <1>6, <1>9, <3>1
    <3> QED BY <3>1, <3>2
  <2> QED BY <1>4, <1>8, <2>1, <2>2
<1>10. CASE Lanes = 4
  <2>1. s64 = s8 \cup ShiftDown(s8, 16)
    BY <1>10
  <2>2. Marks(Near(2)) \cup ShiftDown(Marks(Near(2)), 16) = Marks(Near(4))
    <3>1. PICK n \in {1, 2, 4, 8}, m \in Nat : n = 2 /\ m = 4
      OBVIOUS
    <3>2. Marks(Near(n)) \cup ShiftDown(Marks(Near(n)), 8 * n) = Marks(Near(m))
      <4> HIDE DEF Near
      <4> QED BY <1>5, <3>1
    <3> HIDE DEF Near
    <3> QED BY <3>1, <3>2
  <2>3. Near(4) = Under(K)
    <3>1. PICK n \in Nat : n = 4
      OBVIOUS
    <3> HIDE DEF Near
    <3>2. Near(n) = Under(K)
      BY <1>6, <1>10, <3>1
    <3> QED BY <3>1, <3>2
  <2> HIDE DEF s64, Near
  <2> QED BY <1>4, <1>8, <2>1, <2>2, <2>3
<1>11. CASE Lanes = 8
  <2>1. s64 = s16 \cup ShiftDown(s16, 32) /\ s16 = s8 \cup ShiftDown(s8, 16)
    BY <1>11
  <2>2. Marks(Near(2)) \cup ShiftDown(Marks(Near(2)), 16) = Marks(Near(4))
    <3>1. PICK n \in {1, 2, 4, 8}, m \in Nat : n = 2 /\ m = 4
      OBVIOUS
    <3>2. Marks(Near(n)) \cup ShiftDown(Marks(Near(n)), 8 * n) = Marks(Near(m))
      <4> HIDE DEF Near
      <4> QED BY <1>5, <3>1
    <3> HIDE DEF Near
    <3> QED BY <3>1, <3>2
  <2>3. Marks(Near(4)) \cup ShiftDown(Marks(Near(4)), 32) = Marks(Near(8))
    <3>1. PICK n \in {1, 2, 4, 8}, m \in Nat : n = 4 /\ m = 8
      OBVIOUS
    <3>2. Marks(Near(n)) \cup ShiftDown(Marks(Near(n)), 8 * n) = Marks(Near(m))
      <4> HIDE DEF Near
      <4> QED BY <1>5, <3>1
    <3> HIDE DEF Near
    <3> QED BY <3>1, <3>2
  <2>4. Near(8) = Under(K)
    <3>1. PICK n \in Nat : n = 8
      OBVIOUS
    <3> HIDE DEF Near
    <3>2. Near(n) = Under(K)
      BY <1>6, <1>11, <3>1
    <3> QED BY <3>1, <3>2
  <2> HIDE DEF s64, s16, Near
  <2> QED BY <1>4, <1>8, <2>1, <2>2, <2>3, <2>4
<1> QED BY <1>9, <1>10, <1>11 DEF LanesAssumption

(* The lanes under every lane of K.                                        *)
Below(K) == {l \in LaneIndexes : \A k \in K : l < k}

(* One less than a mask owes at the places that no mark is below.          *)
LEMMA OneLess ==
  ASSUME LanesAssumption, NEW K \in SUBSET LaneIndexes, NEW l \in LaneIndexes
  PROVE  /\ 8 * l + 7 \in Minus(Marks(K), {0}) <=> (l \in K <=> \E k \in K : k < l)
         /\ Minus(Marks(K), {0}) \in SUBSET Positions
<1> DEFINE x == Marks(K)
           i == 8 * l + 7
<1>0. /\ x \in SUBSET Positions
      /\ \A k \in LaneIndexes, b \in 0 .. 7 : 8 * k + b \in x <=> b = 7 /\ k \in K
  BY MarksAre
<1>1. 7 \in 0 .. 7 /\ 0 \in 0 .. 7 /\ l \in Int /\ l >= 0 /\ 0 \in LaneIndexes /\ 8 * 0 + 0 = 0
  BY LanesNat
<1>2. i \in Positions /\ 0 \in Positions /\ i # 0 /\ 0 < i
  <2>1. 8 * l + 7 \in Positions /\ 8 * 0 + 0 \in Positions
    BY <1>1, SpotOf
  <2> QED BY <1>1, <2>1
<1>3. 0 \notin x /\ (i \in x <=> l \in K)
  <2>1. 8 * 0 + 0 \notin x
    BY <1>0, <1>1
  <2>2. 8 * l + 7 \in x <=> l \in K
    BY <1>0, <1>1
  <2> QED BY <1>1, <2>1, <2>2
<1>4. Owes(x, {0}, i) <=> \A k \in K : ~(k < l)
  <2>1. Owes(x, {0}, i) <=> \A k \in Positions : 0 < k /\ k < i => k \notin x
    <3>1. \A k \in Positions : 0 < k => k # 0
      BY LanesNat
    <3> HIDE DEF x, i
    <3> QED BY <1>2, <1>3, <3>1 DEF Owes
  <2>2. ASSUME \A k \in Positions : 0 < k /\ k < i => k \notin x, NEW k \in K PROVE ~(k < l)
    <3>1. k \in LaneIndexes /\ k \in Int /\ k >= 0
      BY LanesNat
    <3>2. 8 * k + 7 \in Positions /\ 8 * k + 7 \in x
      BY <1>0, <1>1, <3>1, SpotOf
    <3>3. 0 < 8 * k + 7 /\ (k < l => 8 * k + 7 < i)
      BY <1>1, <3>1
    <3> HIDE DEF x, i
    <3> QED BY <2>2, <3>2, <3>3
  <2>3. ASSUME \A k \in K : ~(k < l), NEW j \in Positions, j < i PROVE j \notin x
    <3>1. PICK k \in LaneIndexes, b \in 0 .. 7 : j = 8 * k + b
      BY Spot
    <3>2. k \in Int
      BY LanesNat
    <3>3. b = 7 => k < l
      BY <1>1, <2>3, <3>1, <3>2
    <3> HIDE DEF x, i
    <3> QED BY <1>0, <2>3, <3>1, <3>3
  <2> HIDE DEF x, i
  <2> QED BY <2>1, <2>2, <2>3
<1>5. i \in Minus(x, {0}) <=> (i \in x <=> (i \in {0} <=> Owes(x, {0}, i)))
  <2>1. {0} \in SUBSET Positions
    BY <1>2
  <2> HIDE DEF x, i
  <2> QED BY <1>0, <1>2, <2>1, MinusAt
<1>6. i \notin {0}
  BY <1>2
<1>7. Minus(x, {0}) \in SUBSET Positions
  <2> HIDE DEF x
  <2> QED BY <1>0, <1>2 DEF Minus, Xor
<1>8. i \in Minus(x, {0}) <=> (i \in x <=> ~Owes(x, {0}, i))
  <2> HIDE DEF x, i
  <2> QED BY <1>5, <1>6
<1>9. i \in Minus(x, {0}) <=> (l \in K <=> \E k \in K : k < l)
  <2> HIDE DEF x, i
  <2> QED BY <1>3, <1>4, <1>8
<1> QED BY <1>7, <1>9

LEMMA BelowLoIs ==
  ASSUME LanesAssumption, NEW K \in SUBSET LaneIndexes
  PROVE  /\ BelowLo(Marks(K)) = Marks(Below(K))
         /\ DropLo(Marks(K)) = Marks({l \in K : \E k \in K : k < l})
<1>0. /\ Marks(K) \in SUBSET Positions
      /\ \A l \in LaneIndexes, b \in 0 .. 7 : 8 * l + b \in Marks(K) <=> b = 7 /\ l \in K
  BY MarksAre
<1>1. \A l \in LaneIndexes : 8 * l + 7 \in Minus(Marks(K), {0}) <=> (l \in K <=> \E k \in K : k < l)
  BY OneLess
<1>2. High \in SUBSET Positions /\ \A l \in LaneIndexes, b \in 0 .. 7 : 8 * l + b \in High <=> b = 7
  BY HighIs
<1>3. \A l \in LaneIndexes, b \in 0 .. 7 : 8 * l + b \in Positions
  BY SpotOf
<1>4. BelowLo(Marks(K)) = Marks(Below(K))
  <2>1. ASSUME NEW l \in LaneIndexes
        PROVE  (8 * l + 7 \in Minus(Marks(K), {0}) /\ l \notin K) <=> l \in Below(K)
    <3>1. \A k \in K : k \in Int /\ l \in Int
      BY LanesNat
    <3> QED BY <1>1, <3>1 DEF Below
  <2>2. \A l \in LaneIndexes, b \in 0 .. 7 :
          8 * l + b \in BelowLo(Marks(K)) <=> b = 7 /\ l \in Below(K)
    BY <1>0, <1>2, <1>3, <2>1 DEF BelowLo, Not
  <2>3. BelowLo(Marks(K)) \in SUBSET Positions /\ Below(K) \in SUBSET LaneIndexes
    BY <1>2 DEF BelowLo, Below
  <2> QED BY <2>2, <2>3, MarksOf
<1>5. DropLo(Marks(K)) = Marks({l \in K : \E k \in K : k < l})
  <2>1. \A l \in LaneIndexes, b \in 0 .. 7 :
          8 * l + b \in DropLo(Marks(K)) <=> b = 7 /\ l \in {h \in K : \E k \in K : k < h}
    BY <1>0, <1>1 DEF DropLo
  <2>2. DropLo(Marks(K)) \in SUBSET Positions
    BY <1>0 DEF DropLo
  <2> QED BY <2>1, <2>2, MarksOf
<1> QED BY <1>4, <1>5

LEMMA DropHiIs ==
  ASSUME LanesAssumption, NEW K \in SUBSET LaneIndexes
  PROVE  DropHi(Marks(K)) = Marks({l \in K : \E k \in K : l < k})
<1> DEFINE above == {l \in LaneIndexes : l + 1 \in Under(K)}
<1>0. Under(K) \in SUBSET LaneIndexes /\ above \in SUBSET LaneIndexes
  BY DEF Under
<1>1. ShiftDown(Marks(Under(K)), 8) = Marks(above)
  <2>1. PICK j \in Nat : j = 1
    OBVIOUS
  <2>2. ShiftDown(Marks(Under(K)), 8 * j) = Marks({l \in LaneIndexes : l + j \in Under(K)})
    BY <1>0, ShiftedMarks
  <2> QED BY <2>1, <2>2
<1>2. above = {l \in LaneIndexes : \E k \in K : l < k}
  <2>1. ASSUME NEW l \in LaneIndexes PROVE l + 1 \in Under(K) <=> \E k \in K : l < k
    <3>1. l \in Int /\ \A k \in K : k \in Int /\ k \in LaneIndexes
      BY LanesNat
    <3>2. (\E k \in K : l + 1 <= k) <=> \E k \in K : l < k
      BY <3>1
    <3>3. \A k \in K : l < k => l + 1 \in LaneIndexes
      BY LanesNat
    <3> QED BY <3>2, <3>3 DEF Under
  <2> QED BY <2>1
<1>3. Xor(Marks(Under(K)), Marks(above)) = Marks((Under(K) \ above) \cup (above \ Under(K)))
  <2> HIDE DEF above
  <2>1. /\ Marks(Under(K)) \ Marks(above) = Marks(Under(K) \ above)
        /\ Marks(above) \ Marks(Under(K)) = Marks(above \ Under(K))
    BY <1>0, MarksSets
  <2>2. Under(K) \ above \in SUBSET LaneIndexes /\ above \ Under(K) \in SUBSET LaneIndexes
    BY <1>0
  <2>3. Marks(Under(K) \ above) \cup Marks(above \ Under(K)) = Marks((Under(K) \ above) \cup (above \ Under(K)))
    BY <2>2, MarksSets
  <2> QED BY <2>1, <2>3 DEF Xor
<1> DEFINE top == (Under(K) \ above) \cup (above \ Under(K))
<1>4. top \in SUBSET LaneIndexes
  BY <1>0
<1>5. K \ top = {l \in K : \E k \in K : l < k}
  <2>1. \A k, l \in K : k \in Int /\ l \in Int /\ l <= l /\ l \in LaneIndexes
    BY LanesNat
  <2>2. \A l \in K : l \in Under(K)
    BY <2>1 DEF Under
  <2> HIDE DEF above
  <2> QED BY <1>2, <2>2
<1> HIDE DEF top
<1>6. Marks(K) \ Marks(top) = Marks(K \ top)
  BY <1>4, MarksSets
<1> QED BY <1>1, <1>3, <1>5, <1>6, SmearIs DEF DropHi, top

LEMMA OnesIn ==
  ASSUME LanesAssumption, NEW K \in SUBSET LaneIndexes
  PROVE  /\ InLanes(K, {0}) \in SUBSET Positions
         /\ \A l \in LaneIndexes, b \in 0 .. 7 : 8 * l + b \in InLanes(K, {0}) <=> l \in K /\ b = 0
<1>3. {0} \in SUBSET (0 .. 7)
  OBVIOUS
<1>1. PICK bits \in SUBSET (0 .. 7) : bits = {0}
  BY <1>3
<1>2. /\ InLanes(K, bits) \in SUBSET Positions
      /\ \A l \in LaneIndexes, b \in 0 .. 7 : 8 * l + b \in InLanes(K, bits) <=> l \in K /\ b \in bits
  BY InLanesIs
<1> QED BY <1>1, <1>2

(* The ones under the marks.                                               *)
LEMMA OnesAre ==
  ASSUME LanesAssumption, NEW K \in SUBSET LaneIndexes
  PROVE  ShiftDown(Marks(K), 7) = InLanes(K, {0})
<1> DEFINE x == Marks(K)
           y == ShiftDown(x, 7)
<1>0. /\ x \in SUBSET Positions
      /\ \A l \in LaneIndexes, b \in 0 .. 7 : 8 * l + b \in x <=> b = 7 /\ l \in K
  BY MarksAre
<1>1. /\ y \in SUBSET Positions
      /\ \A l \in LaneIndexes, b \in 0 .. 7 : 8 * l + b \in y <=> b = 0 /\ l \in K
  <2>1. ASSUME NEW l \in LaneIndexes, NEW b \in 0 .. 7 PROVE 8 * l + b \in y <=> b = 0 /\ l \in K
    <3>1. l \in Int /\ 7 \in 0 .. 7
      BY LanesNat
    <3>2. 8 * l + b \in Positions
      BY SpotOf
    <3>3. \A i \in x : i \in Int
      BY <1>0, LanesNat
    <3>4. 8 * l + b \in y <=> 8 * l + b + 7 \in x
      <4> HIDE DEF x
      <4> QED BY <3>1, <3>2, <3>3 DEF ShiftDown
    <3>5. CASE b = 0
      <4>1. 8 * l + b + 7 = 8 * l + 7
        BY <3>1, <3>5
      <4>2. 8 * l + 7 \in x <=> l \in K
        BY <1>0, <3>1
      <4> HIDE DEF x, y
      <4> QED BY <3>4, <3>5, <4>1, <4>2
    <3>6. CASE b # 0
      <4>1. 8 * l + b + 7 = 8 * (l + 1) + (b - 1) /\ b - 1 \in 0 .. 6
        BY <3>1, <3>6
      <4>2. 8 * (l + 1) + (b - 1) \notin x
        <5>1. SUFFICES ASSUME 8 * (l + 1) + (b - 1) \in x PROVE FALSE
          OBVIOUS
        <5>2. PICK m \in LaneIndexes, c \in 0 .. 7 : 8 * (l + 1) + (b - 1) = 8 * m + c
          BY <1>0, <5>1, Spot
        <5>3. m \in Int
          BY LanesNat
        <5>4. c = b - 1
          BY <3>1, <4>1, <5>2, <5>3
        <5>5. c = 7
          BY <1>0, <5>1, <5>2
        <5> QED BY <4>1, <5>4, <5>5
      <4> HIDE DEF x, y
      <4> QED BY <3>4, <3>6, <4>1, <4>2
    <3> QED BY <3>5, <3>6
  <2>2. y \in SUBSET Positions
    BY DEF ShiftDown
  <2> HIDE DEF y
  <2> QED BY <2>1, <2>2
<1> HIDE DEF x, y
<1>3. /\ InLanes(K, {0}) \in SUBSET Positions
      /\ \A l \in LaneIndexes, b \in 0 .. 7 : 8 * l + b \in InLanes(K, {0}) <=> l \in K /\ b = 0
  BY OnesIn
<1>4. \A l \in LaneIndexes, b \in 0 .. 7 : 8 * l + b \in y <=> 8 * l + b \in InLanes(K, {0})
  BY <1>1, <1>3
<1>5. y = InLanes(K, {0})
  BY <1>1, <1>3, <1>4, SameLanes
<1> QED BY <1>5 DEF y, x

(* A mask less its own ones is the seven bits under each mark, and with    *)
(* them the whole lane.                                                    *)
LEMMA SpreadIs ==
  ASSUME LanesAssumption, NEW K \in SUBSET LaneIndexes
  PROVE  Spread(Marks(K)) = InLanes(K, 0 .. 7)
<1> DEFINE x == Marks(K)
           y == ShiftDown(x, 7)
<1>0. /\ x \in SUBSET Positions
      /\ \A l \in LaneIndexes, b \in 0 .. 7 : 8 * l + b \in x <=> b = 7 /\ l \in K
  BY MarksAre
<1>1. /\ y \in SUBSET Positions
      /\ \A l \in LaneIndexes, b \in 0 .. 7 : 8 * l + b \in y <=> b = 0 /\ l \in K
  <2>2. /\ InLanes(K, {0}) \in SUBSET Positions
        /\ \A l \in LaneIndexes, b \in 0 .. 7 : 8 * l + b \in InLanes(K, {0}) <=> l \in K /\ b = 0
    BY OnesIn
  <2>3. y = InLanes(K, {0})
    BY OnesAre
  <2> HIDE DEF y
  <2> QED BY <2>2, <2>3
<1> HIDE DEF x, y
<1>2. ASSUME NEW l \in LaneIndexes, NEW b \in 0 .. 7
      PROVE  Owes(x, y, 8 * l + b) <=> l \in K /\ b # 0
  <2>1. l \in Int
    BY LanesNat
  <2>2. ASSUME Owes(x, y, 8 * l + b) PROVE l \in K /\ b # 0
    <3>1. PICK j \in Positions :
            /\ j \in y /\ j \notin x /\ j < 8 * l + b
            /\ \A k \in Positions : j < k /\ k < 8 * l + b => k \notin x \/ k \in y
      BY <2>2 DEF Owes
    <3>2. PICK m \in LaneIndexes, c \in 0 .. 7 : j = 8 * m + c
      BY Spot
    <3>3. c = 0 /\ m \in K
      BY <1>1, <3>1, <3>2
    <3>4. m \in Int /\ 7 \in 0 .. 7 /\ 7 # 0
      BY LanesNat
    <3>5. 8 * m + 7 \in Positions /\ 8 * m + 7 \in x /\ 8 * m + 7 \notin y
      BY <1>0, <1>1, <3>3, <3>4, SpotOf
    <3>6. ~(j < 8 * m + 7 /\ 8 * m + 7 < 8 * l + b)
      BY <3>1, <3>5
    <3>7. m = l /\ b # 0
      BY <2>1, <3>1, <3>2, <3>3, <3>4, <3>6
    <3> QED BY <3>3, <3>7
  <2>3. ASSUME l \in K, b # 0 PROVE Owes(x, y, 8 * l + b)
    <3>1. 0 \in 0 .. 7 /\ 0 # 7
      OBVIOUS
    <3>2. 8 * l + 0 \in Positions /\ 8 * l + 0 \in y /\ 8 * l + 0 \notin x
      BY <1>0, <1>1, <2>3, <3>1, SpotOf
    <3>3. 8 * l + 0 < 8 * l + b
      BY <2>1, <2>3
    <3>4. ASSUME NEW k \in Positions, 8 * l + 0 < k, k < 8 * l + b PROVE k \notin x
      <4>1. PICK m \in LaneIndexes, c \in 0 .. 7 : k = 8 * m + c
        BY Spot
      <4>2. m \in Int
        BY LanesNat
      <4>3. c # 7
        BY <2>1, <3>4, <4>1, <4>2
      <4> QED BY <1>0, <4>1, <4>3
    <3> QED BY <3>2, <3>3, <3>4 DEF Owes
  <2> QED BY <2>2, <2>3
<1> DEFINE d == Minus(x, y)
<1>3. /\ d \in SUBSET Positions
      /\ \A l \in LaneIndexes, b \in 0 .. 7 : 8 * l + b \in d <=> b # 7 /\ l \in K
  <2>1. ASSUME NEW l \in LaneIndexes, NEW b \in 0 .. 7 PROVE 8 * l + b \in d <=> b # 7 /\ l \in K
    <3>1. 8 * l + b \in Positions
      BY SpotOf
    <3>2. 8 * l + b \in d <=> (8 * l + b \in x <=> (8 * l + b \in y <=> Owes(x, y, 8 * l + b)))
      BY <1>0, <1>1, <3>1, MinusAt
    <3>3. Owes(x, y, 8 * l + b) <=> l \in K /\ b # 0
      BY <1>2
    <3>4. 8 * l + b \in x <=> b = 7 /\ l \in K
      BY <1>0
    <3>5. 8 * l + b \in y <=> b = 0 /\ l \in K
      BY <1>1
    <3> HIDE DEF d
    <3>6. 7 # 0
      OBVIOUS
    <3> QED BY <3>2, <3>3, <3>4, <3>5, <3>6
  <2>2. d \in SUBSET Positions
    BY <1>0, <1>1 DEF Minus, Xor
  <2> HIDE DEF d
  <2> QED BY <2>1, <2>2
<1> HIDE DEF d
<1>4. ASSUME NEW i \in Positions PROVE ~(i \in x /\ i \in d)
  <2>1. PICK l \in LaneIndexes, b \in 0 .. 7 : i = 8 * l + b
    BY Spot
  <2> QED BY <1>0, <1>3, <2>1
<1>5. \A i \in Positions : ~Carries(x, d, i)
  BY <1>4 DEF Carries
<1>6. Plus(x, d) \in SUBSET Positions
  BY <1>0, <1>3 DEF Plus, Xor
<1>7. PICK bits \in SUBSET (0 .. 7) : bits = 0 .. 7
  OBVIOUS
<1>11. /\ InLanes(K, bits) \in SUBSET Positions
       /\ \A l \in LaneIndexes, b \in 0 .. 7 : 8 * l + b \in InLanes(K, bits) <=> l \in K /\ b \in bits
  BY InLanesIs
<1>8. /\ InLanes(K, 0 .. 7) \in SUBSET Positions
      /\ \A l \in LaneIndexes, b \in 0 .. 7 : 8 * l + b \in InLanes(K, 0 .. 7) <=> l \in K /\ b \in 0 .. 7
  BY <1>7, <1>11
<1>9. \A l \in LaneIndexes, b \in 0 .. 7 : 8 * l + b \in Plus(x, d) <=> 8 * l + b \in InLanes(K, 0 .. 7)
  <2> SUFFICES ASSUME NEW l \in LaneIndexes, NEW b \in 0 .. 7
               PROVE  8 * l + b \in Plus(x, d) <=> 8 * l + b \in InLanes(K, 0 .. 7)
    OBVIOUS
  <2>1. 8 * l + b \in Positions
    BY SpotOf
  <2>2. 8 * l + b \in Plus(x, d) <=> (8 * l + b \in x <=> (8 * l + b \in d <=> Carries(x, d, 8 * l + b)))
    BY <1>0, <1>3, <2>1, PlusAt
  <2>3. ~Carries(x, d, 8 * l + b)
    BY <1>5, <2>1
  <2>4. 8 * l + b \in x <=> b = 7 /\ l \in K
    BY <1>0
  <2>5. 8 * l + b \in d <=> b # 7 /\ l \in K
    BY <1>3
  <2> QED BY <1>8, <2>2, <2>3, <2>4, <2>5
<1>10. Plus(x, d) = InLanes(K, 0 .. 7)
  BY <1>6, <1>8, <1>9, SameLanes
<1> QED BY <1>10 DEF Spread, d, y, x
-----------------------------------------------------------------------------
(* Lanes in memory order.                                                  *)

(* The lanes of some offsets.                                              *)
LanesOf(offsets) == {LaneAt(m) : m \in offsets \cap LaneIndexes}

LEMMA LaneAtIs ==
  ASSUME LanesAssumption, NEW m \in LaneIndexes
  PROVE  /\ LaneAt(m) \in LaneIndexes /\ LaneAt(LaneAt(m)) = m
         /\ BigEndian => LaneAt(m) = Lanes - 1 - m
         /\ ~BigEndian => LaneAt(m) = m
BY LanesNat DEF LaneAt

LEMMA LanesOfAre ==
  ASSUME LanesAssumption, NEW offsets
  PROVE  /\ LanesOf(offsets) \in SUBSET LaneIndexes
         /\ \A l \in LaneIndexes : l \in LanesOf(offsets) <=> LaneAt(l) \in offsets
<1>1. \A m \in LaneIndexes : LaneAt(m) \in LaneIndexes /\ LaneAt(LaneAt(m)) = m
  BY LaneAtIs
<1> QED BY <1>1 DEF LanesOf

(* The lanes of the first n bytes.                                         *)
First(n) == LanesOf(0 .. n - 1)

LEMMA FirstAre ==
  ASSUME LanesAssumption, NEW n \in Nat
  PROVE  /\ First(n) \in SUBSET LaneIndexes
         /\ \A l \in LaneIndexes : l \in First(n) <=> LaneAt(l) < n
<1>1. \A l \in LaneIndexes : LaneAt(l) \in LaneIndexes
  BY LaneAtIs
<1>2. \A l \in LaneIndexes : LaneAt(l) \in 0 .. n - 1 <=> LaneAt(l) < n
  BY <1>1, LanesNat
<1> QED BY <1>2, LanesOfAre DEF First

LEMMA WholeLanes ==
  ASSUME LanesAssumption, NEW S \in SUBSET Positions, NEW K \in SUBSET LaneIndexes,
         \A l \in LaneIndexes, b \in 0 .. 7 : 8 * l + b \in S <=> l \in K
  PROVE  S = InLanes(K, 0 .. 7)
<1>1. PICK bits \in SUBSET (0 .. 7) : bits = 0 .. 7
  OBVIOUS
<1>2. /\ InLanes(K, bits) \in SUBSET Positions
      /\ \A l \in LaneIndexes, b \in 0 .. 7 : 8 * l + b \in InLanes(K, bits) <=> l \in K /\ b \in bits
  BY InLanesIs
<1>3. \A l \in LaneIndexes, b \in 0 .. 7 : 8 * l + b \in S <=> 8 * l + b \in InLanes(K, bits)
  BY <1>1, <1>2
<1>4. S = InLanes(K, bits)
  BY <1>2, <1>3, SameLanes
<1> QED BY <1>1, <1>4

LEMMA BytesBelowIs ==
  ASSUME LanesAssumption, NEW n \in Nat
  PROVE  /\ BytesBelow(n) \in SUBSET Positions
         /\ \A l \in LaneIndexes, b \in 0 .. 7 : 8 * l + b \in BytesBelow(n) <=> l \in First(n)
<1>1. \A l \in LaneIndexes : l \in First(n) <=> LaneAt(l) < n
  BY FirstAre
<1>2. \A l \in LaneIndexes : LaneAt(l) \in Nat /\ LaneAt(l) < Lanes /\ l \in Nat /\ l < Lanes
  BY LaneAtIs, LanesNat
<1>0. Lanes \in Nat
  BY LanesNat
<1>3. CASE n = 0
  <2>1. BytesBelow(n) = {}
    BY <1>3, LanesNat DEF BytesBelow
  <2> QED BY <1>1, <1>2, <1>3, <2>1
<1>4. CASE n # 0 /\ n >= Lanes
  <2>1. BytesBelow(n) = Positions
    BY <1>4 DEF BytesBelow
  <2>2. \A l \in LaneIndexes : LaneAt(l) < n
    BY <1>0, <1>2, <1>4
  <2>3. \A l \in LaneIndexes, b \in 0 .. 7 : 8 * l + b \in Positions
    BY SpotOf
  <2> QED BY <1>1, <2>1, <2>2, <2>3
<1>5. CASE n # 0 /\ ~(n >= Lanes)
  <2>1. PICK j \in Nat : j = Lanes - n
    BY <1>0, <1>5
  <2>2. (Lanes - n) * 8 = 8 * j
    BY <1>0, <2>1
  <2>3. BytesBelow(n) = IF BigEndian THEN ShiftUp(Positions, 8 * j) ELSE ShiftDown(Positions, 8 * j)
    BY <1>5, <2>2 DEF BytesBelow
  <2>4. /\ ShiftDown(Positions, 8 * j) \in SUBSET Positions /\ ShiftUp(Positions, 8 * j) \in SUBSET Positions
        /\ \A l \in LaneIndexes, b \in 0 .. 7 :
             /\ 8 * l + b \in ShiftDown(Positions, 8 * j) <=> l + j \in LaneIndexes /\ 8 * (l + j) + b \in Positions
             /\ 8 * l + b \in ShiftUp(Positions, 8 * j) <=> l - j \in LaneIndexes /\ 8 * (l - j) + b \in Positions
    <3>1. Positions \in SUBSET Positions
      OBVIOUS
    <3> QED BY <3>1, ShiftedLanes
  <2>5. \A m \in LaneIndexes, b \in 0 .. 7 : 8 * m + b \in Positions
    BY SpotOf
  <2>6. ASSUME NEW l \in LaneIndexes, NEW b \in 0 .. 7 PROVE 8 * l + b \in BytesBelow(n) <=> LaneAt(l) < n
    <3>1. CASE BigEndian
      <4>1. 8 * l + b \in BytesBelow(n) <=> l - j \in LaneIndexes
        BY <2>3, <2>4, <2>5, <3>1
      <4>2. LaneAt(l) = Lanes - 1 - l
        BY <3>1, LaneAtIs
      <4>3. l - j \in LaneIndexes <=> Lanes - 1 - l < n
        BY <1>0, <1>2, <1>5, <2>1, LanesNat
      <4> QED BY <4>1, <4>2, <4>3
    <3>2. CASE ~BigEndian
      <4>1. 8 * l + b \in BytesBelow(n) <=> l + j \in LaneIndexes
        BY <2>3, <2>4, <2>5, <3>2
      <4>2. LaneAt(l) = l
        BY <3>2, LaneAtIs
      <4>3. l + j \in LaneIndexes <=> l < n
        BY <1>0, <1>2, <1>5, <2>1, LanesNat
      <4> QED BY <4>1, <4>2, <4>3
    <3> QED BY <3>1, <3>2
  <2>7. BytesBelow(n) \in SUBSET Positions
    BY <2>3, <2>4
  <2> QED BY <1>1, <2>6, <2>7
<1> QED BY <1>3, <1>4, <1>5

LEMMA LanesBelowIs ==
  ASSUME LanesAssumption, NEW n \in Nat
  PROVE  LanesBelow(n) = Marks(First(n))
<1>1. /\ BytesBelow(n) \in SUBSET Positions
      /\ \A l \in LaneIndexes, b \in 0 .. 7 : 8 * l + b \in BytesBelow(n) <=> l \in First(n)
  BY BytesBelowIs
<1>2. High \in SUBSET Positions /\ \A l \in LaneIndexes, b \in 0 .. 7 : 8 * l + b \in High <=> b = 7
  BY HighIs
<1>3. First(n) \in SUBSET LaneIndexes
  BY FirstAre
<1>4. LanesBelow(n) \in SUBSET Positions
  BY <1>2 DEF LanesBelow
<1>5. \A l \in LaneIndexes, b \in 0 .. 7 : 8 * l + b \in LanesBelow(n) <=> b = 7 /\ l \in First(n)
  BY <1>1, <1>2 DEF LanesBelow
<1> QED BY <1>3, <1>4, <1>5, MarksOf

LEMMA NoMarks == LanesAssumption => Marks({}) = {}
<1> SUFFICES ASSUME LanesAssumption PROVE Marks({}) = {}
  OBVIOUS
<1>1. {} \in SUBSET Positions /\ {} \in SUBSET LaneIndexes
  OBVIOUS
<1>2. \A l \in LaneIndexes, b \in 0 .. 7 : 8 * l + b \in {} <=> b = 7 /\ l \in {}
  OBVIOUS
<1> QED BY <1>1, <1>2, MarksOf

LEMMA TailIs ==
  ASSUME LanesAssumption, NEW n \in Nat, NEW wi \in Nat
  PROVE  TailMask(n, wi) = Marks(LanesOf({m - wi * Lanes : m \in wi * Lanes .. n - 1}))
<1>1. PICK t \in Nat : t = wi * Lanes
  <2>1. Lanes \in Nat
    BY LanesNat
  <2> QED BY <2>1
<1>2. TailMask(n, wi) = IF t >= n THEN {} ELSE LanesBelow(n - t)
  BY <1>1 DEF TailMask
<1> DEFINE past == {m - t : m \in t .. n - 1}
<1>3. CASE t >= n
  <2>1. past = {}
    BY <1>3
  <2>2. LanesOf(past) = {}
    BY <2>1 DEF LanesOf
  <2> HIDE DEF past
  <2>3. TailMask(n, wi) = Marks(LanesOf(past))
    BY <1>2, <1>3, <2>2, NoMarks
  <2> QED BY <1>1, <2>3 DEF past
<1>4. CASE ~(t >= n)
  <2>1. n - t \in Nat
    BY <1>4
  <2>2. past = 0 .. (n - t) - 1
    <3>1. \A m \in t .. n - 1 : m - t \in 0 .. (n - t) - 1
      OBVIOUS
    <3>2. \A k \in 0 .. (n - t) - 1 : k + t \in t .. n - 1 /\ (k + t) - t = k
      OBVIOUS
    <3> QED BY <3>1, <3>2
  <2> HIDE DEF past
  <2>3. LanesBelow(n - t) = Marks(First(n - t))
    BY <2>1, LanesBelowIs
  <2>4. TailMask(n, wi) = Marks(LanesOf(past))
    BY <1>2, <1>4, <2>2, <2>3 DEF First
  <2> QED BY <1>1, <2>4 DEF past
<1> QED BY <1>3, <1>4

LEMMA BeforeIs ==
  ASSUME LanesAssumption, NEW K \in SUBSET LaneIndexes
  PROVE  LanesBefore(Marks(K)) =
           Marks(LanesOf({m \in LaneIndexes : \A k \in {o \in LaneIndexes : LaneAt(o) \in K} : m < k}))
<1> DEFINE offsets == {o \in LaneIndexes : LaneAt(o) \in K}
           early == {m \in LaneIndexes : \A k \in offsets : m < k}
<1>0. \A l \in LaneIndexes : l \in Nat /\ l < Lanes /\ Lanes \in Nat
  BY LanesNat
<1>1. \A k : k \in offsets <=> k \in LaneIndexes /\ LaneAt(k) \in K
  OBVIOUS
<1>2. \A l \in LaneIndexes : LaneAt(l) \in early <=> \A k \in K : LaneAt(l) < LaneAt(k)
  <2>1. \A l \in LaneIndexes : LaneAt(l) \in LaneIndexes /\ LaneAt(LaneAt(l)) = l
    BY LaneAtIs
  <2>2. ASSUME NEW l \in LaneIndexes, \A k \in offsets : LaneAt(l) < k, NEW k \in K PROVE LaneAt(l) < LaneAt(k)
    <3>1. LaneAt(k) \in offsets
      BY <2>1
    <3> HIDE DEF offsets
    <3> QED BY <2>2, <3>1
  <2>3. ASSUME NEW l \in LaneIndexes, \A k \in K : LaneAt(l) < LaneAt(k), NEW k \in offsets PROVE LaneAt(l) < k
    BY <2>1, <2>3
  <2> HIDE DEF offsets
  <2> QED BY <2>1, <2>2, <2>3
<1>3. LanesOf(early) \in SUBSET LaneIndexes /\ \A l \in LaneIndexes : l \in LanesOf(early) <=> LaneAt(l) \in early
  BY LanesOfAre
<1> HIDE DEF early, offsets
<1>4. CASE BigEndian
  <2>1. LanesBefore(Marks(K)) = Not(Smear(Marks(K))) \cap High
    BY <1>4 DEF LanesBefore
  <2>2. Under(K) \in SUBSET LaneIndexes
    BY DEF Under
  <2>3. Not(Marks(Under(K))) \cap High = Marks(LaneIndexes \ Under(K))
    BY <2>2, MarksSets
  <2>4. ASSUME NEW l \in LaneIndexes PROVE l \notin Under(K) <=> l \in LanesOf(early)
    <3>1. LaneAt(l) = Lanes - 1 - l /\ \A k \in K : LaneAt(k) = Lanes - 1 - k
      BY <1>4, LaneAtIs
    <3>2. \A k \in K : ~(l <= k) <=> LaneAt(l) < LaneAt(k)
      BY <3>1, <1>0
    <3> QED BY <1>2, <1>3, <3>2 DEF Under
  <2>5. LaneIndexes \ Under(K) = LanesOf(early)
    BY <1>3, <2>4
  <2>6. LanesBefore(Marks(K)) = Marks(LanesOf(early))
    BY <2>1, <2>3, <2>5, SmearIs
  <2> QED BY <2>6 DEF early, offsets
<1>5. CASE ~BigEndian
  <2>1. LanesBefore(Marks(K)) = BelowLo(Marks(K))
    BY <1>5 DEF LanesBefore
  <2>2. ASSUME NEW l \in LaneIndexes PROVE l \in Below(K) <=> l \in LanesOf(early)
    <3>1. LaneAt(l) = l /\ \A k \in K : LaneAt(k) = k
      BY <1>5, LaneAtIs
    <3> QED BY <1>2, <1>3, <3>1 DEF Below
  <2>3. Below(K) = LanesOf(early)
    BY <1>3, <2>2 DEF Below
  <2>4. LanesBefore(Marks(K)) = Marks(LanesOf(early))
    BY <2>1, <2>3, BelowLoIs
  <2> QED BY <2>4 DEF early, offsets
<1> QED BY <1>4, <1>5, LanesNat

LEMMA RunEdgeIs ==
  ASSUME LanesAssumption, NEW n \in Nat
  PROVE  RunEdge(n) = Marks(LanesOf({m \in LaneIndexes : n \in 2 .. Lanes /\ m + n > Lanes}))
<1> DEFINE late == {m \in LaneIndexes : n \in 2 .. Lanes /\ m + n > Lanes}
<1>0. Lanes \in Nat /\ \A m \in LaneIndexes : m \in Nat
  BY LanesNat
<1>1. CASE n <= 1 \/ n > Lanes
  <2>1. late = {}
    BY <1>0, <1>1
  <2>2. LanesOf(late) = {}
    BY <2>1 DEF LanesOf
  <2> HIDE DEF late
  <2>3. RunEdge(n) = Marks(LanesOf(late))
    BY <1>1, <2>2, NoMarks DEF RunEdge
  <2> QED BY <2>3 DEF late
<1>2. CASE ~(n <= 1 \/ n > Lanes)
  <2>1. PICK k \in Nat : k = Lanes - n + 1
    BY <1>0, <1>2
  <2>2. RunEdge(n) = High \ LanesBelow(k)
    BY <1>2, <2>1 DEF RunEdge
  <2>3. LanesBelow(k) = Marks(First(k)) /\ First(k) \in SUBSET LaneIndexes
    BY LanesBelowIs, FirstAre
  <2>4. High = Marks(LaneIndexes)
    BY <2>3, MarksSets
  <2>5. Marks(LaneIndexes) \ Marks(First(k)) = Marks(LaneIndexes \ First(k))
    <3>1. LaneIndexes \in SUBSET LaneIndexes
      OBVIOUS
    <3> QED BY <2>3, <3>1, MarksSets
  <2>6. LanesOf(late) \in SUBSET LaneIndexes /\ \A l \in LaneIndexes : l \in LanesOf(late) <=> LaneAt(l) \in late
    BY LanesOfAre
  <2>7. ASSUME NEW l \in LaneIndexes PROVE l \notin First(k) <=> LaneAt(l) \in late
    <3>1. LaneAt(l) \in LaneIndexes
      BY LaneAtIs
    <3>2. l \in First(k) <=> LaneAt(l) < k
      BY FirstAre
    <3>3. PICK a \in Nat : a = LaneAt(l)
      BY <1>0, <3>1
    <3>4. a < k <=> ~(n \in 2 .. Lanes /\ a + n > Lanes)
      BY <1>0, <1>2, <2>1
    <3> QED BY <3>1, <3>2, <3>3, <3>4
  <2> HIDE DEF late
  <2>8. LaneIndexes \ First(k) = LanesOf(late)
    BY <2>6, <2>7
  <2>9. RunEdge(n) = Marks(LanesOf(late))
    BY <2>2, <2>3, <2>4, <2>5, <2>8
  <2> QED BY <2>9 DEF late
<1> QED BY <1>1, <1>2
-----------------------------------------------------------------------------
(* Runs of lanes.                                                          *)

Offsets(K) == {m \in LaneIndexes : LaneAt(m) \in K}

\* The offsets that c offsets of K start at.
Starting(K, c) == {m \in Offsets(K) : \A j \in 0 .. c - 1 : m + j \in Offsets(K)}

Along(w, j) == IF BigEndian THEN ShiftUp(w, 8 * j) ELSE ShiftDown(w, 8 * j)

LEMMA RunStep ==
  ASSUME LanesAssumption, NEW K \in SUBSET LaneIndexes, NEW c \in Nat, NEW d \in Nat, c >= 1, d <= c
  PROVE  Marks(LanesOf(Starting(K, c))) \cap Along(Marks(LanesOf(Starting(K, c))), d)
           = Marks(LanesOf(Starting(K, c + d)))
<1> DEFINE was == LanesOf(Starting(K, c))
           now == LanesOf(Starting(K, c + d))
           far == {l \in LaneIndexes : (IF BigEndian THEN l - d ELSE l + d) \in was}
<1>0. Lanes \in Nat /\ BigEndian \in BOOLEAN /\ \A l \in LaneIndexes : l \in Nat
  BY LanesNat
<1>1. /\ was \in SUBSET LaneIndexes /\ \A l \in LaneIndexes : l \in was <=> LaneAt(l) \in Starting(K, c)
      /\ now \in SUBSET LaneIndexes /\ \A l \in LaneIndexes : l \in now <=> LaneAt(l) \in Starting(K, c + d)
  BY LanesOfAre
<1> HIDE DEF was, now
<1>2. Along(Marks(was), d) = Marks(far)
  <2>1. /\ ShiftDown(Marks(was), 8 * d) = Marks({l \in LaneIndexes : l + d \in was})
        /\ ShiftUp(Marks(was), 8 * d) = Marks({l \in LaneIndexes : l - d \in was})
    BY <1>1, ShiftedMarks
  <2> QED BY <1>0, <2>1 DEF Along
<1>3. ASSUME NEW m \in LaneIndexes
      PROVE  (m \in Starting(K, c) /\ m + d \in Starting(K, c)) <=> m \in Starting(K, c + d)
  <2>1. m \in Nat
    BY <1>0
  <2>2. ASSUME m \in Starting(K, c), m + d \in Starting(K, c), NEW j \in 0 .. c + d - 1
        PROVE  m + j \in Offsets(K)
    <3>1. CASE j < c
      BY <2>2, <3>1 DEF Starting
    <3>2. CASE ~(j < c)
      <4>1. j - d \in 0 .. c - 1 /\ (m + d) + (j - d) = m + j
        BY <2>1, <3>2
      <4> QED BY <2>2, <4>1 DEF Starting
    <3> QED BY <3>1, <3>2
  <2>3. ASSUME m \in Starting(K, c + d) PROVE m \in Starting(K, c) /\ m + d \in Starting(K, c)
    <3>1. \A j \in 0 .. c - 1 : /\ j \in 0 .. c + d - 1 /\ d + j \in 0 .. c + d - 1
                                /\ (m + d) + j = m + (d + j)
      BY <2>1
    <3>2. d \in 0 .. c + d - 1
      OBVIOUS
    <3> QED BY <2>3, <3>1, <3>2 DEF Starting
  <2>4. ASSUME m \in Starting(K, c), m + d \in Starting(K, c) PROVE m \in Starting(K, c + d)
    BY <2>2, <2>4 DEF Starting
  <2> QED BY <2>3, <2>4
<1>4. ASSUME NEW l \in LaneIndexes PROVE (l \in was /\ l \in far) <=> l \in now
  <2> DEFINE m == LaneAt(l)
             t == IF BigEndian THEN l - d ELSE l + d
  <2>1. m \in LaneIndexes /\ m \in Nat /\ l \in Nat
    BY <1>0, LaneAtIs
  <2>2. t \in LaneIndexes <=> m + d \in LaneIndexes
    <3>1. CASE BigEndian
      <4>1. m = Lanes - 1 - l
        BY <3>1, LaneAtIs
      <4> QED BY <1>0, <2>1, <3>1, <4>1, LanesNat
    <3>2. CASE ~BigEndian
      <4>1. m = l
        BY <3>2, LaneAtIs
      <4> QED BY <3>2, <4>1
    <3> QED BY <3>1, <3>2
  <2>3. t \in LaneIndexes => LaneAt(t) = m + d
    <3>1. CASE BigEndian
      <4>1. m = Lanes - 1 - l
        BY <3>1, LaneAtIs
      <4>2. t \in LaneIndexes => LaneAt(t) = Lanes - 1 - t
        BY <3>1, LaneAtIs
      <4> QED BY <1>0, <2>1, <3>1, <4>1, <4>2
    <3>2. CASE ~BigEndian
      <4>1. m = l
        BY <3>2, LaneAtIs
      <4>2. t \in LaneIndexes => LaneAt(t) = t
        BY <3>2, LaneAtIs
      <4> QED BY <3>2, <4>1, <4>2
    <3> QED BY <3>1, <3>2
  <2>4. l \in far <=> t \in was
    OBVIOUS
  <2> HIDE DEF t, far
  <2>5. t \in was <=> m + d \in Starting(K, c)
    <3>1. m + d \in Starting(K, c) => m + d \in LaneIndexes
      BY DEF Starting, Offsets
    <3> QED BY <1>1, <2>2, <2>3, <3>1
  <2>6. l \in was <=> m \in Starting(K, c)
    BY <1>1
  <2>7. l \in now <=> m \in Starting(K, c + d)
    BY <1>1
  <2>8. (m \in Starting(K, c) /\ m + d \in Starting(K, c)) <=> m \in Starting(K, c + d)
    BY <1>3, <2>1
  <2> HIDE DEF m
  <2> QED BY <2>4, <2>5, <2>6, <2>7, <2>8
<1>5. far \in SUBSET LaneIndexes
  OBVIOUS
<1> HIDE DEF far
<1>6. was \cap far = now
  BY <1>1, <1>4, <1>5
<1>7. Marks(was) \cap Marks(far) = Marks(was \cap far)
  BY <1>1, <1>5, MarksSets
<1>8. Marks(was) \cap Along(Marks(was), d) = Marks(now)
  BY <1>2, <1>6, <1>7
<1> QED BY <1>8 DEF was, now

LEMMA StartingOne ==
  ASSUME LanesAssumption, NEW K \in SUBSET LaneIndexes, NEW c \in Nat, c <= 1
  PROVE  LanesOf(Starting(K, c)) = K
<1>1. \A m \in LaneIndexes : m \in Nat /\ m + 0 = m
  BY LanesNat
<1>2. \A j \in 0 .. c - 1 : j = 0
  OBVIOUS
<1>3. \A m \in LaneIndexes : m \in Starting(K, c) <=> LaneAt(m) \in K
  BY <1>1, <1>2 DEF Starting, Offsets
<1>4. /\ LanesOf(Starting(K, c)) \in SUBSET LaneIndexes
      /\ \A l \in LaneIndexes : l \in LanesOf(Starting(K, c)) <=> LaneAt(l) \in Starting(K, c)
  BY LanesOfAre
<1>5. \A l \in LaneIndexes : LaneAt(l) \in LaneIndexes /\ LaneAt(LaneAt(l)) = l
  BY LaneAtIs
<1> QED BY <1>3, <1>4, <1>5

LEMMA RunIs ==
  ASSUME LanesAssumption, NEW K \in SUBSET LaneIndexes, NEW n \in Nat
  PROVE  Run(Marks(K), n) = IF n > Lanes THEN {} ELSE Marks(LanesOf(Starting(K, n)))
<1>0. Lanes \in Nat /\ Lanes <= 8 /\ Lanes >= 2 /\ BigEndian \in BOOLEAN
  BY LanesNat DEF LanesAssumption
<1>1. CASE n > Lanes
  <2>1. Run(Marks(K), n) = {}
    BY <1>0, <1>1 DEF Run
  <2> QED BY <1>1, <2>1
<1>2. CASE n <= 1
  <2>1. Run(Marks(K), n) = Marks(K)
    BY <1>0, <1>2 DEF Run
  <2> QED BY <1>0, <1>2, <2>1, StartingOne
<1>3. CASE ~(n > Lanes) /\ ~(n <= 1)
  <2> DEFINE Covered(p) == IF 2^p < n THEN 2^p ELSE n
             Next(s, p) == LET step == 8 * (Covered(p) - Covered(p - 1))
                           IN  s \cap (IF BigEndian THEN ShiftUp(s, step) ELSE ShiftDown(s, step))
             s0 == Marks(K)
             s1 == Next(s0, 1)
             s2 == Next(s1, 2)
             s3 == Next(s2, 3)
             Body(f, p) ==
               IF p = 0 THEN Marks(K)
               ELSE LET step == 8 * (Covered(p) - Covered(p - 1))
                        s == f[p - 1]
                    IN  s \cap (IF BigEndian THEN ShiftUp(s, step) ELSE ShiftDown(s, step))
             Folds(f) == f = [p \in 0 .. 3 |-> Body(f, p)]
             iter == CHOOSE f : Folds(f)
             Four(p) == IF p = 0 THEN s0 ELSE IF p = 1 THEN s1 ELSE IF p = 2 THEN s2 ELSE s3
  <2>1. \A f : /\ Body(f, 0) = s0 /\ Body(f, 1) = Next(f[0], 1)
               /\ Body(f, 2) = Next(f[1], 2) /\ Body(f, 3) = Next(f[2], 3)
    <3>1. 1 - 1 = 0 /\ 2 - 1 = 1 /\ 3 - 1 = 2
      OBVIOUS
    <3> HIDE DEF Covered
    <3> QED BY <3>1
  <2>2. s1 = Next(s0, 1) /\ s2 = Next(s1, 2) /\ s3 = Next(s2, 3)
    OBVIOUS
  <2>3. Run(Marks(K), n) = iter[3]
    BY <1>0, <1>3 DEF Run, iter, Folds, Body, Covered
  <2> HIDE DEF Body
  <2>4. Folds([p \in 0 .. 3 |-> Four(p)])
    <3> DEFINE f == [p \in 0 .. 3 |-> Four(p)]
    <3>1. f[0] = s0 /\ f[1] = s1 /\ f[2] = s2 /\ f[3] = s3
      <4> HIDE DEF s0, s1, s2, s3
      <4> QED OBVIOUS
    <3> HIDE DEF f
    <3>2. \A p \in 0 .. 3 : Four(p) = Body(f, p)
      <4>1. \A p \in 0 .. 3 : p = 0 \/ p = 1 \/ p = 2 \/ p = 3
        OBVIOUS
      <4> HIDE DEF s0, s1, s2, s3, Next
      <4> QED BY <2>1, <2>2, <3>1, <4>1
    <3> HIDE DEF Four
    <3>3. [p \in 0 .. 3 |-> Four(p)] = [p \in 0 .. 3 |-> Body(f, p)]
      BY <3>2
    <3> QED BY <3>3 DEF f
  <2> HIDE DEF Folds, Four
  <2>5. Folds(iter)
    BY <2>4
  <2> HIDE DEF iter
  <2>6. iter[3] = s3
    <3>1. \A p \in 0 .. 3 : iter[p] = Body(iter, p)
      BY <2>5 DEF Folds
    <3>2. iter[0] = Body(iter, 0) /\ iter[1] = Body(iter, 1) /\ iter[2] = Body(iter, 2) /\ iter[3] = Body(iter, 3)
      BY <3>1
    <3> HIDE DEF s0, s1, s2, s3, Next
    <3> QED BY <3>2, <2>1, <2>2
  <2>7. 2^0 = 1 /\ 2^1 = 2 /\ 2^2 = 4 /\ 2^3 = 8
    OBVIOUS
  <2>8. PICK c1 \in Nat, c2 \in Nat, c3 \in Nat : Covered(1) = c1 /\ Covered(2) = c2 /\ Covered(3) = c3
    BY <2>7
  <2>9. /\ Covered(0) = 1 /\ 1 <= c1 /\ c1 <= 2 /\ c1 <= c2 /\ c2 <= 2 * c1 /\ c2 <= c3 /\ c3 <= 2 * c2
        /\ c3 = n
    BY <1>0, <1>3, <2>7, <2>8
  <2>10. \A s : /\ Next(s, 1) = s \cap Along(s, c1 - 1) /\ Next(s, 2) = s \cap Along(s, c2 - c1)
                /\ Next(s, 3) = s \cap Along(s, c3 - c2)
    <3>1. 1 - 1 = 0 /\ 2 - 1 = 1 /\ 3 - 1 = 2
      OBVIOUS
    <3>2. Covered(1 - 1) = 1 /\ Covered(2 - 1) = c1 /\ Covered(3 - 1) = c2
      BY <2>8, <2>9, <3>1
    <3> HIDE DEF Covered
    <3> QED BY <2>8, <3>2 DEF Along
  <2> HIDE DEF Covered, Next, s0, s1, s2, s3
  <2> DEFINE Full(c) == Marks(LanesOf(Starting(K, c)))
  <2>11. \A c \in Nat, d \in Nat : c >= 1 /\ c <= d /\ d <= 2 * c => Full(c) \cap Along(Full(c), d - c) = Full(d)
    <3> SUFFICES ASSUME NEW c \in Nat, NEW d \in Nat, c >= 1, c <= d, d <= 2 * c
                 PROVE  Full(c) \cap Along(Full(c), d - c) = Full(d)
      OBVIOUS
    <3>1. PICK e \in Nat : e = d - c /\ e <= c /\ c + e = d
      OBVIOUS
    <3>2. Full(c) \cap Along(Full(c), e) = Full(c + e)
      BY <3>1, RunStep
    <3> QED BY <3>1, <3>2
  <2>12. s0 = Full(1)
    BY StartingOne DEF s0
  <2> HIDE DEF Full
  <2>13. s1 = Full(c1)
    <3>1. 1 \in Nat /\ c1 \in Nat /\ 1 >= 1 /\ 1 <= c1 /\ c1 <= 2 * 1
      BY <2>8, <2>9
    <3>2. Full(1) \cap Along(Full(1), c1 - 1) = Full(c1)
      BY ONLY <2>11, <3>1
    <3>3. s1 = s0 \cap Along(s0, c1 - 1)
      BY <2>2, <2>10
    <3> QED BY <2>12, <3>2, <3>3
  <2>14. s2 = Full(c2)
    <3>1. c1 \in Nat /\ c2 \in Nat /\ c1 >= 1 /\ c1 <= c2 /\ c2 <= 2 * c1
      BY <2>8, <2>9
    <3>2. Full(c1) \cap Along(Full(c1), c2 - c1) = Full(c2)
      BY ONLY <2>11, <3>1
    <3>3. s2 = s1 \cap Along(s1, c2 - c1)
      BY <2>2, <2>10
    <3> QED BY <2>13, <3>2, <3>3
  <2>15. s3 = Full(c3)
    <3>1. c2 \in Nat /\ c3 \in Nat /\ c2 >= 1 /\ c2 <= c3 /\ c3 <= 2 * c2
      BY <2>8, <2>9
    <3>2. Full(c2) \cap Along(Full(c2), c3 - c2) = Full(c3)
      BY ONLY <2>11, <3>1
    <3>3. s3 = s2 \cap Along(s2, c3 - c2)
      BY <2>2, <2>10
    <3> QED BY <2>14, <3>2, <3>3
  <2> QED BY <1>0, <1>3, <2>3, <2>6, <2>9, <2>15 DEF Full
<1> QED BY <1>0, <1>1, <1>2, <1>3
-----------------------------------------------------------------------------
(* The number of a word's bits.                                            *)

LEMMA LeastOf == ASSUME NEW T \in SUBSET Nat, T # {} PROVE \E x \in T : \A y \in T : x <= y
<1> DEFINE R == OpToRel(<, Nat)
<1>1. IsWellFoundedOn(R, Nat)
  BY NatLessThanWellFounded
<1>2. PICK x \in T : \A y \in T : <<y, x>> \notin R
  <2> HIDE DEF R
  <2> QED BY <1>1, WFMin
<1>3. \A y \in T : ~(y < x)
  BY <1>2 DEF OpToRel
<1> QED BY <1>3

LEMMA SmallestSet ==
  ASSUME NEW S, IsFiniteSet(S), NEW Some \in SUBSET SUBSET S, Some # {}
  PROVE  \E A \in Some : \A x \in A : A \ {x} \notin Some
<1> DEFINE Sizes == {Cardinality(A) : A \in Some}
<1>1. \A A \in Some : IsFiniteSet(A) /\ Cardinality(A) \in Nat
  BY FS_Subset, FS_CardinalityType
<1>2. Sizes \in SUBSET Nat /\ Sizes # {}
  BY <1>1
<1>3. PICK least \in Sizes : \A k \in Sizes : least <= k
  BY <1>2, LeastOf
<1>4. PICK A \in Some : least = Cardinality(A)
  BY <1>3
<1>5. \A B \in Some : Cardinality(B) \in Sizes
  OBVIOUS
<1> HIDE DEF Sizes
<1>6. ASSUME NEW x \in A, A \ {x} \in Some PROVE FALSE
  <2>1. Cardinality(A \ {x}) = Cardinality(A) - 1
    BY <1>1, FS_RemoveElement
  <2>2. Cardinality(A) <= Cardinality(A \ {x})
    BY <1>3, <1>4, <1>5, <1>6
  <2> QED BY <1>1, <2>1, <2>2
<1> QED BY <1>6

One(S, i) == IF i \in S THEN 1 ELSE 0

Total(S) == One(S, 0) + 2 * One(S, 1) + 4 * One(S, 2) + 8 * One(S, 3)
              + 16 * One(S, 4) + 32 * One(S, 5) + 64 * One(S, 6) + 128 * One(S, 7)

LEMMA TotalStep ==
  ASSUME NEW S \in SUBSET (0 .. 7), NEW i \in S
  PROVE  Total(S) = 2^i + Total(S \ {i}) /\ Total(S) \in Nat
<1>1. 2^0 = 1 /\ 2^1 = 2 /\ 2^2 = 4 /\ 2^3 = 8 /\ 2^4 = 16 /\ 2^5 = 32 /\ 2^6 = 64 /\ 2^7 = 128
  OBVIOUS
<1>2. i = 0 \/ i = 1 \/ i = 2 \/ i = 3 \/ i = 4 \/ i = 5 \/ i = 6 \/ i = 7
  OBVIOUS
<1>3. \A j \in 0 .. 7 : One(S, j) \in 0 .. 1
                        /\ One(S \ {i}, j) = IF j = i THEN 0 ELSE One(S, j)
  BY DEF One
<1>4. One(S, i) = 1
  BY DEF One
<1>5. /\ One(S, 0) \in 0 .. 1 /\ One(S, 1) \in 0 .. 1 /\ One(S, 2) \in 0 .. 1 /\ One(S, 3) \in 0 .. 1
      /\ One(S, 4) \in 0 .. 1 /\ One(S, 5) \in 0 .. 1 /\ One(S, 6) \in 0 .. 1 /\ One(S, 7) \in 0 .. 1
  BY <1>3
<1>6. Total(S) \in Nat
  BY <1>5 DEF Total
<1>10. CASE i = 0
  <2>1. 2^i = 1 /\ One(S, 0) = 1
    BY <1>1, <1>4, <1>10
  <2>2. /\ One(S \ {i}, 0) = 0 /\ One(S \ {i}, 1) = One(S, 1) /\ One(S \ {i}, 2) = One(S, 2) /\ One(S \ {i}, 3) = One(S, 3)
        /\ One(S \ {i}, 4) = One(S, 4) /\ One(S \ {i}, 5) = One(S, 5) /\ One(S \ {i}, 6) = One(S, 6) /\ One(S \ {i}, 7) = One(S, 7)
    BY <1>3, <1>10
  <2> QED BY <1>5, <1>6, <2>1, <2>2 DEF Total
<1>11. CASE i = 1
  <2>1. 2^i = 2 /\ One(S, 1) = 1
    BY <1>1, <1>4, <1>11
  <2>2. /\ One(S \ {i}, 0) = One(S, 0) /\ One(S \ {i}, 1) = 0 /\ One(S \ {i}, 2) = One(S, 2) /\ One(S \ {i}, 3) = One(S, 3)
        /\ One(S \ {i}, 4) = One(S, 4) /\ One(S \ {i}, 5) = One(S, 5) /\ One(S \ {i}, 6) = One(S, 6) /\ One(S \ {i}, 7) = One(S, 7)
    BY <1>3, <1>11
  <2> QED BY <1>5, <1>6, <2>1, <2>2 DEF Total
<1>12. CASE i = 2
  <2>1. 2^i = 4 /\ One(S, 2) = 1
    BY <1>1, <1>4, <1>12
  <2>2. /\ One(S \ {i}, 0) = One(S, 0) /\ One(S \ {i}, 1) = One(S, 1) /\ One(S \ {i}, 2) = 0 /\ One(S \ {i}, 3) = One(S, 3)
        /\ One(S \ {i}, 4) = One(S, 4) /\ One(S \ {i}, 5) = One(S, 5) /\ One(S \ {i}, 6) = One(S, 6) /\ One(S \ {i}, 7) = One(S, 7)
    BY <1>3, <1>12
  <2> QED BY <1>5, <1>6, <2>1, <2>2 DEF Total
<1>13. CASE i = 3
  <2>1. 2^i = 8 /\ One(S, 3) = 1
    BY <1>1, <1>4, <1>13
  <2>2. /\ One(S \ {i}, 0) = One(S, 0) /\ One(S \ {i}, 1) = One(S, 1) /\ One(S \ {i}, 2) = One(S, 2) /\ One(S \ {i}, 3) = 0
        /\ One(S \ {i}, 4) = One(S, 4) /\ One(S \ {i}, 5) = One(S, 5) /\ One(S \ {i}, 6) = One(S, 6) /\ One(S \ {i}, 7) = One(S, 7)
    BY <1>3, <1>13
  <2> QED BY <1>5, <1>6, <2>1, <2>2 DEF Total
<1>14. CASE i = 4
  <2>1. 2^i = 16 /\ One(S, 4) = 1
    BY <1>1, <1>4, <1>14
  <2>2. /\ One(S \ {i}, 0) = One(S, 0) /\ One(S \ {i}, 1) = One(S, 1) /\ One(S \ {i}, 2) = One(S, 2) /\ One(S \ {i}, 3) = One(S, 3)
        /\ One(S \ {i}, 4) = 0 /\ One(S \ {i}, 5) = One(S, 5) /\ One(S \ {i}, 6) = One(S, 6) /\ One(S \ {i}, 7) = One(S, 7)
    BY <1>3, <1>14
  <2> QED BY <1>5, <1>6, <2>1, <2>2 DEF Total
<1>15. CASE i = 5
  <2>1. 2^i = 32 /\ One(S, 5) = 1
    BY <1>1, <1>4, <1>15
  <2>2. /\ One(S \ {i}, 0) = One(S, 0) /\ One(S \ {i}, 1) = One(S, 1) /\ One(S \ {i}, 2) = One(S, 2) /\ One(S \ {i}, 3) = One(S, 3)
        /\ One(S \ {i}, 4) = One(S, 4) /\ One(S \ {i}, 5) = 0 /\ One(S \ {i}, 6) = One(S, 6) /\ One(S \ {i}, 7) = One(S, 7)
    BY <1>3, <1>15
  <2> QED BY <1>5, <1>6, <2>1, <2>2 DEF Total
<1>16. CASE i = 6
  <2>1. 2^i = 64 /\ One(S, 6) = 1
    BY <1>1, <1>4, <1>16
  <2>2. /\ One(S \ {i}, 0) = One(S, 0) /\ One(S \ {i}, 1) = One(S, 1) /\ One(S \ {i}, 2) = One(S, 2) /\ One(S \ {i}, 3) = One(S, 3)
        /\ One(S \ {i}, 4) = One(S, 4) /\ One(S \ {i}, 5) = One(S, 5) /\ One(S \ {i}, 6) = 0 /\ One(S \ {i}, 7) = One(S, 7)
    BY <1>3, <1>16
  <2> QED BY <1>5, <1>6, <2>1, <2>2 DEF Total
<1>17. CASE i = 7
  <2>1. 2^i = 128 /\ One(S, 7) = 1
    BY <1>1, <1>4, <1>17
  <2>2. /\ One(S \ {i}, 0) = One(S, 0) /\ One(S \ {i}, 1) = One(S, 1) /\ One(S \ {i}, 2) = One(S, 2) /\ One(S \ {i}, 3) = One(S, 3)
        /\ One(S \ {i}, 4) = One(S, 4) /\ One(S \ {i}, 5) = One(S, 5) /\ One(S \ {i}, 6) = One(S, 6) /\ One(S \ {i}, 7) = 0
    BY <1>3, <1>17
  <2> QED BY <1>5, <1>6, <2>1, <2>2 DEF Total
<1> QED BY <1>2, <1>10, <1>11, <1>12, <1>13, <1>14, <1>15, <1>16, <1>17

LEMMA NumberIs ==
  ASSUME NEW C \in SUBSET (0 .. 7)
  PROVE  NumberOf(C) = Total(C)
<1> DEFINE Pick(A) == CHOOSE x \in A : TRUE
           Folds(g) == g = [A \in SUBSET C |-> IF A = {} THEN 0 ELSE 2^Pick(A) + g[A \ {Pick(A)}]]
           iter == CHOOSE g : Folds(g)
<1>1. Total({}) = 0
  BY DEF Total, One
<1>2. \A A \in SUBSET C : A # {} => /\ Pick(A) \in A /\ A \ {Pick(A)} \in SUBSET C
                                    /\ Total(A) = 2^Pick(A) + Total(A \ {Pick(A)})
  <2> SUFFICES ASSUME NEW A \in SUBSET C, A # {}
               PROVE  /\ Pick(A) \in A /\ A \ {Pick(A)} \in SUBSET C
                      /\ Total(A) = 2^Pick(A) + Total(A \ {Pick(A)})
    OBVIOUS
  <2>1. Pick(A) \in A /\ A \in SUBSET (0 .. 7)
    OBVIOUS
  <2> HIDE DEF Pick
  <2> QED BY <2>1, TotalStep
<1> HIDE DEF Pick
<1>3. Folds([A \in SUBSET C |-> Total(A)])
  <2> DEFINE g == [A \in SUBSET C |-> Total(A)]
             Body(A) == IF A = {} THEN 0 ELSE 2^Pick(A) + g[A \ {Pick(A)}]
  <2>1. \A A \in SUBSET C : g[A] = Total(A)
    OBVIOUS
  <2> HIDE DEF g
  <2>2. \A A \in SUBSET C : Total(A) = Body(A)
    BY <1>1, <1>2, <2>1
  <2> HIDE DEF Body
  <2>3. [A \in SUBSET C |-> Total(A)] = [A \in SUBSET C |-> Body(A)]
    BY <2>2
  <2> QED BY <2>3 DEF g, Body
<1> HIDE DEF Folds
<1>4. Folds(iter)
  BY <1>3
<1> HIDE DEF iter
<1>5. \A A \in SUBSET C : iter[A] = IF A = {} THEN 0 ELSE 2^Pick(A) + iter[A \ {Pick(A)}]
  BY <1>4 DEF Folds
<1>6. iter[C] = Total(C)
  <2> DEFINE Wrong == {A \in SUBSET C : iter[A] # Total(A)}
  <2> SUFFICES ASSUME Wrong # {} PROVE FALSE
    OBVIOUS
  <2>6. PICK lo \in Int, hi \in Int : lo = 0 /\ hi = 7
    OBVIOUS
  <2>0. IsFiniteSet(0 .. 7)
    BY <2>6, FS_Interval
  <2>1. IsFiniteSet(C) /\ Wrong \in SUBSET SUBSET C
    BY <2>0, FS_Subset
  <2>2. PICK A \in Wrong : \A x \in A : A \ {x} \notin Wrong
    BY <2>1, SmallestSet
  <2>3. A \in SUBSET C /\ iter[A] # Total(A)
    OBVIOUS
  <2>4. CASE A = {}
    BY <1>1, <1>5, <2>3, <2>4
  <2>5. CASE A # {}
    <3>1. Pick(A) \in A /\ A \ {Pick(A)} \in SUBSET C /\ Total(A) = 2^Pick(A) + Total(A \ {Pick(A)})
      BY <1>2, <2>3, <2>5
    <3>2. iter[A \ {Pick(A)}] = Total(A \ {Pick(A)})
      BY <2>2, <3>1
    <3>3. iter[A] = 2^Pick(A) + iter[A \ {Pick(A)}]
      BY <1>5, <2>3, <2>5
    <3> HIDE DEF Wrong
    <3> QED BY <2>3, <3>1, <3>2, <3>3
  <2> QED BY <2>4, <2>5
<1>7. NumberOf(C) = iter[C]
  BY DEF NumberOf, MapThenSumSet, MapThenFoldSet, iter, Folds, Pick
<1> QED BY <1>6, <1>7

LEMMA NumberOfByte ==
  ASSUME NEW v \in Byte
  PROVE  NumberOf(BitsOf(v)) = v
<1>1. BitsOf(v) \in SUBSET (0 .. 7)
  BY ByteBits
<1>2. \A i : One(BitsOf(v), i) = Bit(v, i)
  BY DEF One, Bit
<1> QED BY <1>1, <1>2, NumberIs, ByteSum DEF Total

LEMMA BitsOfNumber ==
  ASSUME NEW C \in SUBSET (0 .. 7)
  PROVE  NumberOf(C) \in Byte /\ BitsOf(NumberOf(C)) = C
<1>1. PICK c0 \in 0 .. 1, c1 \in 0 .. 1, c2 \in 0 .. 1, c3 \in 0 .. 1,
           c4 \in 0 .. 1, c5 \in 0 .. 1, c6 \in 0 .. 1, c7 \in 0 .. 1 :
        /\ c0 = One(C, 0) /\ c1 = One(C, 1) /\ c2 = One(C, 2) /\ c3 = One(C, 3)
        /\ c4 = One(C, 4) /\ c5 = One(C, 5) /\ c6 = One(C, 6) /\ c7 = One(C, 7)
  BY DEF One
<1>2. PICK v : v = NumberOf(C)
  OBVIOUS
<1>3. v = c0 + 2 * c1 + 4 * c2 + 8 * c3 + 16 * c4 + 32 * c5 + 64 * c6 + 128 * c7
  BY <1>1, <1>2, NumberIs DEF Total
<1>4. v \in Byte
  BY <1>3 DEF Byte
<1>5. /\ Bit(v, 0) = c0 /\ Bit(v, 1) = c1 /\ Bit(v, 2) = c2 /\ Bit(v, 3) = c3
      /\ Bit(v, 4) = c4 /\ Bit(v, 5) = c5 /\ Bit(v, 6) = c6 /\ Bit(v, 7) = c7
  BY <1>3, <1>4, BitsUnique
<1>6. \A i \in 0 .. 7 : Bit(v, i) = One(C, i)
  <2>1. \A i \in 0 .. 7 : i = 0 \/ i = 1 \/ i = 2 \/ i = 3 \/ i = 4 \/ i = 5 \/ i = 6 \/ i = 7
    OBVIOUS
  <2> QED BY <1>1, <1>5, <2>1
<1>7. \A i \in 0 .. 7 : i \in BitsOf(v) <=> i \in C
  BY <1>6 DEF Bit, One
<1>8. BitsOf(v) \in SUBSET (0 .. 7)
  BY <1>4, ByteBits
<1>9. BitsOf(v) = C
  BY <1>7, <1>8
<1> QED BY <1>2, <1>4, <1>9
-----------------------------------------------------------------------------
(* Counting: one added to the bytes of some lanes.                         *)

LEMMA SmallBits ==
  /\ BitsOf(0) = {} /\ BitsOf(1) = {0} /\ BitsOf(2) = {1} /\ BitsOf(3) = {0, 1} /\ BitsOf(4) = {2}
  /\ BitsOf(5) = {0, 2} /\ BitsOf(6) = {1, 2} /\ BitsOf(7) = {0, 1, 2} /\ BitsOf(8) = {3}
<1>1. /\ 0 \in Byte /\ 1 \in Byte /\ 2 \in Byte /\ 3 \in Byte /\ 4 \in Byte /\ 5 \in Byte
      /\ 6 \in Byte /\ 7 \in Byte /\ 8 \in Byte
  BY DEF Byte
<1>2. BitsOf(0) = {}
  BY <1>1, ByteBits
<1>3. BitsOf(1) = {0}
  BY <1>1, ByteBits
<1>4. BitsOf(2) = {1}
  BY <1>1, ByteBits
<1>5. BitsOf(3) = {0, 1}
  BY <1>1, ByteBits
<1>6. BitsOf(4) = {2}
  BY <1>1, ByteBits
<1>7. BitsOf(5) = {0, 2}
  BY <1>1, ByteBits
<1>8. BitsOf(6) = {1, 2}
  BY <1>1, ByteBits
<1>9. BitsOf(7) = {0, 1, 2}
  BY <1>1, ByteBits
<1>10. BitsOf(8) = {3}
  BY <1>1, ByteBits
<1> QED BY <1>2, <1>3, <1>4, <1>5, <1>6, <1>7, <1>8, <1>9, <1>10

(* A bit turns when every bit below it is one.                             *)
LEMMA OneMore ==
  ASSUME NEW v \in 0 .. 7, NEW b \in 0 .. 7
  PROVE  b \in BitsOf(v + 1) <=> ~(b \in BitsOf(v) <=> \A c \in 0 .. 7 : c < b => c \in BitsOf(v))
<1>0. v = 0 \/ v = 1 \/ v = 2 \/ v = 3 \/ v = 4 \/ v = 5 \/ v = 6 \/ v = 7
  OBVIOUS
<1>9. /\ 0 + 1 = 1 /\ 1 + 1 = 2 /\ 2 + 1 = 3 /\ 3 + 1 = 4
       /\ 4 + 1 = 5 /\ 5 + 1 = 6 /\ 6 + 1 = 7 /\ 7 + 1 = 8
  OBVIOUS
<1>1. CASE v = 0
  BY <1>9, <1>1, SmallBits
<1>2. CASE v = 1
  BY <1>9, <1>2, SmallBits
<1>3. CASE v = 2
  BY <1>9, <1>3, SmallBits
<1>4. CASE v = 3
  BY <1>9, <1>4, SmallBits
<1>5. CASE v = 4
  BY <1>9, <1>5, SmallBits
<1>6. CASE v = 5
  BY <1>9, <1>6, SmallBits
<1>7. CASE v = 6
  BY <1>9, <1>7, SmallBits
<1>8. CASE v = 7
  BY <1>9, <1>8, SmallBits
<1> QED BY <1>0, <1>1, <1>2, <1>3, <1>4, <1>5, <1>6, <1>7, <1>8

LEMMA AddOne ==
  ASSUME LanesAssumption, NEW bytes \in Bytes, NEW w, Spells(w, bytes), NEW A \in SUBSET LaneIndexes,
         \A l \in LaneIndexes : bytes[l + 1] \in 0 .. 7
  PROVE  Spells(Plus(w, InLanes(A, {0})), [n \in 1 .. Lanes |-> bytes[n] + IF n - 1 \in A THEN 1 ELSE 0])
<1> DEFINE y == InLanes(A, {0})
           more == [n \in 1 .. Lanes |-> bytes[n] + IF n - 1 \in A THEN 1 ELSE 0]
<1>0. {0} \in SUBSET (0 .. 7) /\ 0 \in 0 .. 7 /\ 7 \in 0 .. 7 /\ 7 # 0
  OBVIOUS
<1>1. /\ y \in SUBSET Positions
      /\ \A l \in LaneIndexes, b \in 0 .. 7 : 8 * l + b \in y <=> l \in A /\ b = 0
  BY <1>0, InLanesIs
<1>2. /\ w \in SUBSET Positions
      /\ \A l \in LaneIndexes, b \in 0 .. 7 : 8 * l + b \in w <=> b \in BitsOf(bytes[l + 1])
  BY DEF Spells
<1>3. \A l \in LaneIndexes : 7 \notin BitsOf(bytes[l + 1])
  <2>1. \A v \in 0 .. 7 : 7 \notin BitsOf(v)
    <3> SUFFICES ASSUME NEW v \in 0 .. 7 PROVE 7 \notin BitsOf(v)
      OBVIOUS
    <3>1. v = 0 \/ v = 1 \/ v = 2 \/ v = 3 \/ v = 4 \/ v = 5 \/ v = 6 \/ v = 7
      OBVIOUS
    <3> QED BY <3>1, SmallBits
  <2> QED BY <2>1
<1>4. \A l \in LaneIndexes : more[l + 1] = bytes[l + 1] + IF l \in A THEN 1 ELSE 0
  <2> SUFFICES ASSUME NEW l \in LaneIndexes PROVE more[l + 1] = bytes[l + 1] + IF l \in A THEN 1 ELSE 0
    OBVIOUS
  <2>1. l + 1 \in 1 .. Lanes /\ (l + 1) - 1 = l
    BY LanesNat
  <2> QED BY <2>1
<1> HIDE DEF y, more
<1>5. ASSUME NEW l \in LaneIndexes, NEW b \in 0 .. 7
      PROVE  Carries(w, y, 8 * l + b) <=> l \in A /\ b # 0 /\ \A c \in 0 .. 7 : c < b => c \in BitsOf(bytes[l + 1])
  <2>0. l \in Int
    BY LanesNat
  <2>1. ASSUME Carries(w, y, 8 * l + b)
        PROVE  l \in A /\ b # 0 /\ \A c \in 0 .. 7 : c < b => c \in BitsOf(bytes[l + 1])
    <3>1. PICK j \in Positions :
            /\ j \in w /\ j \in y /\ j < 8 * l + b
            /\ \A k \in Positions : j < k /\ k < 8 * l + b => k \in w \/ k \in y
      BY <2>1 DEF Carries
    <3>2. PICK m \in LaneIndexes, d \in 0 .. 7 : j = 8 * m + d
      BY Spot
    <3>8. 8 * m + d \in y
      BY <3>1, <3>2
    <3>9. d = 0 /\ m \in A
      BY <1>1, <3>8
    <3>3. d = 0 /\ m \in A /\ m \in Int
      BY <3>9, LanesNat
    <3>4. 8 * m + 7 \in Positions /\ 8 * m + 7 \notin w /\ 8 * m + 7 \notin y
      BY <1>0, <1>1, <1>2, <1>3, SpotOf
    <3>5. ~(j < 8 * m + 7 /\ 8 * m + 7 < 8 * l + b)
      BY <3>1, <3>4
    <3>6. m = l /\ b # 0
      BY <2>0, <3>1, <3>2, <3>3, <3>5
    <3>7. ASSUME NEW c \in 0 .. 7, c < b PROVE c \in BitsOf(bytes[l + 1])
      <4>1. CASE c = 0
        BY <1>2, <3>1, <3>2, <3>3, <3>6, <4>1
      <4>2. CASE c # 0
        <5>1. j < 8 * l + c /\ 8 * l + c < 8 * l + b
          BY <2>0, <3>2, <3>3, <3>6, <3>7, <4>2
        <5>2. 8 * l + c \in Positions /\ 8 * l + c \notin y
          BY <1>1, <4>2, SpotOf
        <5> QED BY <1>2, <3>1, <5>1, <5>2
      <4> QED BY <4>1, <4>2
    <3> QED BY <3>3, <3>6, <3>7
  <2>2. ASSUME l \in A, b # 0, \A c \in 0 .. 7 : c < b => c \in BitsOf(bytes[l + 1])
        PROVE  Carries(w, y, 8 * l + b)
    <3>1. 0 < b
      BY <2>2
    <3>2. 8 * l + 0 \in Positions /\ 8 * l + 0 \in w /\ 8 * l + 0 \in y
      BY <1>0, <1>1, <1>2, <2>2, <3>1, SpotOf
    <3>3. 8 * l + 0 < 8 * l + b
      BY <2>0, <3>1
    <3>4. ASSUME NEW k \in Positions, 8 * l + 0 < k, k < 8 * l + b PROVE k \in w
      <4>1. k \in Int
        BY LanesNat
      <4>2. k - 8 * l \in 0 .. 7 /\ k - 8 * l < b /\ k = 8 * l + (k - 8 * l)
        BY <2>0, <3>4, <4>1
      <4> QED BY <1>2, <2>2, <4>2
    <3> QED BY <3>2, <3>3, <3>4 DEF Carries
  <2> QED BY <2>1, <2>2
<1>6. ASSUME NEW l \in LaneIndexes, NEW b \in 0 .. 7
      PROVE  8 * l + b \in Plus(w, y) <=> b \in BitsOf(more[l + 1])
  <2>1. PICK v \in 0 .. 7 : v = bytes[l + 1]
    OBVIOUS
  <2>2. 8 * l + b \in Positions
    BY SpotOf
  <2>3. 8 * l + b \in Plus(w, y) <=> (8 * l + b \in w <=> (8 * l + b \in y <=> Carries(w, y, 8 * l + b)))
    BY <1>1, <1>2, <2>2, PlusAt
  <2>4. 8 * l + b \in w <=> b \in BitsOf(v)
    BY <1>2, <2>1
  <2>5. 8 * l + b \in y <=> l \in A /\ b = 0
    BY <1>1
  <2>6. Carries(w, y, 8 * l + b) <=> l \in A /\ b # 0 /\ \A c \in 0 .. 7 : c < b => c \in BitsOf(v)
    BY <1>5, <2>1
  <2>7. CASE l \notin A
    <3>1. more[l + 1] = v
      BY <1>4, <2>1, <2>7
    <3> QED BY <2>3, <2>4, <2>5, <2>6, <2>7, <3>1
  <2>8. CASE l \in A
    <3>1. more[l + 1] = v + 1
      BY <1>4, <2>1, <2>8
    <3>2. b \in BitsOf(v + 1) <=> ~(b \in BitsOf(v) <=> \A c \in 0 .. 7 : c < b => c \in BitsOf(v))
      BY OneMore
    <3>3. b = 0 => \A c \in 0 .. 7 : c < b => c \in BitsOf(v)
      OBVIOUS
    <3> DEFINE all == \A c \in 0 .. 7 : c < b => c \in BitsOf(v)
    <3>4. all \in BOOLEAN
      OBVIOUS
    <3> HIDE DEF all
    <3>5. Carries(w, y, 8 * l + b) <=> b # 0 /\ all
      BY <2>6, <2>8 DEF all
    <3>6. b \in BitsOf(v + 1) <=> ~(b \in BitsOf(v) <=> all)
      BY <3>2 DEF all
    <3>7. b = 0 => all
      BY <3>3 DEF all
    <3> QED BY <2>3, <2>4, <2>5, <2>8, <3>1, <3>4, <3>5, <3>6, <3>7
  <2> QED BY <2>7, <2>8
<1>7. Plus(w, y) \in SUBSET Positions
  BY <1>1, <1>2 DEF Plus, Xor
<1>8. Spells(Plus(w, y), more)
  BY <1>6, <1>7 DEF Spells
<1> QED BY <1>8 DEF y, more

(* The lanes of K among the l lanes under the lane of n, and that one.     *)
Window(K, n, l) == {k \in K : n - 1 - l <= k /\ k <= n - 1}

Counts(K, l) == [n \in 1 .. Lanes |-> Cardinality(Window(K, n, l))]

LEMMA WindowsCount ==
  ASSUME LanesAssumption, NEW K \in SUBSET LaneIndexes, NEW l \in LaneIndexes
  PROVE  /\ Counts(K, l) \in Bytes
         /\ \A n \in 1 .. Lanes : Counts(K, l)[n] \in 0 .. l + 1
         /\ l = 0 => Counts(K, l) = [n \in 1 .. Lanes |-> IF n - 1 \in K THEN 1 ELSE 0]
         /\ l # 0 => Counts(K, l) =
              [n \in 1 .. Lanes |-> Counts(K, l - 1)[n] + IF n - 1 \in {m \in LaneIndexes : m - l \in K} THEN 1 ELSE 0]
<1>0. Lanes \in Nat /\ Lanes <= 8 /\ l \in Nat /\ l < Lanes
  BY LanesNat
<1>1. ASSUME NEW n \in 1 .. Lanes, NEW j \in Nat
      PROVE  IsFiniteSet(Window(K, n, j)) /\ Cardinality(Window(K, n, j)) \in 0 .. j + 1
  <2>1. PICK lo \in Int, hi \in Int : lo = n - 1 - j /\ hi = n - 1
    OBVIOUS
  <2>2. IsFiniteSet(lo .. hi) /\ Cardinality(lo .. hi) = hi - lo + 1
    BY <2>1, FS_Interval
  <2>3. Window(K, n, j) \subseteq lo .. hi
    BY <2>1, LanesNat DEF Window
  <2>4. /\ IsFiniteSet(Window(K, n, j))
        /\ Cardinality(Window(K, n, j)) <= Cardinality(lo .. hi)
    BY <2>2, <2>3, FS_Subset
  <2>5. Cardinality(Window(K, n, j)) \in Nat
    BY <2>4, FS_CardinalityType
  <2> QED BY <2>1, <2>2, <2>4, <2>5
<1>2. \A n \in 1 .. Lanes : Counts(K, l)[n] \in 0 .. l + 1
  BY <1>0, <1>1 DEF Counts
<1>3. Counts(K, l) \in Bytes
  <2>1. \A n \in 1 .. Lanes : Cardinality(Window(K, n, l)) \in Byte
    <3> SUFFICES ASSUME NEW n \in 1 .. Lanes PROVE Cardinality(Window(K, n, l)) \in Byte
      OBVIOUS
    <3>1. Cardinality(Window(K, n, l)) \in 0 .. l + 1
      BY <1>0, <1>1
    <3> QED BY <1>0, <3>1 DEF Byte
  <2> QED BY <2>1 DEF Counts, Bytes
<1>4. ASSUME l = 0, NEW n \in 1 .. Lanes
      PROVE  Cardinality(Window(K, n, l)) = IF n - 1 \in K THEN 1 ELSE 0
  <2>3. \A k \in K : (n - 1 - l <= k /\ k <= n - 1) <=> k = n - 1
    BY <1>4, LanesNat
  <2>1. Window(K, n, l) = IF n - 1 \in K THEN {n - 1} ELSE {}
    BY <2>3 DEF Window
  <2>2. Cardinality({}) = 0 /\ Cardinality({n - 1}) = 1
    BY FS_EmptySet, FS_Singleton
  <2> QED BY <2>1, <2>2
<1>5. ASSUME l # 0, NEW n \in 1 .. Lanes
      PROVE  Cardinality(Window(K, n, l)) =
               Counts(K, l - 1)[n] + IF n - 1 \in {m \in LaneIndexes : m - l \in K} THEN 1 ELSE 0
  <2>1. l - 1 \in Nat /\ n \in Nat /\ n - 1 \in LaneIndexes
    BY <1>0, <1>5, LanesNat
  <2>2. Counts(K, l - 1)[n] = Cardinality(Window(K, n, l - 1))
    BY DEF Counts
  <2>3. IsFiniteSet(Window(K, n, l - 1)) /\ Cardinality(Window(K, n, l - 1)) \in Nat
    BY <1>1, <2>1
  <2>4. n - 1 \in {m \in LaneIndexes : m - l \in K} <=> n - 1 - l \in K
    BY <2>1
  <2>5. Window(K, n, l) = IF n - 1 - l \in K THEN Window(K, n, l - 1) \cup {n - 1 - l} ELSE Window(K, n, l - 1)
    <3>1. ASSUME NEW k \in K PROVE n - 1 - l <= k <=> n - 1 - (l - 1) <= k \/ k = n - 1 - l
      BY <1>0, <2>1, LanesNat
    <3>2. n - 1 - l <= n - 1
      BY <1>0, <2>1
    <3> QED BY <3>1, <3>2 DEF Window
  <2>6. n - 1 - l \notin Window(K, n, l - 1)
    BY <1>0, <2>1 DEF Window
  <2>7. Cardinality(Window(K, n, l - 1) \cup {n - 1 - l}) = Cardinality(Window(K, n, l - 1)) + 1
    BY <2>3, <2>6, FS_AddElement
  <2> QED BY <2>2, <2>3, <2>4, <2>5, <2>7
<1>6. l = 0 => Counts(K, l) = [n \in 1 .. Lanes |-> IF n - 1 \in K THEN 1 ELSE 0]
  BY <1>4 DEF Counts
<1>7. ASSUME l # 0
      PROVE  Counts(K, l) =
              [n \in 1 .. Lanes |-> Counts(K, l - 1)[n] + IF n - 1 \in {m \in LaneIndexes : m - l \in K} THEN 1 ELSE 0]
  <2> DEFINE To(n) == Counts(K, l - 1)[n] + IF n - 1 \in {m \in LaneIndexes : m - l \in K} THEN 1 ELSE 0
  <2>1. \A n \in 1 .. Lanes : Cardinality(Window(K, n, l)) = To(n)
    BY <1>5, <1>7
  <2>2. Counts(K, l) = [n \in 1 .. Lanes |-> Cardinality(Window(K, n, l))]
    BY DEF Counts
  <2> HIDE DEF To
  <2>3. Counts(K, l) = [n \in 1 .. Lanes |-> To(n)]
    BY <2>1, <2>2
  <2> QED BY <2>3 DEF To
<1> QED BY <1>2, <1>3, <1>6, <1>7

LEMMA OnesShifted ==
  ASSUME LanesAssumption, NEW K \in SUBSET LaneIndexes, NEW l \in LaneIndexes
  PROVE  ShiftUp(InLanes(K, {0}), 8 * l) = InLanes({m \in LaneIndexes : m - l \in K}, {0})
<1> DEFINE far == {m \in LaneIndexes : m - l \in K}
           x == InLanes(K, {0})
<1>0. l \in Nat
  BY LanesNat
<1>1. /\ x \in SUBSET Positions
      /\ \A m \in LaneIndexes, b \in 0 .. 7 : 8 * m + b \in x <=> m \in K /\ b = 0
  BY OnesIn
<1>2. /\ InLanes(far, {0}) \in SUBSET Positions
      /\ \A m \in LaneIndexes, b \in 0 .. 7 : 8 * m + b \in InLanes(far, {0}) <=> m \in far /\ b = 0
  <2>1. far \in SUBSET LaneIndexes
    OBVIOUS
  <2> HIDE DEF far
  <2> QED BY <2>1, OnesIn
<1> HIDE DEF x
<1>3. /\ ShiftUp(x, 8 * l) \in SUBSET Positions
      /\ \A m \in LaneIndexes, b \in 0 .. 7 :
           8 * m + b \in ShiftUp(x, 8 * l) <=> m - l \in LaneIndexes /\ 8 * (m - l) + b \in x
  BY <1>0, <1>1, ShiftedLanes
<1>4. ASSUME NEW m \in LaneIndexes, NEW b \in 0 .. 7
      PROVE  8 * m + b \in ShiftUp(x, 8 * l) <=> 8 * m + b \in InLanes(far, {0})
  <2>1. 8 * m + b \in ShiftUp(x, 8 * l) <=> m - l \in LaneIndexes /\ 8 * (m - l) + b \in x
    BY <1>3
  <2>2. m - l \in LaneIndexes => (8 * (m - l) + b \in x <=> m - l \in K /\ b = 0)
    BY <1>1
  <2>3. 8 * m + b \in InLanes(far, {0}) <=> m \in far /\ b = 0
    BY <1>2
  <2>4. m \in far <=> m - l \in K
    OBVIOUS
  <2> HIDE DEF far
  <2> QED BY <2>1, <2>2, <2>3, <2>4
<1> HIDE DEF far
<1>5. ShiftUp(x, 8 * l) = InLanes(far, {0})
  BY <1>2, <1>3, <1>4, SameLanes
<1> QED BY <1>5 DEF x, far

LEMMA OnesSpell ==
  ASSUME LanesAssumption, NEW K \in SUBSET LaneIndexes
  PROVE  Spells(InLanes(K, {0}), [n \in 1 .. Lanes |-> IF n - 1 \in K THEN 1 ELSE 0])
<1>2. /\ InLanes(K, {0}) \in SUBSET Positions
      /\ \A l \in LaneIndexes, b \in 0 .. 7 : 8 * l + b \in InLanes(K, {0}) <=> l \in K /\ b = 0
  BY OnesIn
<1>3. \A l \in LaneIndexes : l + 1 \in 1 .. Lanes /\ (l + 1) - 1 = l
  BY LanesNat
<1>4. \A l \in LaneIndexes : [n \in 1 .. Lanes |-> IF n - 1 \in K THEN 1 ELSE 0][l + 1] = IF l \in K THEN 1 ELSE 0
  BY <1>3
<1>5. \A l \in LaneIndexes, b \in 0 .. 7 :
        8 * l + b \in InLanes(K, {0}) <=> b \in BitsOf([n \in 1 .. Lanes |-> IF n - 1 \in K THEN 1 ELSE 0][l + 1])
  <2>1. \A l \in LaneIndexes, b \in 0 .. 7 : l \in K /\ b = 0 <=> b \in BitsOf(IF l \in K THEN 1 ELSE 0)
    BY SmallBits
  <2> DEFINE f == [n \in 1 .. Lanes |-> IF n - 1 \in K THEN 1 ELSE 0]
  <2>2. \A l \in LaneIndexes : f[l + 1] = IF l \in K THEN 1 ELSE 0
    BY <1>4
  <2> HIDE DEF f
  <2>3. \A l \in LaneIndexes, b \in 0 .. 7 : l \in K /\ b = 0 <=> b \in BitsOf(f[l + 1])
    BY <2>1, <2>2
  <2>4. \A l \in LaneIndexes, b \in 0 .. 7 : 8 * l + b \in InLanes(K, {0}) <=> b \in BitsOf(f[l + 1])
    BY <1>2, <2>3
  <2> QED BY <2>4 DEF f
<1> QED BY <1>2, <1>5 DEF Spells

(* The sum of the shifts of a mask has the number of its marks in the last *)
(* lane, and no lane of it reaches the next.                               *)
LEMMA CountIs ==
  ASSUME LanesAssumption, NEW K \in SUBSET LaneIndexes
  PROVE  LaneCount(Marks(K)) = Cardinality(K)
<1> DEFINE ones == InLanes(K, {0})
           Shifted(l) == ShiftUp(ShiftDown(Marks(K), 7), 8 * l)
           Body(f, l) == IF l = 0 THEN Shifted(l) ELSE Plus(f[l - 1], Shifted(l))
           Folds(f) == f = [l \in LaneIndexes |-> Body(f, l)]
           iter == CHOOSE f : Folds(f)
           F(l) == Word(Counts(K, l))
<1>0. Lanes \in Nat /\ Lanes <= 8 /\ Lanes >= 1 /\ \A l \in LaneIndexes : l \in Nat /\ l < Lanes
  BY LanesNat
<1>1. LaneCount(Marks(K)) = NumberOf(ShiftDown(iter[Lanes - 1], 8 * Lanes - 8))
  BY DEF LaneCount, iter, Folds, Body, Shifted
<1>2. \A l \in LaneIndexes : Shifted(l) = InLanes({m \in LaneIndexes : m - l \in K}, {0})
  BY OnesAre, OnesShifted
<1>3. \A f : \A l \in LaneIndexes : Body(f, l) = IF l = 0 THEN Shifted(l) ELSE Plus(f[l - 1], Shifted(l))
  OBVIOUS
<1> HIDE DEF Shifted, Body
<1>4. ASSUME NEW l \in LaneIndexes PROVE F(l) = IF l = 0 THEN Shifted(l) ELSE Plus(F(l - 1), Shifted(l))
  <2> DEFINE A == {m \in LaneIndexes : m - l \in K}
  <2>1. A \in SUBSET LaneIndexes
    OBVIOUS
  <2>2. CASE l = 0
    <3>5. \A m \in LaneIndexes : m - l = m
      BY <1>0, <2>2
    <3>1. A = K
      BY <3>5
    <3>2. Counts(K, l) = [n \in 1 .. Lanes |-> IF n - 1 \in K THEN 1 ELSE 0] /\ Counts(K, l) \in Bytes
      BY <2>2, WindowsCount
    <3>3. Shifted(l) = InLanes(K, {0})
      BY <1>2, <3>1
    <3>4. Spells(Shifted(l), Counts(K, l))
      BY <3>2, <3>3, OnesSpell
    <3> QED BY <2>2, <3>2, <3>4, WordOf
  <2>3. CASE l # 0
    <3>1. l - 1 \in LaneIndexes /\ l \in Nat
      BY <1>0, <2>3, LanesNat
    <3>2. Counts(K, l) = [n \in 1 .. Lanes |-> Counts(K, l - 1)[n] + IF n - 1 \in A THEN 1 ELSE 0]
          /\ Counts(K, l) \in Bytes
      BY <2>3, WindowsCount
    <3>3. Counts(K, l - 1) \in Bytes /\ \A n \in 1 .. Lanes : Counts(K, l - 1)[n] \in 0 .. l - 1 + 1
      BY <3>1, WindowsCount
    <3>4. \A k \in LaneIndexes : Counts(K, l - 1)[k + 1] \in 0 .. 7
      <4> SUFFICES ASSUME NEW k \in LaneIndexes PROVE Counts(K, l - 1)[k + 1] \in 0 .. 7
        OBVIOUS
      <4>1. k + 1 \in 1 .. Lanes
        BY LanesNat
      <4>2. Counts(K, l - 1)[k + 1] \in 0 .. l - 1 + 1
        BY <3>3, <4>1
      <4>3. l <= 7
        BY <1>0
      <4> QED BY <3>1, <4>2, <4>3
    <3>5. Spells(F(l - 1), Counts(K, l - 1))
      BY <3>3, WordIs
    <3> HIDE DEF A, F
    <3>6. Spells(Plus(F(l - 1), InLanes(A, {0})), Counts(K, l))
      <4> DEFINE was == Counts(K, l - 1)
      <4>1. was \in Bytes /\ Spells(F(l - 1), was) /\ \A k \in LaneIndexes : was[k + 1] \in 0 .. 7
        BY <3>3, <3>4, <3>5
      <4>2. Counts(K, l) = [n \in 1 .. Lanes |-> was[n] + IF n - 1 \in A THEN 1 ELSE 0]
        BY <3>2
      <4> HIDE DEF was
      <4>3. Spells(Plus(F(l - 1), InLanes(A, {0})), [n \in 1 .. Lanes |-> was[n] + IF n - 1 \in A THEN 1 ELSE 0])
        BY <2>1, <4>1, AddOne
      <4> QED BY <4>2, <4>3
    <3>7. Plus(F(l - 1), InLanes(A, {0})) = Word(Counts(K, l))
      BY <3>2, <3>6, WordOf
    <3>8. Shifted(l) = InLanes(A, {0})
      BY <1>2 DEF A
    <3> QED BY <2>3, <3>7, <3>8 DEF F
  <2> QED BY <2>2, <2>3
<1> HIDE DEF F
<1>5. Folds([l \in LaneIndexes |-> F(l)])
  <2> DEFINE f == [l \in LaneIndexes |-> F(l)]
  <2>1. \A l \in LaneIndexes : f[l] = F(l)
    OBVIOUS
  <2> HIDE DEF f
  <2>2. \A l \in LaneIndexes : l # 0 => l - 1 \in LaneIndexes
    BY LanesNat
  <2>3. \A l \in LaneIndexes : F(l) = Body(f, l)
    BY <1>3, <1>4, <2>1, <2>2
  <2>4. [l \in LaneIndexes |-> F(l)] = [l \in LaneIndexes |-> Body(f, l)]
    BY <2>3
  <2> QED BY <2>4 DEF f
<1> HIDE DEF Folds
<1>6. Folds(iter)
  BY <1>5
<1> HIDE DEF iter
<1>7. \A l \in LaneIndexes : iter[l] = Body(iter, l)
  BY <1>6 DEF Folds
<1>8. \A l \in LaneIndexes : iter[l] = F(l)
  <2> DEFINE Wrong == {l \in LaneIndexes : iter[l] # F(l)}
  <2> SUFFICES ASSUME Wrong # {} PROVE FALSE
    OBVIOUS
  <2>1. Wrong \in SUBSET Nat
    BY LanesNat
  <2>2. PICK l \in Wrong : \A k \in Wrong : l <= k
    BY <2>1, LeastOf
  <2>3. l \in LaneIndexes /\ iter[l] # F(l) /\ l \in Nat
    BY <2>1
  <2>4. l # 0 => l - 1 \in LaneIndexes
    BY <2>3, LanesNat
  <2>5. l # 0 => iter[l - 1] = F(l - 1)
    BY <2>2, <2>3, <2>4
  <2> HIDE DEF Wrong
  <2>6. iter[l] = IF l = 0 THEN Shifted(l) ELSE Plus(iter[l - 1], Shifted(l))
    BY <1>3, <1>7, <2>3
  <2> QED BY <1>4, <2>3, <2>5, <2>6
<1>9. PICK top \in LaneIndexes : top = Lanes - 1
  BY LanesNat
<1> DEFINE v == Cardinality(K)
<1>10. Counts(K, top)[Lanes] = v /\ v \in Byte
  <2>1. Lanes \in 1 .. Lanes
    BY <1>0
  <2>5. \A k \in K : Lanes - 1 - top <= k /\ k <= Lanes - 1
    BY <1>0, <1>9, LanesNat
  <2>2. Window(K, Lanes, top) = K
    BY <2>5 DEF Window
  <2>3. Counts(K, top)[Lanes] \in 0 .. top + 1
    BY <2>1, WindowsCount
  <2>4. Counts(K, top)[Lanes] = v
    BY <2>1, <2>2 DEF Counts
  <2> HIDE DEF v
  <2> QED BY <1>0, <1>9, <2>3, <2>4 DEF Byte
<1> HIDE DEF v
<1>11. Spells(iter[top], Counts(K, top))
  <2>1. Counts(K, top) \in Bytes
    BY WindowsCount
  <2> QED BY <1>8, <2>1, WordIs DEF F
<1>12. ShiftDown(iter[top], 8 * top) = BitsOf(v)
  <2>0. top \in Nat
    BY <1>0
  <2>1. /\ iter[top] \in SUBSET Positions
        /\ \A l \in LaneIndexes, b \in 0 .. 7 : 8 * l + b \in iter[top] <=> b \in BitsOf(Counts(K, top)[l + 1])
    BY <1>11 DEF Spells
  <2>2. /\ ShiftDown(iter[top], 8 * top) \in SUBSET Positions
        /\ \A l \in LaneIndexes, b \in 0 .. 7 :
             8 * l + b \in ShiftDown(iter[top], 8 * top) <=> l + top \in LaneIndexes /\ 8 * (l + top) + b \in iter[top]
    BY <2>0, <2>1, ShiftedLanes
  <2>3. BitsOf(v) \subseteq 0 .. 7
    BY <1>10, ByteBits
  <2>4. BitsOf(v) \in SUBSET Positions
    BY <1>0, <2>3, LanesNat
  <2>5. ASSUME NEW l \in LaneIndexes, NEW b \in 0 .. 7
        PROVE  8 * l + b \in ShiftDown(iter[top], 8 * top) <=> 8 * l + b \in BitsOf(v)
    <3>1. CASE l = 0
      <4>1. l + top = top /\ 8 * (l + top) + b = 8 * top + b /\ 8 * l + b = b /\ top + 1 = Lanes
        BY <1>0, <1>9, <2>0, <3>1
      <4>2. 8 * top + b \in iter[top] <=> b \in BitsOf(v)
        BY <1>10, <2>1, <4>1
      <4>3. 8 * l + b \in ShiftDown(iter[top], 8 * top) <=> l + top \in LaneIndexes /\ 8 * (l + top) + b \in iter[top]
        BY <2>2
      <4> QED BY <4>1, <4>2, <4>3
    <3>2. CASE l # 0
      <4>1. l + top \notin LaneIndexes /\ 8 * l + b \notin 0 .. 7
        BY <1>0, <1>9, <3>2, LanesNat
      <4> QED BY <2>2, <2>3, <4>1
    <3> QED BY <3>1, <3>2
  <2> QED BY <2>2, <2>4, <2>5, SameLanes
<1>13. 8 * Lanes - 8 = 8 * top /\ Lanes - 1 = top
  BY <1>0, <1>9
<1>14. NumberOf(BitsOf(v)) = v
  BY <1>10, NumberOfByte
<1> QED BY <1>1, <1>12, <1>13, <1>14 DEF v
-----------------------------------------------------------------------------
(* The answers of the mask view.                                           *)

Lowest(K) == {l \in K : \A k \in K : l <= k}
Highest(K) == {l \in K : \A k \in K : l >= k}

\* Any lane of them, or one past the last.
AnyOf(K) == IF K = {} THEN Lanes ELSE CHOOSE l \in K : TRUE

LEMMA BelowCard ==
  ASSUME LanesAssumption, NEW n \in Nat, n <= Lanes, NEW S \in SUBSET LaneIndexes,
         \A l \in LaneIndexes : l \in S <=> l < n
  PROVE  Cardinality(S) = n
<1>1. PICK lo \in Int, hi \in Int : lo = 0 /\ hi = n - 1
  OBVIOUS
<1>2. Cardinality(lo .. hi) = n
  BY <1>1, FS_Interval
<1>3. S = lo .. hi
  <2>1. \A l : l \in lo .. hi <=> l \in LaneIndexes /\ l < n
    BY <1>1, LanesNat
  <2> QED BY <2>1
<1> QED BY <1>2, <1>3

LEMMA LaneLoIs ==
  ASSUME LanesAssumption, NEW K \in SUBSET LaneIndexes
  PROVE  LaneLo(Marks(K)) = AnyOf(Lowest(K)) /\ DropLo(Marks(K)) = Marks(K \ Lowest(K))
<1>0. Lanes \in Nat /\ \A l \in LaneIndexes : l \in Nat /\ l < Lanes
  BY LanesNat
<1>1. LaneLo(Marks(K)) = Cardinality(Below(K)) /\ Below(K) \in SUBSET LaneIndexes
  <2>1. Below(K) \in SUBSET LaneIndexes
    BY DEF Below
  <2> QED BY <2>1, BelowLoIs, CountIs DEF LaneLo
<1>2. ASSUME K = {} PROVE LaneLo(Marks(K)) = AnyOf(Lowest(K))
  <2>1. Lowest(K) = {} /\ \A l \in LaneIndexes : l \in Below(K)
    BY <1>2 DEF Lowest, Below
  <2>2. Cardinality(Below(K)) = Lanes
    BY <1>0, <1>1, <2>1, BelowCard
  <2> QED BY <1>1, <2>1, <2>2 DEF AnyOf
<1>3. ASSUME K # {} PROVE LaneLo(Marks(K)) = AnyOf(Lowest(K))
  <2>1. K \in SUBSET Nat
    BY <1>0
  <2>2. PICK m \in K : \A k \in K : m <= k
    BY <1>3, <2>1, LeastOf
  <2>3. Lowest(K) = {m}
    <3>1. \A l \in K : l \in Nat /\ m \in Nat /\ l <= l
      BY <2>1
    <3>2. \A l \in K : l <= m => l = m
      BY <2>2, <3>1
    <3>3. m \in Lowest(K) /\ \A l \in Lowest(K) : l \in K /\ l <= m
      BY <2>2 DEF Lowest
    <3> QED BY <3>2, <3>3
  <2>4. m \in Nat /\ m <= Lanes
    BY <1>0, <2>2
  <2>5. \A l \in LaneIndexes : l \in Below(K) <=> l < m
    <3>1. ASSUME NEW l \in LaneIndexes, l < m, NEW k \in K PROVE l < k
      BY <1>0, <2>1, <2>2, <3>1
    <3> QED BY <2>2, <3>1 DEF Below
  <2>6. Cardinality(Below(K)) = m
    BY <1>1, <2>4, <2>5, BelowCard
  <2> QED BY <1>1, <2>3, <2>6 DEF AnyOf
<1>4. {l \in K : \E k \in K : k < l} = K \ Lowest(K)
  BY <1>0 DEF Lowest
<1> QED BY <1>2, <1>3, <1>4, BelowLoIs

LEMMA LaneHiIs ==
  ASSUME LanesAssumption, NEW K \in SUBSET LaneIndexes
  PROVE  LaneHi(Marks(K)) = AnyOf(Highest(K)) /\ DropHi(Marks(K)) = Marks(K \ Highest(K))
<1>0. Lanes \in Nat /\ \A l \in LaneIndexes : l \in Nat /\ l < Lanes
  BY LanesNat
<1>1. ASSUME K = {} PROVE LaneHi(Marks(K)) = AnyOf(Highest(K))
  <2>1. Highest(K) = {} /\ Marks(K) = {}
    BY <1>1, NoMarks DEF Highest
  <2> QED BY <2>1 DEF AnyOf, LaneHi
<1>2. ASSUME K # {} PROVE LaneHi(Marks(K)) = AnyOf(Highest(K))
  <2>1. Marks(K) # {}
    <3>1. PICK k \in K : k \in LaneIndexes
      BY <1>2
    <3>2. 7 \in 0 .. 7
      OBVIOUS
    <3>3. 8 * k + 7 \in Marks(K)
      BY <3>1, <3>2, MarksAre
    <3> QED BY <3>3
  <2>2. Under(K) \in SUBSET LaneIndexes
    BY DEF Under
  <2>3. LaneHi(Marks(K)) = Cardinality(Under(K)) - 1
    BY <2>1, <2>2, SmearIs, CountIs DEF LaneHi
  <2> DEFINE tops == {t \in Nat : \E k \in K : t = Lanes - 1 - k}
  <2>4. tops \in SUBSET Nat
    OBVIOUS
  <2>5. tops # {}
    <3>1. PICK k \in K : k \in LaneIndexes
      BY <1>2
    <3>2. Lanes - 1 - k \in Nat
      BY <1>0, <3>1
    <3> QED BY <3>1, <3>2
  <2>6. PICK t \in tops : \A u \in tops : t <= u
    <3> HIDE DEF tops
    <3> QED BY <2>4, <2>5, LeastOf
  <2>7. PICK m \in K : t = Lanes - 1 - m
    OBVIOUS
  <2>8. \A k \in K : k <= m
    <3> SUFFICES ASSUME NEW k \in K PROVE k <= m
      OBVIOUS
    <3>1. k \in Nat /\ m \in Nat /\ Lanes - 1 - k \in Nat
      BY <1>0
    <3>2. Lanes - 1 - k \in tops
      BY <3>1
    <3>3. t <= Lanes - 1 - k
      BY <2>6, <3>2
    <3> QED BY <1>0, <2>7, <3>1, <3>3
  <2> HIDE DEF tops
  <2>9. Highest(K) = {m}
    <3>1. \A k \in K : k \in Nat
      BY <1>0
    <3> QED BY <2>8, <3>1 DEF Highest
  <2>10. m + 1 \in Nat /\ m + 1 <= Lanes
    BY <1>0
  <2>11. \A l \in LaneIndexes : l \in Under(K) <=> l < m + 1
    <3>1. ASSUME NEW l \in LaneIndexes, NEW k \in K, l <= k PROVE l < m + 1
      BY <1>0, <2>8, <3>1
    <3>2. ASSUME NEW l \in LaneIndexes, l < m + 1 PROVE l <= m
      BY <1>0, <3>2
    <3> QED BY <3>1, <3>2 DEF Under
  <2>12. Cardinality(Under(K)) = m + 1
    BY <2>2, <2>10, <2>11, BelowCard
  <2>13. LaneHi(Marks(K)) = m
    BY <1>0, <2>3, <2>12
  <2> QED BY <2>9, <2>13 DEF AnyOf
<1>3. DropHi(Marks(K)) = Marks(K \ Highest(K))
  <2>1. {l \in K : \E k \in K : l < k} = K \ Highest(K)
    BY <1>0 DEF Highest
  <2> QED BY <2>1, DropHiIs
<1> QED BY <1>1, <1>2, <1>3

LEMMA WordsAre ==
  ASSUME LanesAssumption, NEW n \in Nat
  PROVE  Words(n) = Cardinality({m \div Lanes : m \in 0 .. n - 1})
<1>1. PICK c \in Nat : c = Words(n) /\ \A q \in Nat : q < c <=> q * Lanes < n
  <2>1. CASE Lanes = 2
    <3>1. \A q \in Nat : q < Words(n) <=> q * Lanes < n
      BY <2>1 DEF Words
    <3> QED BY <2>1, <3>1 DEF Words
  <2>2. CASE Lanes = 4
    <3>1. \A q \in Nat : q < Words(n) <=> q * Lanes < n
      BY <2>2 DEF Words
    <3> QED BY <2>2, <3>1 DEF Words
  <2>3. CASE Lanes = 8
    <3>1. \A q \in Nat : q < Words(n) <=> q * Lanes < n
      BY <2>3 DEF Words
    <3> QED BY <2>3, <3>1 DEF Words
  <2> QED BY <2>1, <2>2, <2>3 DEF LanesAssumption
<1>2. \A m \in Nat : m \div Lanes \in Nat /\ (m \div Lanes) * Lanes <= m
  <2>1. CASE Lanes = 2
    BY <2>1
  <2>2. CASE Lanes = 4
    BY <2>2
  <2>3. CASE Lanes = 8
    BY <2>3
  <2> QED BY <2>1, <2>2, <2>3 DEF LanesAssumption
<1>3. \A q \in Nat : q * Lanes \in Nat /\ (q * Lanes) \div Lanes = q
  <2>1. CASE Lanes = 2
    BY <2>1
  <2>2. CASE Lanes = 4
    BY <2>2
  <2>3. CASE Lanes = 8
    BY <2>3
  <2> QED BY <2>1, <2>2, <2>3 DEF LanesAssumption
<1> DEFINE S == {m \div Lanes : m \in 0 .. n - 1}
<1>4. PICK lo \in Int, hi \in Int : lo = 0 /\ hi = c - 1
  OBVIOUS
<1>5. S = lo .. hi
  <2>1. ASSUME NEW m \in 0 .. n - 1 PROVE m \div Lanes \in lo .. hi
    <3>1. PICK q \in Nat : q = m \div Lanes /\ q * Lanes <= m /\ q * Lanes \in Nat
      BY <1>2, <1>3
    <3>2. q * Lanes < n
      BY <3>1
    <3>3. q < c
      BY <1>1, <3>2
    <3> QED BY <1>4, <3>1, <3>3
  <2>2. ASSUME NEW q \in lo .. hi PROVE q \in S
    <3>1. q \in Nat /\ q < c
      BY <1>4
    <3>2. q * Lanes < n /\ q * Lanes \in Nat /\ (q * Lanes) \div Lanes = q
      BY <1>1, <1>3, <3>1
    <3>3. q * Lanes \in 0 .. n - 1
      BY <3>2
    <3> QED BY <3>2, <3>3
  <2> QED BY <2>1, <2>2
<1> HIDE DEF S
<1>6. Cardinality(lo .. hi) = c
  BY <1>4, FS_Interval
<1> QED BY <1>1, <1>5, <1>6 DEF S

(* verbum_scrutor.c: the marks of a mask are counted, found, spread,       *)
(* dropped and run together as the lanes they stand for, and offsets mean  *)
(* bytes in memory order, for words of two, four and eight lanes in either *)
(* byte order.                                                             *)
THEOREM MasksAnswered ==
  ASSUME LanesAssumption, NEW lanes \in SUBSET LaneIndexes, NEW n \in Nat, NEW wi \in Nat
  PROVE  MaskAnswer(lanes, n, wi) = MaskWanted(lanes, n, wi)
<1> DEFINE offsets == {m \in LaneIndexes : LaneAt(m) \in lanes}
           Runs(m) == \A k \in m .. (m + n - 1) : k \in offsets
<1>1. MaskAnswer(lanes, n, wi) =
  [count |-> LaneCount(Marks(lanes)), lo |-> LaneLo(Marks(lanes)), hi |-> LaneHi(Marks(lanes)),
      spread |-> Spread(Marks(lanes)), dropLo |-> DropLo(Marks(lanes)), dropHi |-> DropHi(Marks(lanes)),
      below |-> BytesBelow(n), lanesBelow |-> LanesBelow(n), tail |-> TailMask(n, wi),
      before |-> LanesBefore(Marks(lanes)), run |-> Run(Marks(lanes), n), edge |-> RunEdge(n),
      words |-> Words(n)]
  BY DEF MaskAnswer, Marks
<1>2. MaskWanted(lanes, n, wi) =
  [count |-> Cardinality(lanes), lo |-> AnyOf(Lowest(lanes)), hi |-> AnyOf(Highest(lanes)),
      spread |-> InLanes(lanes, 0 .. 7), dropLo |-> Marks(lanes \ Lowest(lanes)),
      dropHi |-> Marks(lanes \ Highest(lanes)),
      below |-> InLanes(LanesOf(0 .. n - 1), 0 .. 7), lanesBelow |-> Marks(LanesOf(0 .. n - 1)),
      tail |-> Marks(LanesOf({m - wi * Lanes : m \in wi * Lanes .. n - 1})),
      before |-> Marks(LanesOf({m \in LaneIndexes : \A k \in offsets : m < k})),
      run |-> Marks(LanesOf({m \in offsets : Runs(m) /\ n <= Lanes})),
      edge |-> Marks(LanesOf({m \in LaneIndexes : n \in 2 .. Lanes /\ m + n > Lanes})),
      words |-> Cardinality({m \div Lanes : m \in 0 .. n - 1})]
  BY DEF MaskWanted, Marks, LanesOf, Lowest, Highest, AnyOf
<1>3. LaneCount(Marks(lanes)) = Cardinality(lanes)
  BY CountIs
<1>4. /\ LaneLo(Marks(lanes)) = AnyOf(Lowest(lanes)) /\ LaneHi(Marks(lanes)) = AnyOf(Highest(lanes))
      /\ DropLo(Marks(lanes)) = Marks(lanes \ Lowest(lanes))
      /\ DropHi(Marks(lanes)) = Marks(lanes \ Highest(lanes))
  BY LaneLoIs, LaneHiIs
<1>5. Spread(Marks(lanes)) = InLanes(lanes, 0 .. 7)
  BY SpreadIs
<1>6. BytesBelow(n) = InLanes(LanesOf(0 .. n - 1), 0 .. 7) /\ LanesBelow(n) = Marks(LanesOf(0 .. n - 1))
  <2>1. First(n) \in SUBSET LaneIndexes
    BY FirstAre
  <2>2. /\ BytesBelow(n) \in SUBSET Positions
        /\ \A l \in LaneIndexes, b \in 0 .. 7 : 8 * l + b \in BytesBelow(n) <=> l \in First(n)
    BY BytesBelowIs
  <2>3. BytesBelow(n) = InLanes(First(n), 0 .. 7)
    BY <2>1, <2>2, WholeLanes
  <2> QED BY <2>3, LanesBelowIs DEF First
<1>7. TailMask(n, wi) = Marks(LanesOf({m - wi * Lanes : m \in wi * Lanes .. n - 1}))
  BY TailIs
<1>8. LanesBefore(Marks(lanes)) = Marks(LanesOf({m \in LaneIndexes : \A k \in offsets : m < k}))
  BY BeforeIs
<1>9. RunEdge(n) = Marks(LanesOf({m \in LaneIndexes : n \in 2 .. Lanes /\ m + n > Lanes}))
  BY RunEdgeIs
<1>10. Words(n) = Cardinality({m \div Lanes : m \in 0 .. n - 1})
  BY WordsAre
<1>11. Run(Marks(lanes), n) = Marks(LanesOf({m \in offsets : Runs(m) /\ n <= Lanes}))
  <2>0. Lanes \in Nat /\ \A m \in LaneIndexes : m \in Nat
    BY LanesNat
  <2>1. offsets = Offsets(lanes)
    BY DEF Offsets
  <2> HIDE DEF offsets
  <2>2. ASSUME NEW m \in LaneIndexes
        PROVE  Runs(m) <=> \A j \in 0 .. n - 1 : m + j \in Offsets(lanes)
    <3>1. \A k \in m .. (m + n - 1) : k - m \in 0 .. n - 1 /\ m + (k - m) = k
      BY <2>0
    <3>2. \A j \in 0 .. n - 1 : m + j \in m .. (m + n - 1)
      BY <2>0
    <3> QED BY <2>1, <3>1, <3>2
  <2> HIDE DEF Runs
  <2>3. Run(Marks(lanes), n) = IF n > Lanes THEN {} ELSE Marks(LanesOf(Starting(lanes, n)))
    BY RunIs
  <2>4. CASE n > Lanes
    <3>1. {m \in offsets : Runs(m) /\ n <= Lanes} = {}
      BY <2>0, <2>4
    <3>2. LanesOf({}) = {}
      BY DEF LanesOf
    <3> QED BY <2>3, <2>4, <3>1, <3>2, NoMarks
  <2>5. CASE ~(n > Lanes)
    <3>1. n <= Lanes /\ \A m \in offsets : m \in LaneIndexes
      BY <2>0, <2>1, <2>5 DEF Offsets
    <3>2. {m \in offsets : Runs(m) /\ n <= Lanes} = Starting(lanes, n)
      BY <2>1, <2>2, <3>1 DEF Starting
    <3> QED BY <2>3, <2>5, <3>2
  <2> QED BY <2>4, <2>5
<1> HIDE DEF offsets, Runs
<1> QED BY <1>1, <1>2, <1>3, <1>4, <1>5, <1>6, <1>7, <1>8, <1>9, <1>10, <1>11

-----------------------------------------------------------------------------
-----------------------------------------------------------------------------
(* A walk.                                                                 *)

IsMemory(mem) == DOMAIN mem \subseteq Nat /\ mem = [k \in DOMAIN mem |-> mem[k]]

Within(mem, at, bytes) == at .. at + bytes - 1 \subseteq DOMAIN mem

Piece(p) == p[1] .. p[1] + p[2] - 1

Pieces == {p \in Nat \X Nat : p[2] # 0}

Covers(pieces, lo, hi) ==
  /\ \A n \in 1 .. Len(pieces) : lo <= pieces[n][1] /\ pieces[n][1] + pieces[n][2] <= hi
  /\ \A k \in lo .. hi - 1 : \E n \in 1 .. Len(pieces) : k \in Piece(pieces[n])

(* No piece is read from bytes that an earlier one has written.            *)
Unspoilt(pieces, dst, src) ==
  \A m, n \in 1 .. Len(pieces) : m < n =>
    \A k \in Piece(pieces[m]), j \in Piece(pieces[n]) : dst + k # src + j

(* The memory after the first pieces, each byte of theirs moved as it was. *)
Moved(mem, dst, src, pieces, n) ==
  [k \in DOMAIN mem |->
     IF \E m \in 1 .. n : k - dst \in Piece(pieces[m]) THEN mem[k - dst + src] ELSE mem[k]]

Step(was, mem, dst, src, piece) ==
  [k \in DOMAIN mem |->
     IF k \in dst + piece[1] .. dst + piece[1] + piece[2] - 1 THEN was[k - dst + src] ELSE was[k]]

LEMMA PiecesNat ==
  ASSUME NEW pieces \in Seq(Pieces)
  PROVE  /\ Len(pieces) \in Nat
         /\ \A m \in 1 .. Len(pieces) : pieces[m][1] \in Nat /\ pieces[m][2] \in Nat
<1>1. \A m \in 1 .. Len(pieces) : pieces[m] \in Pieces
  OBVIOUS
<1> QED BY <1>1 DEF Pieces

LEMMA MovedStep ==
  ASSUME NEW mem, NEW dst \in Nat, NEW src \in Nat, NEW bytes \in Nat,
         NEW pieces \in Seq(Pieces), IsMemory(mem), Within(mem, src, bytes),
         Covers(pieces, 0, bytes), Unspoilt(pieces, dst, src), NEW n \in 1 .. Len(pieces)
  PROVE  Step(Moved(mem, dst, src, pieces, n - 1), mem, dst, src, pieces[n])
           = Moved(mem, dst, src, pieces, n)
<1> DEFINE was == Moved(mem, dst, src, pieces, n - 1)
<1>1. /\ Len(pieces) \in Nat /\ n \in 1 .. Len(pieces)
      /\ \A m \in 1 .. Len(pieces) : pieces[m][1] \in Nat /\ pieces[m][2] \in Nat
  BY PiecesNat
<1> SUFFICES ASSUME NEW k \in DOMAIN mem
             PROVE  Step(was, mem, dst, src, pieces[n])[k] = Moved(mem, dst, src, pieces, n)[k]
  BY DEF Step, Moved
<1>2. k \in Nat
  BY DEF IsMemory
<1>3. k \in dst + pieces[n][1] .. dst + pieces[n][1] + pieces[n][2] - 1 <=> k - dst \in Piece(pieces[n])
  <2> DEFINE from == pieces[n][1]
             size == pieces[n][2]
  <2>1. from \in Nat /\ size \in Nat
    BY <1>1
  <2>2. Piece(pieces[n]) = from .. from + size - 1
    BY DEF Piece
  <2> HIDE DEF from, size
  <2>3. k \in dst + from .. dst + from + size - 1 <=> k - dst \in from .. from + size - 1
    BY <2>1, <1>2
  <2> QED BY <2>2, <2>3 DEF from, size
<1>4. CASE k - dst \in Piece(pieces[n])
  <2>1. pieces[n][1] \in Nat /\ pieces[n][2] \in Nat /\ pieces[n][1] + pieces[n][2] <= bytes
    BY <1>1 DEF Covers
  <2>2. PICK j \in 0 .. bytes - 1 : j = k - dst
    BY ONLY <2>1, <1>2, <1>4, dst \in Nat, bytes \in Nat DEF Piece
  <2>3. PICK i \in Nat : i = src + j /\ i = k - dst + src
    BY <2>2, <1>2
  <2>4. i \in DOMAIN mem
    BY <2>3 DEF Within
  <2>5. \A m \in 1 .. n - 1 : i - dst \notin Piece(pieces[m])
    <3> SUFFICES ASSUME NEW m \in 1 .. n - 1, i - dst \in Piece(pieces[m]) PROVE FALSE
      OBVIOUS
    <3>1. m \in 1 .. Len(pieces) /\ m < n
      BY <1>1
    <3>2. dst + (i - dst) # src + j
      BY <3>1, <1>1, <1>4, <2>2 DEF Unspoilt
    <3> QED BY <3>2, <2>3
  <2>6. was[i] = mem[i]
    BY <2>4, <2>5 DEF Moved
  <2>7. Moved(mem, dst, src, pieces, n)[k] = mem[i]
    BY <1>4, <2>3 DEF Moved
  <2> QED BY <1>3, <1>4, <2>3, <2>6, <2>7 DEF Step
<1>5. CASE k - dst \notin Piece(pieces[n])
  <2>1. (\E m \in 1 .. n - 1 : k - dst \in Piece(pieces[m])) <=> (\E m \in 1 .. n : k - dst \in Piece(pieces[m]))
    BY <1>5
  <2>2. Step(was, mem, dst, src, pieces[n])[k] = was[k]
    BY <1>3, <1>5 DEF Step
  <2> QED BY <2>1, <2>2 DEF Moved
<1> QED BY <1>4, <1>5
LEMMA CopiedMoved ==
  ASSUME NEW mem, NEW dst \in Nat, NEW src \in Nat, NEW bytes \in Nat,
         NEW pieces \in Seq(Pieces), IsMemory(mem), Within(mem, src, bytes),
         Covers(pieces, 0, bytes), Unspoilt(pieces, dst, src)
  PROVE  Copied(mem, dst, src, pieces) = Moved(mem, dst, src, pieces, Len(pieces))
<1> DEFINE L == Len(pieces)
           Mem(n) == Moved(mem, dst, src, pieces, n)
           Runs(g) == g = [n \in 0 .. L |->
                             IF n = 0 THEN mem ELSE Step(g[n - 1], mem, dst, src, pieces[n])]
           g == CHOOSE f : Runs(f)
<1>1. L \in Nat
  OBVIOUS
<1>2. Mem(0) = mem /\ \A n \in 1 .. L : Step(Mem(n - 1), mem, dst, src, pieces[n]) = Mem(n)
  <2>1. Mem(0) = mem
    BY DEF Moved, IsMemory
  <2>2. ASSUME NEW n \in 1 .. L PROVE Step(Mem(n - 1), mem, dst, src, pieces[n]) = Mem(n)
    BY MovedStep
  <2> QED BY <2>1, <2>2
<1> HIDE DEF Mem, L
<1>3. Runs([n \in 0 .. L |-> Mem(n)])
  BY <1>1, <1>2
<1>4. Runs(g)
  <2> HIDE DEF Runs
  <2> QED BY <1>3
<1>5. \A n \in 0 .. L : g[n] = IF n = 0 THEN mem ELSE Step(g[n - 1], mem, dst, src, pieces[n])
  <2> HIDE DEF g
  <2> QED BY <1>4
<1> HIDE DEF g, Runs
<1>6. \A n \in 0 .. L : g[n] = Mem(n)
  <2> DEFINE T == {n \in 0 .. L : g[n] # Mem(n)}
  <2> SUFFICES ASSUME T # {} PROVE FALSE
    OBVIOUS
  <2>1. PICK n \in T : \A m \in T : n <= m
    <3>1. T \in SUBSET Nat
      BY <1>1
    <3> HIDE DEF T
    <3> QED BY <3>1, LeastOf
  <2>2. n # 0 /\ n \in 1 .. L
    BY <2>1, <1>2, <1>5, <1>1
  <2>3. g[n - 1] = Mem(n - 1)
    BY <2>1, <2>2, <1>1
  <2> QED BY <2>1, <2>2, <2>3, <1>2, <1>5
<1>7. Copied(mem, dst, src, pieces) = g[L]
  BY DEF Copied, Step, g, Runs, L
<1> QED BY <1>1, <1>6, <1>7 DEF Mem, L

LEMMA MovedAll ==
  ASSUME NEW mem, NEW dst \in Nat, NEW src \in Nat, NEW bytes \in Nat,
         NEW pieces \in Seq(Pieces), IsMemory(mem), Covers(pieces, 0, bytes)
  PROVE  Moved(mem, dst, src, pieces, Len(pieces)) = MoveWanted(mem, dst, src, bytes)
<1>1. /\ Len(pieces) \in Nat
      /\ \A m \in 1 .. Len(pieces) : pieces[m][1] \in Nat /\ pieces[m][2] \in Nat
  BY PiecesNat
<1>2. ASSUME NEW k \in DOMAIN mem
      PROVE  (\E m \in 1 .. Len(pieces) : k - dst \in Piece(pieces[m])) <=> k \in dst .. dst + bytes - 1
  <2>1. k \in Nat
    BY DEF IsMemory
  <2>2. k \in dst .. dst + bytes - 1 <=> k - dst \in 0 .. bytes - 1
    BY <2>1
  <2>3. ASSUME NEW m \in 1 .. Len(pieces), k - dst \in Piece(pieces[m]) PROVE k - dst \in 0 .. bytes - 1
    <3>1. pieces[m][1] \in Nat /\ pieces[m][2] \in Nat /\ pieces[m][1] + pieces[m][2] <= bytes
      BY <1>1 DEF Covers
    <3> QED BY ONLY <3>1, <2>1, <2>3, dst \in Nat, bytes \in Nat DEF Piece
  <2> QED BY <2>2, <2>3 DEF Covers
<1> QED BY <1>2 DEF Moved, MoveWanted

(* A walk that covers a region and never reads what it has written moves    *)
(* every byte of it as it was.                                              *)
LEMMA WalkMoves ==
  ASSUME NEW mem, NEW dst \in Nat, NEW src \in Nat, NEW bytes \in Nat,
         NEW pieces \in Seq(Pieces), IsMemory(mem), Within(mem, src, bytes),
         Covers(pieces, 0, bytes), Unspoilt(pieces, dst, src)
  PROVE  Copied(mem, dst, src, pieces) = MoveWanted(mem, dst, src, bytes)
BY CopiedMoved, MovedAll
-----------------------------------------------------------------------------
(* How the pieces of a walk tile a region: upward, each starting past the  *)
(* one before it, or downward.                                             *)

Before(p, q) == p[1] + p[2] <= q[1]

Rises(pieces, lo, hi) ==
  /\ pieces \in Seq(Pieces) /\ Covers(pieces, lo, hi)
  /\ \A m, n \in 1 .. Len(pieces) : m < n => Before(pieces[m], pieces[n])

Falls(pieces, lo, hi) ==
  /\ pieces \in Seq(Pieces) /\ Covers(pieces, lo, hi)
  /\ \A m, n \in 1 .. Len(pieces) : m < n => Before(pieces[n], pieces[m])

LEMMA RisesUnspoilt ==
  ASSUME NEW pieces, NEW dst \in Nat, NEW src \in Nat, NEW bytes \in Nat,
         Rises(pieces, 0, bytes), dst <= src \/ Apart(dst, src, bytes)
  PROVE  Unspoilt(pieces, dst, src)
<1> SUFFICES ASSUME NEW m \in 1 .. Len(pieces), NEW n \in 1 .. Len(pieces), m < n,
                    NEW k \in Piece(pieces[m]), NEW j \in Piece(pieces[n])
             PROVE  dst + k # src + j
  BY DEF Unspoilt
<1> DEFINE a == pieces[m][1]
           b == pieces[m][2]
           c == pieces[n][1]
           d == pieces[n][2]
<1>1. a \in Nat /\ b \in Nat /\ c \in Nat /\ d \in Nat
  BY PiecesNat DEF Rises
<1>2. a + b <= c /\ a + b <= bytes /\ c + d <= bytes
  BY DEF Rises, Before, Covers
<1>3. k \in a .. a + b - 1 /\ j \in c .. c + d - 1
  BY DEF Piece
<1> HIDE DEF a, b, c, d
<1> QED BY <1>1, <1>2, <1>3 DEF Apart

LEMMA FallsUnspoilt ==
  ASSUME NEW pieces, NEW dst \in Nat, NEW src \in Nat, NEW bytes \in Nat,
         Falls(pieces, 0, bytes), src <= dst \/ Apart(dst, src, bytes)
  PROVE  Unspoilt(pieces, dst, src)
<1> SUFFICES ASSUME NEW m \in 1 .. Len(pieces), NEW n \in 1 .. Len(pieces), m < n,
                    NEW k \in Piece(pieces[m]), NEW j \in Piece(pieces[n])
             PROVE  dst + k # src + j
  BY DEF Unspoilt
<1> DEFINE a == pieces[m][1]
           b == pieces[m][2]
           c == pieces[n][1]
           d == pieces[n][2]
<1>1. a \in Nat /\ b \in Nat /\ c \in Nat /\ d \in Nat
  BY PiecesNat DEF Falls
<1>2. c + d <= a /\ a + b <= bytes /\ c + d <= bytes
  BY DEF Falls, Before, Covers
<1>3. k \in a .. a + b - 1 /\ j \in c .. c + d - 1
  BY DEF Piece
<1> HIDE DEF a, b, c, d
<1> QED BY <1>1, <1>2, <1>3 DEF Apart
-----------------------------------------------------------------------------
(* The runs of pieces a walk is made of.                                   *)

LEMMA RisesByElement ==
  ASSUME NEW count \in Nat, NEW pieces \in [1 .. count -> Pieces], NEW lo \in Nat, NEW hi \in Nat,
         \A n \in 1 .. count : lo <= pieces[n][1] /\ pieces[n][1] + pieces[n][2] <= hi,
         \A k \in lo .. hi - 1 : \E n \in 1 .. count : k \in Piece(pieces[n]),
         \A m, n \in 1 .. count : m < n => Before(pieces[m], pieces[n])
  PROVE  Rises(pieces, lo, hi)
<1>1. pieces \in Seq(Pieces) /\ Len(pieces) = count
  OBVIOUS
<1> QED BY <1>1 DEF Rises, Covers

LEMMA SinglesRise ==
  ASSUME NEW from \in Nat, NEW to \in Nat, from <= to
  PROVE  Rises(Singles(from, to), from, to)
<1> DEFINE s == Singles(from, to)
           count == to - from
<1>1. count \in Nat /\ s \in [1 .. count -> Pieces]
  BY DEF Singles, Pieces
<1>2. \A n \in 1 .. count : s[n][1] = from + n - 1 /\ s[n][2] = 1
  BY DEF Singles
<1>3. ASSUME NEW n \in 1 .. count PROVE from <= s[n][1] /\ s[n][1] + s[n][2] <= to
  BY <1>1, <1>2
<1>4. ASSUME NEW k \in from .. to - 1 PROVE \E n \in 1 .. count : k \in Piece(s[n])
  <2>1. k - from + 1 \in 1 .. count /\ from + (k - from + 1) - 1 = k
    OBVIOUS
  <2> DEFINE n == k - from + 1
  <2>2. n \in 1 .. count /\ s[n][1] = k /\ s[n][2] = 1
    BY <2>1, <1>2
  <2> HIDE DEF n
  <2> QED BY <2>2 DEF Piece
<1>5. ASSUME NEW m \in 1 .. count, NEW n \in 1 .. count, m < n PROVE Before(s[m], s[n])
  BY <1>2, <1>5 DEF Before
<1> HIDE DEF s, count
<1>6. Rises(s, from, to)
  BY <1>1, <1>3, <1>4, <1>5, RisesByElement
<1> QED BY <1>6 DEF s

(* Pieces of one size, each where the one before it ends.                  *)
LEMMA EvenRise ==
  ASSUME NEW from \in Nat, NEW count \in Nat, NEW size \in {2, 4, 8, 16, 32}
  PROVE  Rises([k \in 1 .. count |-> <<from + (k - 1) * size, size>>], from, from + count * size)
<1> DEFINE s == [k \in 1 .. count |-> <<from + (k - 1) * size, size>>]
           hi == from + count * size
<1>1. hi \in Nat
  OBVIOUS
<1>2. s \in [1 .. count -> Pieces]
  BY DEF Pieces
<1>3. \A n \in 1 .. count : s[n][1] = from + (n - 1) * size /\ s[n][2] = size
  OBVIOUS
<1>4. ASSUME NEW n \in 1 .. count PROVE from <= s[n][1] /\ s[n][1] + s[n][2] <= hi
  BY <1>3
<1>5. ASSUME NEW k \in from .. hi - 1 PROVE \E n \in 1 .. count : k \in Piece(s[n])
  <2> DEFINE n == (k - from) \div size + 1
  <2>1. n \in 1 .. count /\ k \in from + (n - 1) * size .. from + (n - 1) * size + size - 1
    OBVIOUS
  <2> HIDE DEF n
  <2> QED BY <2>1, <1>3 DEF Piece
<1>6. ASSUME NEW m \in 1 .. count, NEW n \in 1 .. count, m < n PROVE Before(s[m], s[n])
  BY <1>3, <1>6 DEF Before
<1> HIDE DEF s, hi
<1>7. Rises(s, from, hi)
  BY <1>1, <1>2, <1>4, <1>5, <1>6, RisesByElement
<1> QED BY <1>7 DEF s, hi

LEMMA RisesConcat ==
  ASSUME NEW p, NEW q, NEW lo \in Nat, NEW mid \in Nat, NEW hi \in Nat, lo <= mid, mid <= hi,
         Rises(p, lo, mid), Rises(q, mid, hi)
  PROVE  Rises(p \o q, lo, hi)
<1> DEFINE s == p \o q
<1>1. /\ s \in Seq(Pieces) /\ Len(p) \in Nat /\ Len(q) \in Nat /\ Len(s) = Len(p) + Len(q)
      /\ \A n \in 1 .. Len(s) : s[n] = IF n <= Len(p) THEN p[n] ELSE q[n - Len(p)]
  BY DEF Rises
<1>2. /\ \A n \in 1 .. Len(p) : p[n][1] \in Nat /\ p[n][2] \in Nat /\ lo <= p[n][1] /\ p[n][1] + p[n][2] <= mid
      /\ \A n \in 1 .. Len(q) : q[n][1] \in Nat /\ q[n][2] \in Nat /\ mid <= q[n][1] /\ q[n][1] + q[n][2] <= hi
  BY PiecesNat DEF Rises, Covers
<1> HIDE DEF s
<1>3. ASSUME NEW n \in 1 .. Len(s) PROVE lo <= s[n][1] /\ s[n][1] + s[n][2] <= hi
  <2>1. CASE n <= Len(p)
    <3>1. n \in 1 .. Len(p) /\ s[n] = p[n]
      BY <2>1, <1>1
    <3> QED BY <3>1, <1>2
  <2>2. CASE n > Len(p)
    <3>1. n - Len(p) \in 1 .. Len(q) /\ s[n] = q[n - Len(p)]
      BY <2>2, <1>1
    <3> QED BY <3>1, <1>2
  <2> QED BY <2>1, <2>2, <1>1
<1>4. ASSUME NEW k \in lo .. hi - 1 PROVE \E n \in 1 .. Len(s) : k \in Piece(s[n])
  <2>1. CASE k < mid
    <3>1. PICK n \in 1 .. Len(p) : k \in Piece(p[n])
      BY <2>1 DEF Rises, Covers
    <3> QED BY <3>1, <1>1
  <2>2. CASE k >= mid
    <3>1. PICK n \in 1 .. Len(q) : k \in Piece(q[n])
      BY <2>2 DEF Rises, Covers
    <3>2. n + Len(p) \in 1 .. Len(s) /\ s[n + Len(p)] = q[n]
      BY <1>1
    <3> QED BY <3>1, <3>2
  <2> QED BY <2>1, <2>2
<1>5. ASSUME NEW m \in 1 .. Len(s), NEW n \in 1 .. Len(s), m < n PROVE Before(s[m], s[n])
  <2>1. CASE n <= Len(p)
    <3>1. m \in 1 .. Len(p) /\ n \in 1 .. Len(p) /\ s[m] = p[m] /\ s[n] = p[n]
      BY <2>1, <1>1, <1>5
    <3> QED BY <3>1, <1>5 DEF Rises
  <2>2. CASE m <= Len(p) /\ n > Len(p)
    <3>1. m \in 1 .. Len(p) /\ n - Len(p) \in 1 .. Len(q) /\ s[m] = p[m] /\ s[n] = q[n - Len(p)]
      BY <2>2, <1>1
    <3>2. /\ p[m][1] \in Nat /\ p[m][2] \in Nat /\ p[m][1] + p[m][2] <= mid
          /\ q[n - Len(p)][1] \in Nat /\ mid <= q[n - Len(p)][1]
      BY <3>1, <1>2
    <3>3. p[m][1] + p[m][2] <= q[n - Len(p)][1]
      BY ONLY <3>2, mid \in Nat
    <3> QED BY <3>1, <3>3 DEF Before
  <2>3. CASE m > Len(p)
    <3>1. /\ m - Len(p) \in 1 .. Len(q) /\ n - Len(p) \in 1 .. Len(q) /\ m - Len(p) < n - Len(p)
          /\ s[m] = q[m - Len(p)] /\ s[n] = q[n - Len(p)]
      BY <2>3, <1>1, <1>5
    <3> QED BY <3>1 DEF Rises
  <2> QED BY <2>1, <2>2, <2>3, <1>1, <1>5
<1>6. Rises(s, lo, hi)
  BY <1>1, <1>3, <1>4, <1>5 DEF Rises, Covers
<1> QED BY <1>6 DEF s

LEMMA ReverseFalls ==
  ASSUME NEW p, NEW lo \in Nat, NEW hi \in Nat, Rises(p, lo, hi)
  PROVE  Falls(Reverse(p), lo, hi)
<1> DEFINE s == Reverse(p)
           L == Len(p)
<1>1. L \in Nat /\ p \in Seq(Pieces)
  BY DEF Rises
<1>2. /\ s \in Seq(Pieces) /\ Len(s) = L
      /\ \A n \in 1 .. L : L - n + 1 \in 1 .. L /\ s[n] = p[L - n + 1]
  BY <1>1 DEF Reverse
<1> HIDE DEF s
<1>3. ASSUME NEW n \in 1 .. L PROVE lo <= s[n][1] /\ s[n][1] + s[n][2] <= hi
  BY <1>2 DEF Rises, Covers
<1>4. ASSUME NEW k \in lo .. hi - 1 PROVE \E n \in 1 .. L : k \in Piece(s[n])
  <2>1. PICK n \in 1 .. L : k \in Piece(p[n])
    BY DEF Rises, Covers
  <2>2. L - n + 1 \in 1 .. L /\ L - (L - n + 1) + 1 = n
    BY <1>1
  <2> QED BY <2>1, <2>2, <1>2
<1>5. ASSUME NEW m \in 1 .. L, NEW n \in 1 .. L, m < n PROVE Before(s[n], s[m])
  <2>1. L - n + 1 < L - m + 1
    BY <1>1, <1>5
  <2> QED BY <2>1, <1>2 DEF Rises
<1> QED BY <1>2, <1>3, <1>4, <1>5 DEF Falls, Covers, s

LEMMA ReverseIs ==
  ASSUME NEW p \in Seq(Pieces)
  PROVE  /\ Reverse(p) \in Seq(Pieces) /\ Len(Reverse(p)) = Len(p) /\ Len(p) \in Nat
         /\ \A n \in 1 .. Len(p) : Reverse(p)[n] = p[Len(p) - n + 1]
BY DEF Reverse

LEMMA ConcatIs ==
  ASSUME NEW p \in Seq(Pieces), NEW q \in Seq(Pieces)
  PROVE  /\ p \o q \in Seq(Pieces) /\ Len(p \o q) = Len(p) + Len(q)
         /\ \A n \in 1 .. Len(p) + Len(q) : (p \o q)[n] = IF n <= Len(p) THEN p[n] ELSE q[n - Len(p)]
OBVIOUS

LEMMA ReverseConcat ==
  ASSUME NEW p \in Seq(Pieces), NEW q \in Seq(Pieces)
  PROVE  Reverse(p) \o Reverse(q) = Reverse(q \o p)
<1> DEFINE s == q \o p
           a == Reverse(p)
           b == Reverse(q)
           r == a \o b
           t == Reverse(s)
           i == Len(p)
           j == Len(q)
<1>1. /\ i \in Nat /\ j \in Nat /\ s \in Seq(Pieces) /\ Len(s) = j + i
      /\ \A n \in 1 .. j + i : s[n] = IF n <= j THEN q[n] ELSE p[n - j]
  BY ConcatIs
<1>2. /\ a \in Seq(Pieces) /\ Len(a) = i /\ \A n \in 1 .. i : a[n] = p[i - n + 1]
      /\ b \in Seq(Pieces) /\ Len(b) = j /\ \A n \in 1 .. j : b[n] = q[j - n + 1]
  BY ReverseIs
<1> HIDE DEF s, a, b
<1>3. /\ r \in Seq(Pieces) /\ Len(r) = i + j
      /\ \A n \in 1 .. i + j : r[n] = IF n <= i THEN a[n] ELSE b[n - i]
  BY <1>2, ConcatIs
<1>4. t \in Seq(Pieces) /\ Len(t) = Len(s) /\ \A n \in 1 .. Len(s) : t[n] = s[Len(s) - n + 1]
  BY <1>1, ReverseIs
<1> HIDE DEF r, t, i, j
<1>5. ASSUME NEW n \in 1 .. i + j PROVE r[n] = t[n]
  <2> DEFINE m == Len(s) - n + 1
  <2>3. t[n] = s[m] /\ m = i + j - n + 1
    BY <1>1, <1>4
  <2>1. CASE n <= i
    <3>1. m \in 1 .. j + i /\ m > j /\ m - j = i - n + 1 /\ n \in 1 .. i
      BY <2>1, <2>3, <1>1
    <3>2. r[n] = p[i - n + 1]
      BY <2>1, <3>1, <1>2, <1>3
    <3>3. s[m] = p[m - j]
      <4> HIDE DEF m
      <4> QED BY <3>1, <1>1
    <3> QED BY <3>1, <3>2, <3>3, <2>3
  <2>2. CASE n > i
    <3>1. m \in 1 .. j + i /\ m <= j /\ m = j - (n - i) + 1 /\ n - i \in 1 .. j
      BY <2>2, <2>3, <1>1
    <3>2. r[n] = q[j - (n - i) + 1]
      <4>1. r[n] = b[n - i]
        BY <2>2, <1>1, <1>3
      <4> QED BY <4>1, <3>1, <1>2
    <3>3. s[m] = q[m]
      <4> HIDE DEF m
      <4> QED BY <3>1, <1>1
    <3> QED BY <3>1, <3>2, <3>3, <2>3
  <2> QED BY <2>1, <2>2, <1>1
<1>6. r = t
  BY <1>1, <1>3, <1>4, <1>5, SeqEqual
<1> QED BY <1>6 DEF r, a, b, t, s
-----------------------------------------------------------------------------
(* The moves.                                                              *)

LEMMA WordSizeIs == ASSUME WordBytesAssumption PROVE WordBytes \in {2, 4, 8}
BY DEF WordBytesAssumption

LEMMA RegionTail ==
  ASSUME WordBytesAssumption, NEW bytes \in Nat
  PROVE  /\ bytes \div WordBytes \in Nat /\ (bytes \div WordBytes) * WordBytes \in Nat
         /\ (bytes \div WordBytes) * WordBytes <= bytes
BY WordSizeIs

LEMMA WordsRise ==
  ASSUME WordBytesAssumption, NEW from \in Nat, NEW count \in Nat
  PROVE  Rises(WholeWords(from, count), from, from + count * WordBytes)
BY EvenRise, WordSizeIs DEF WholeWords

(* memor_cpy, and move_down by its walk, moves every byte of a region as it *)
(* was: to a place that does not overlap it, and to any lower one that      *)
(* does.                                                                    *)
THEOREM CpyMoves ==
  ASSUME WordBytesAssumption, NEW mem, NEW dst \in Nat, NEW src \in Nat, NEW bytes \in Nat,
         IsMemory(mem), Within(mem, src, bytes),
         dst <= src \/ Apart(dst, src, bytes)
  PROVE  Cpy(mem, dst, src, bytes) = MoveWanted(mem, dst, src, bytes)
<1> DEFINE words == bytes \div WordBytes
           walk == WholeWords(0, words) \o Singles(words * WordBytes, bytes)
<1>1. words \in Nat /\ words * WordBytes \in Nat /\ words * WordBytes <= bytes
  BY RegionTail
<1>2. Cpy(mem, dst, src, bytes) = Copied(mem, dst, src, walk)
  BY DEF Cpy
<1> HIDE DEF words
<1>3. Rises(WholeWords(0, words), 0, words * WordBytes)
  BY <1>1, WordsRise, WordSizeIs
<1>4. Rises(Singles(words * WordBytes, bytes), words * WordBytes, bytes)
  BY <1>1, SinglesRise
<1>5. Rises(walk, 0, bytes)
  BY <1>1, <1>3, <1>4, RisesConcat
<1> HIDE DEF walk
<1>6. Unspoilt(walk, dst, src)
  BY <1>5, RisesUnspoilt
<1> QED BY <1>2, <1>5, <1>6, WalkMoves DEF Rises

(* memor_move_up moves every byte of a region as it was: to a place that    *)
(* does not overlap it, and to any higher one that does, the four words it  *)
(* takes in one piece included.                                             *)
THEOREM MoveUpMoves ==
  ASSUME WordBytesAssumption, NEW mem, NEW dst \in Nat, NEW src \in Nat, NEW bytes \in Nat,
         IsMemory(mem), Within(mem, src, bytes),
         src <= dst \/ Apart(dst, src, bytes)
  PROVE  MoveUp(mem, dst, src, bytes) = MoveWanted(mem, dst, src, bytes)
<1> DEFINE words == bytes \div WordBytes
           fours == words \div 4
           left == words - 4 * fours
           units == [k \in 1 .. fours |-> <<(left + 4 * (k - 1)) * WordBytes, 4 * WordBytes>>]
           odd == Singles(words * WordBytes, bytes)
           single == WholeWords(0, left)
           walk == single \o (units \o odd)
<1>1. MoveUp(mem, dst, src, bytes) = Copied(mem, dst, src, Reverse(units \o odd) \o Reverse(single))
  BY DEF MoveUp
<1>2. words \in Nat /\ words * WordBytes \in Nat /\ words * WordBytes <= bytes
  BY RegionTail
<1> HIDE DEF words
<1>3. /\ fours \in Nat /\ left \in Nat /\ left * WordBytes \in Nat
      /\ left * WordBytes + fours * (4 * WordBytes) = words * WordBytes
  BY <1>2, WordSizeIs
<1>4. Rises(odd, words * WordBytes, bytes)
  BY <1>2, SinglesRise
<1> HIDE DEF fours, left
<1>5. Rises(units, left * WordBytes, words * WordBytes)
  <2> DEFINE even == [k \in 1 .. fours |-> <<left * WordBytes + (k - 1) * (4 * WordBytes), 4 * WordBytes>>]
  <2>1. units = even
    BY <1>3, WordSizeIs
  <2>2. 4 * WordBytes \in {2, 4, 8, 16, 32}
    BY WordSizeIs
  <2>3. Rises(even, left * WordBytes, left * WordBytes + fours * (4 * WordBytes))
    BY <1>3, <2>2, EvenRise
  <2> HIDE DEF even, units
  <2> QED BY <2>1, <2>3, <1>3
<1>6. Rises(single, 0, left * WordBytes)
  BY <1>3, WordsRise, WordSizeIs
<1> HIDE DEF units, odd, single
<1>7. left * WordBytes <= words * WordBytes
  BY <1>3, WordSizeIs
<1>8. Rises(units \o odd, left * WordBytes, bytes)
  BY <1>2, <1>3, <1>4, <1>5, <1>7, RisesConcat
<1>9. Rises(walk, 0, bytes)
  BY <1>2, <1>3, <1>6, <1>7, <1>8, RisesConcat
<1>10. Reverse(units \o odd) \o Reverse(single) = Reverse(walk)
  BY <1>6, <1>8, ReverseConcat DEF Rises
<1> HIDE DEF walk
<1>11. Falls(Reverse(walk), 0, bytes)
  BY <1>9, ReverseFalls
<1>12. Unspoilt(Reverse(walk), dst, src)
  BY <1>11, FallsUnspoilt
<1>13. Copied(mem, dst, src, Reverse(walk)) = MoveWanted(mem, dst, src, bytes)
  BY <1>11, <1>12, WalkMoves DEF Falls
<1> QED BY <1>1, <1>10, <1>13

(* proxim.read moves every byte of a region that does not overlap its       *)
(* destination, wherever the destination lies in a word.                    *)
THEOREM ReadMoves ==
  ASSUME WordBytesAssumption, NEW mem, NEW dst \in Nat, NEW src \in Nat, NEW bytes \in Nat,
         IsMemory(mem), Within(mem, src, bytes), Apart(dst, src, bytes)
  PROVE  Read(mem, dst, src, bytes) = MoveWanted(mem, dst, src, bytes)
<1> DEFINE skew == (WordBytes - (dst % WordBytes)) % WordBytes
           head == IF skew < bytes THEN skew ELSE bytes
           words == (bytes - head) \div WordBytes
           aligned == head + words * WordBytes
           walk == Singles(0, head) \o WholeWords(head, words) \o Singles(aligned, bytes)
<1>1. Read(mem, dst, src, bytes) = Copied(mem, dst, src, walk)
  BY DEF Read
<1>2. skew \in Nat
  BY WordSizeIs
<1> HIDE DEF skew
<1>3. head \in Nat /\ head <= bytes
  BY <1>2
<1> HIDE DEF head
<1>4. words \in Nat /\ aligned \in Nat /\ head <= aligned /\ aligned <= bytes
  BY <1>3, WordSizeIs
<1>5. Rises(Singles(0, head), 0, head)
  BY <1>3, SinglesRise
<1> HIDE DEF words
<1>6. Rises(WholeWords(head, words), head, aligned)
  BY <1>3, <1>4, WordsRise
<1> HIDE DEF aligned
<1>7. Rises(Singles(aligned, bytes), aligned, bytes)
  BY <1>4, SinglesRise
<1>8. Rises(Singles(0, head) \o WholeWords(head, words), 0, aligned)
  BY <1>3, <1>4, <1>5, <1>6, RisesConcat
<1>9. Rises(walk, 0, bytes)
  BY <1>4, <1>7, <1>8, RisesConcat
<1> HIDE DEF walk
<1>10. Unspoilt(walk, dst, src)
  BY <1>9, RisesUnspoilt
<1> QED BY <1>1, <1>9, <1>10, WalkMoves DEF Rises
-----------------------------------------------------------------------------
(* The scans.                                                              *)

(* WholeWords that cover an extent, no two of which share a byte.               *)
Spans(chunks, bytes) ==
  /\ \A c \in chunks : c[1] \in Nat /\ c[2] \in Nat /\ c[1] + c[2] <= bytes
  /\ \A k \in 0 .. bytes - 1 : \E c \in chunks : k \in Piece(c)
  /\ \A c, d \in chunks : c # d => Before(c, d) \/ Before(d, c)

(* Hit, of the bytes of a set.                                             *)
HitIn(chunks, H) ==
  LET some == {c \in chunks : Piece(c) \cap H # {}}
  IN  IF some = {} THEN {}
      ELSE {Min(Piece(CHOOSE c \in some : \A d \in some : c[1] <= d[1]) \cap H)}

LEMMA MinIs ==
  ASSUME NEW S \in SUBSET Int, NEW f \in S, \A h \in S : f <= h
  PROVE  Min(S) = f
<1> DEFINE x == CHOOSE e \in S : \A h \in S : e <= h
<1>1. x \in S /\ \A h \in S : x <= h
  OBVIOUS
<1>2. x = f
  <2> HIDE DEF x
  <2> QED BY <1>1
<1> QED BY <1>2 DEF Min

LEMMA MinOne == ASSUME NEW f \in Int PROVE Min({f}) = f
<1> DEFINE S == {f}
<1>1. S \in SUBSET Int /\ f \in S /\ \A h \in S : f <= h
  OBVIOUS
<1> HIDE DEF S
<1>2. Min(S) = f
  BY <1>1, MinIs
<1> QED BY <1>2 DEF S

LEMMA MaxIs ==
  ASSUME NEW S \in SUBSET Int, NEW f \in S, \A h \in S : h <= f
  PROVE  Max(S) = f
<1> DEFINE x == CHOOSE e \in S : \A h \in S : e >= h
<1>1. x \in S /\ \A h \in S : x >= h
  OBVIOUS
<1>2. x = f
  <2> HIDE DEF x
  <2> QED BY <1>1
<1> QED BY <1>2 DEF Max

LEMMA HitInFirst ==
  ASSUME NEW chunks, NEW bytes \in Nat, Spans(chunks, bytes),
         NEW H \in SUBSET Int, NEW f \in H, f \in 0 .. bytes - 1,
         \A h \in H \cap (0 .. bytes - 1) : f <= h
  PROVE  HitIn(chunks, H) = {f}
<1> DEFINE some == {c \in chunks : Piece(c) \cap H # {}}
           Least(c) == \A d \in some : c[1] <= d[1]
           e == CHOOSE c \in some : Least(c)
<1>1. PICK c \in chunks : f \in Piece(c)
  BY DEF Spans
<1>2. c \in some
  BY <1>1
<1>3. \A d \in some : d # c => c[1] < d[1]
  <2> SUFFICES ASSUME NEW d \in some, d # c PROVE c[1] < d[1]
    OBVIOUS
  <2>1. PICK h \in H : h \in Piece(d)
    OBVIOUS
  <2>4. h \in 0 .. bytes - 1
    <3>1. d[1] \in Nat /\ d[2] \in Nat /\ d[1] + d[2] <= bytes /\ h \in Int
      BY DEF Spans
    <3> QED BY ONLY <3>1, <2>1, bytes \in Nat DEF Piece
  <2>2. c[1] \in Nat /\ c[2] \in Nat /\ d[1] \in Nat /\ d[2] \in Nat /\ f <= h /\ f \in Nat /\ h \in Nat
    BY <1>1, <2>4 DEF Spans
  <2>3. Before(c, d) \/ Before(d, c)
    BY DEF Spans
  <2> QED BY ONLY <1>1, <2>1, <2>2, <2>3 DEF Before, Piece
<1>4. \A d \in some : d[1] \in Nat
  BY DEF Spans
<1>5. Least(c)
  BY <1>2, <1>3, <1>4
<1>6. e \in some /\ Least(e)
  <2> HIDE DEF some, Least
  <2> QED BY <1>2, <1>5
<1>7. e = c
  <2> HIDE DEF e, some
  <2> QED BY <1>2, <1>3, <1>4, <1>6
<1>8. Min(Piece(c) \cap H) = f
  <2> DEFINE S == Piece(c) \cap H
  <2>1. f \in S /\ S \in SUBSET Int
    BY <1>1
  <2>2. ASSUME NEW h \in S PROVE f <= h
    <3>1. c[1] \in Nat /\ c[2] \in Nat /\ c[1] + c[2] <= bytes /\ h \in Int /\ h \in Piece(c)
      BY DEF Spans
    <3>2. h \in 0 .. bytes - 1
      BY ONLY <3>1, bytes \in Nat DEF Piece
    <3> QED BY <3>2
  <2> HIDE DEF S
  <2>3. Min(S) = f
    BY <2>1, <2>2, MinIs
  <2> QED BY <2>3 DEF S
<1>9. HitIn(chunks, H) = {Min(Piece(e) \cap H)}
  <2>1. some # {}
    BY <1>2
  <2> QED BY <2>1 DEF HitIn
<1> QED BY <1>7, <1>8, <1>9

LEMMA HitInNone ==
  ASSUME NEW chunks, NEW bytes \in Nat, Spans(chunks, bytes), NEW H, H \cap (0 .. bytes - 1) = {}
  PROVE  HitIn(chunks, H) = {}
<1>1. ASSUME NEW c \in chunks PROVE Piece(c) \cap H = {}
  <2>1. c[1] \in Nat /\ c[2] \in Nat /\ c[1] + c[2] <= bytes
    BY DEF Spans
  <2>2. Piece(c) \subseteq 0 .. bytes - 1
    BY ONLY <2>1, bytes \in Nat DEF Piece
  <2> QED BY <2>2
<1> QED BY <1>1 DEF HitIn

LEMMA FirstOf ==
  ASSUME NEW bytes \in Nat, NEW H \in SUBSET (0 .. bytes - 1), H # {}
  PROVE  \E f \in H : \A h \in H : f <= h
<1>1. H \in SUBSET Nat
  OBVIOUS
<1> QED BY <1>1, LeastOf

LEMMA WordsSpan ==
  ASSUME WordBytesAssumption, NEW lead \in Nat, NEW bytes \in Nat, lead <= bytes
  PROVE  Spans({<<k, 1>> : k \in 0 .. lead - 1} \cup FullWords(lead, bytes) \cup Rest(lead, bytes), bytes)
<1> DEFINE singles == {<<k, 1>> : k \in 0 .. lead - 1}
           words == (bytes - lead) \div WordBytes
           full == lead + words * WordBytes
<1>1. words \in Nat /\ full \in Nat /\ full <= bytes /\ lead <= full
  BY WordSizeIs
<1>2. \A c \in singles : c[1] \in Nat /\ c[2] = 1 /\ c[1] < lead
  OBVIOUS
<1>3. \A c \in FullWords(lead, bytes) : \E w \in 0 .. words - 1 : c = <<lead + w * WordBytes, WordBytes>>
  BY DEF FullWords
<1>4. \A c \in Rest(lead, bytes) : c = <<full, bytes - full>> /\ full < bytes
  BY <1>1 DEF Rest
<1>5. ASSUME NEW k \in 0 .. bytes - 1
      PROVE  \E c \in singles \cup FullWords(lead, bytes) \cup Rest(lead, bytes) : k \in Piece(c)
  <2>1. CASE k < lead
    <3>1. <<k, 1>> \in singles /\ k \in Piece(<<k, 1>>)
      BY <2>1 DEF Piece
    <3> QED BY <3>1
  <2>2. CASE lead <= k /\ k < full
    <3> DEFINE w == (k - lead) \div WordBytes
               c == <<lead + w * WordBytes, WordBytes>>
    <3>1. w \in 0 .. words - 1 /\ lead + w * WordBytes <= k /\ k <= lead + w * WordBytes + WordBytes - 1
      BY <2>2, <1>1, WordSizeIs
    <3>2. c \in FullWords(lead, bytes)
      <4> HIDE DEF w
      <4> QED BY <3>1 DEF FullWords
    <3>3. k \in Piece(c)
      <4> HIDE DEF w
      <4> QED BY <3>1, WordSizeIs DEF Piece
    <3> QED BY <3>2, <3>3
  <2>3. CASE full <= k
    <3>1. <<full, bytes - full>> \in Rest(lead, bytes)
      BY <2>3, <1>1 DEF Rest
    <3>2. k \in Piece(<<full, bytes - full>>)
      <4> HIDE DEF full
      <4> QED BY <2>3, <1>1 DEF Piece
    <3> QED BY <3>1, <3>2
  <2> QED BY <2>1, <2>2, <2>3, <1>1
<1> HIDE DEF singles, words, full
<1>6. \A c \in FullWords(lead, bytes) :
        c[1] \in Nat /\ c[2] \in Nat /\ lead <= c[1] /\ c[1] + c[2] <= full
  <2> SUFFICES ASSUME NEW w \in 0 .. words - 1
               PROVE  LET c == <<lead + w * WordBytes, WordBytes>>
                      IN  c[1] \in Nat /\ c[2] \in Nat /\ lead <= c[1] /\ c[1] + c[2] <= full
    BY <1>3
  <2> QED BY <1>1, WordSizeIs DEF full
<1>7. ASSUME NEW c \in FullWords(lead, bytes), NEW d \in FullWords(lead, bytes), c # d
      PROVE  Before(c, d) \/ Before(d, c)
  <2>1. PICK v \in 0 .. words - 1 : c = <<lead + v * WordBytes, WordBytes>>
    BY <1>3
  <2>2. PICK w \in 0 .. words - 1 : d = <<lead + w * WordBytes, WordBytes>>
    BY <1>3
  <2>3. v < w \/ w < v
    BY <1>1, <1>7, <2>1, <2>2
  <2> QED BY <1>1, <2>1, <2>2, <2>3, WordSizeIs DEF Before
<1>8. \A c \in Rest(lead, bytes) : c[1] \in Nat /\ c[2] \in Nat /\ c[1] = full /\ c[1] + c[2] = bytes
  BY <1>1, <1>4
<1>9. ASSUME NEW c \in singles, NEW d \in singles, c # d PROVE Before(c, d) \/ Before(d, c)
  <2>1. c[1] # d[1]
    BY <1>9 DEF singles
  <2> QED BY <2>1, <1>2 DEF Before
<1>10. ASSUME NEW c \in singles \cup FullWords(lead, bytes) \cup Rest(lead, bytes)
       PROVE  c[1] \in Nat /\ c[2] \in Nat /\ c[1] + c[2] <= bytes
  BY <1>1, <1>2, <1>6, <1>8
<1>11. ASSUME NEW c \in singles \cup FullWords(lead, bytes) \cup Rest(lead, bytes),
              NEW d \in singles \cup FullWords(lead, bytes) \cup Rest(lead, bytes), c # d
       PROVE  Before(c, d) \/ Before(d, c)
  <2>1. CASE c \in Rest(lead, bytes) /\ d \in Rest(lead, bytes)
    BY <2>1, <1>4, <1>11
  <2>2. CASE c \in singles /\ d \in FullWords(lead, bytes) \cup Rest(lead, bytes)
    BY <2>2, <1>1, <1>2, <1>6, <1>8 DEF Before
  <2>3. CASE d \in singles /\ c \in FullWords(lead, bytes) \cup Rest(lead, bytes)
    BY <2>3, <1>1, <1>2, <1>6, <1>8 DEF Before
  <2>4. CASE c \in FullWords(lead, bytes) /\ d \in Rest(lead, bytes)
    BY <2>4, <1>1, <1>6, <1>8 DEF Before
  <2>5. CASE d \in FullWords(lead, bytes) /\ c \in Rest(lead, bytes)
    BY <2>5, <1>1, <1>6, <1>8 DEF Before
  <2> QED BY <2>1, <2>2, <2>3, <2>4, <2>5, <1>7, <1>9, <1>11
<1> QED BY <1>5, <1>10, <1>11 DEF Spans, singles

(* memor_cmp answers with the difference of the first bytes that differ, or *)
(* 0 where the regions are alike.                                           *)
THEOREM CmpFinds ==
  ASSUME WordBytesAssumption, NEW mem, NEW src \in Nat, NEW other \in Nat, NEW bytes \in Nat
  PROVE  CmpWanted(mem, src, other, bytes, Cmp(mem, src, other, bytes))
<1> DEFINE chunks == FullWords(0, bytes) \cup Rest(0, bytes)
           Differ(k) == mem[src + k] # mem[other + k]
           H == {k \in Int : Differ(k)}
           alike == {n \in 0 .. bytes : \A k \in 0 .. n - 1 : mem[src + k] = mem[other + k]}
<1>1. Spans(chunks, bytes)
  <2>1. {<<k, 1>> : k \in 0 .. 0 - 1} = {}
    OBVIOUS
  <2> QED BY <2>1, WordsSpan
<1>2. Hit(chunks, Differ) = HitIn(chunks, H)
  <2> DEFINE Held(c) == {k \in c[1] .. c[1] + c[2] - 1 : Differ(k)}
             one == {c \in chunks : Held(c) # {}}
             two == {c \in chunks : Piece(c) \cap H # {}}
             Pick(some) == CHOOSE c \in some : \A d \in some : c[1] <= d[1]
  <2>1. \A c : Held(c) = Piece(c) \cap H
    <3> HIDE DEF Differ
    <3> QED BY DEF Piece
  <2>2. one = two
    BY <2>1
  <2>3. Hit(chunks, Differ) = IF one = {} THEN {} ELSE {Min(Held(Pick(one)))}
    <3> HIDE DEF chunks
    <3> QED BY DEF Hit
  <2>4. HitIn(chunks, H) = IF two = {} THEN {} ELSE {Min(Piece(Pick(two)) \cap H)}
    <3> HIDE DEF chunks, H
    <3> QED BY DEF HitIn
  <2> HIDE DEF Pieces, one, two, H, Differ, chunks
  <2>5. Held(Pick(one)) = Piece(Pick(two)) \cap H
    <3> HIDE DEF Pick
    <3> QED BY <2>1, <2>2
  <2> HIDE DEF Pick
  <2> QED BY <2>2, <2>3, <2>4, <2>5
<1>3. Cmp(mem, src, other, bytes) =
        IF HitIn(chunks, H) = {} THEN 0
        ELSE mem[src + Min(HitIn(chunks, H))] - mem[other + Min(HitIn(chunks, H))]
  BY <1>2 DEF Cmp
<1>4. CmpWanted(mem, src, other, bytes, Cmp(mem, src, other, bytes)) <=>
        Cmp(mem, src, other, bytes) =
          IF Max(alike) = bytes THEN 0 ELSE mem[src + Max(alike)] - mem[other + Max(alike)]
  BY DEF CmpWanted
<1>5. alike \in SUBSET Int
  OBVIOUS
<1>6. CASE H \cap (0 .. bytes - 1) = {}
  <2>1. HitIn(chunks, H) = {}
    <3> HIDE DEF chunks, H
    <3> QED BY <1>1, <1>6, HitInNone
  <2>2. bytes \in alike
    <3>1. \A k \in 0 .. bytes - 1 : k \notin H /\ k \in Int
      <4> HIDE DEF H
      <4> QED BY <1>6
    <3>2. \A k \in 0 .. bytes - 1 : mem[src + k] = mem[other + k]
      BY <3>1
    <3> HIDE DEF H
    <3> QED BY <3>2
  <2>3. \A n \in alike : n <= bytes
    OBVIOUS
  <2> HIDE DEF alike, chunks, H
  <2>4. Max(alike) = bytes
    BY <1>5, <2>2, <2>3, MaxIs
  <2> QED BY <1>3, <1>4, <2>1, <2>4
<1>7. CASE H \cap (0 .. bytes - 1) # {}
  <2>1. PICK f \in H \cap (0 .. bytes - 1) : \A h \in H \cap (0 .. bytes - 1) : f <= h
    <3> HIDE DEF H
    <3> QED BY <1>7, FirstOf
  <2>2. HitIn(chunks, H) = {f}
    <3>1. H \in SUBSET Int
      OBVIOUS
    <3> HIDE DEF H, chunks
    <3> QED BY <1>1, <2>1, <3>1, HitInFirst
  <2>3. Min({f}) = f
    BY <2>1, MinOne
  <2>4. f \in alike
    BY <2>1
  <2>5. ASSUME NEW n \in alike PROVE n <= f
    BY <2>1
  <2> HIDE DEF alike, chunks
  <2>6. Max(alike) = f
    BY <1>5, <2>4, <2>5, MaxIs
  <2>7. f # bytes
    BY <2>1
  <2> HIDE DEF H
  <2> QED BY <1>3, <1>4, <2>2, <2>3, <2>6, <2>7
<1> QED BY <1>6, <1>7

(* memor_chr answers with the first place of an extent that holds a byte,   *)
(* or with none, wherever the extent lies in a word.                        *)
THEOREM ChrFinds ==
  ASSUME WordBytesAssumption, NEW mem, NEW src \in Nat, NEW val, NEW bytes \in Nat
  PROVE  Chr(mem, src, val, bytes) = ChrWanted(mem, src, val, bytes)
<1> DEFINE past == src % WordBytes
           to == IF past = 0 THEN 0 ELSE WordBytes - past
           lead == IF to > bytes THEN bytes ELSE to
           chunks == {<<k, 1>> : k \in 0 .. lead - 1} \cup FullWords(lead, bytes) \cup Rest(lead, bytes)
           Sought(k) == mem[src + k] = val
           H == {k \in Int : Sought(k)}
           found == {k \in src .. src + bytes - 1 : mem[k] = val}
<1>1. lead \in Nat /\ lead <= bytes
  BY WordSizeIs
<1>2. Chr(mem, src, val, bytes) =
        IF Hit(chunks, Sought) = {} THEN -1 ELSE src + Min(Hit(chunks, Sought))
  BY DEF Chr
<1> HIDE DEF lead
<1>3. Spans(chunks, bytes)
  BY <1>1, WordsSpan
<1>4. Hit(chunks, Sought) = HitIn(chunks, H)
  <2> DEFINE Held(c) == {k \in c[1] .. c[1] + c[2] - 1 : Sought(k)}
             one == {c \in chunks : Held(c) # {}}
             two == {c \in chunks : Piece(c) \cap H # {}}
             Pick(some) == CHOOSE c \in some : \A d \in some : c[1] <= d[1]
  <2>1. \A c : Held(c) = Piece(c) \cap H
    <3> HIDE DEF Sought
    <3> QED BY DEF Piece
  <2>2. one = two
    BY <2>1
  <2>3. Hit(chunks, Sought) = IF one = {} THEN {} ELSE {Min(Held(Pick(one)))}
    <3> HIDE DEF chunks
    <3> QED BY DEF Hit
  <2>4. HitIn(chunks, H) = IF two = {} THEN {} ELSE {Min(Piece(Pick(two)) \cap H)}
    <3> HIDE DEF chunks, H
    <3> QED BY DEF HitIn
  <2> HIDE DEF Pieces, one, two, H, Sought, chunks
  <2>5. Held(Pick(one)) = Piece(Pick(two)) \cap H
    <3> HIDE DEF Pick
    <3> QED BY <2>1, <2>2
  <2> HIDE DEF Pick
  <2> QED BY <2>2, <2>3, <2>4, <2>5
<1> HIDE DEF chunks
<1>5. \A k \in 0 .. bytes - 1 : k \in H <=> src + k \in found
  OBVIOUS
<1>6. \A k \in found : k - src \in 0 .. bytes - 1 /\ src + (k - src) = k
  OBVIOUS
<1>7. found \in SUBSET Int /\ H \in SUBSET Int
  OBVIOUS
<1> HIDE DEF found, H, Sought
<1>8. CASE H \cap (0 .. bytes - 1) = {}
  <2>1. HitIn(chunks, H) = {}
    BY <1>3, <1>8, HitInNone
  <2>2. found = {}
    <3> SUFFICES ASSUME NEW k \in found PROVE FALSE
      OBVIOUS
    <3>1. k - src \in H
      BY <1>5, <1>6
    <3> QED BY <3>1, <1>6, <1>8
  <2> QED BY <1>2, <1>4, <2>1, <2>2 DEF ChrWanted, found
<1>9. CASE H \cap (0 .. bytes - 1) # {}
  <2>1. PICK f \in H \cap (0 .. bytes - 1) : \A h \in H \cap (0 .. bytes - 1) : f <= h
    BY <1>9, FirstOf
  <2>2. HitIn(chunks, H) = {f}
    BY <1>3, <1>7, <2>1, HitInFirst
  <2>3. Min({f}) = f
    BY <2>1, MinOne
  <2>4. src + f \in found
    BY <1>5, <2>1
  <2>5. ASSUME NEW k \in found PROVE src + f <= k
    <3>1. k - src \in H \cap (0 .. bytes - 1)
      BY <1>5, <1>6
    <3>2. f <= k - src /\ k \in Int /\ f \in Int
      BY <2>1, <3>1, <1>7
    <3> QED BY ONLY <3>2, src \in Nat
  <2>6. Min(found) = src + f
    BY <1>7, <2>4, <2>5, MinIs
  <2>7. ChrWanted(mem, src, val, bytes) = IF found = {} THEN -1 ELSE Min(found)
    BY DEF ChrWanted, found
  <2> QED BY <1>2, <1>4, <2>2, <2>3, <2>4, <2>6, <2>7
<1> QED BY <1>8, <1>9
===============================================================================
