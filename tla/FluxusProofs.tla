------------------------------ MODULE FluxusProofs ------------------------------
(***************************************************************************)
(* Bytes, bits and spans, proved.  A value of any width reads back in the  *)
(* byte order it was written in; the bit writer holds, after every put and *)
(* every alignment, the bits asked of it; and a span holds, after every    *)
(* append, the bytes asked of it, which every take and every part of it    *)
(* then reads.                                                             *)
(***************************************************************************)
EXTENDS MCFluxus, TLAPS

\* Only its lemmas on bytes and finite sets are used here, whatever the size of a word.
LittleV == INSTANCE VerborumProofs WITH Lanes <- 4, BigEndian <- FALSE, WordBytes <- 2

\* A span and a bit writer, each worked a step at a time.
FluxSpec == FluxInit /\ [][SpanNext \/ BitNext]_fluxVars

-----------------------------------------------------------------------------
(* Bytes of a value of 64 bits: the eight bits from a multiple of eight.   *)

Wide == 0 .. 63

Has(V, j, b) == 8 * j + b \in V

OfByte(V, j) == {b \in 0 .. 7 : Has(V, j, b)}

Kept(V, width) == V \cap 0 .. 8 * width - 1

LEMMA EightNumber == \A x : LittleV!NumberOf(x) = E!NumberOf(x)
<1>1. ASSUME NEW x PROVE LittleV!NumberOf(x) = E!NumberOf(x)
  BY DEF LittleV!NumberOf, E!NumberOf, LittleV!MapThenSumSet, E!MapThenSumSet,
    LittleV!MapThenFoldSet, E!MapThenFoldSet
<1> QED BY <1>1

LEMMA EightBits == \A n : LittleV!BitsOf(n) = E!BitsOf(n)
BY DEF LittleV!BitsOf, E!BitsOf

\* The bits of a byte and the byte of some bits.
LEMMA ByteRound ==
  ASSUME NEW C \in SUBSET (0 .. 7)
  PROVE  E!NumberOf(C) \in 0 .. 255 /\ E!BitsOf(E!NumberOf(C)) = C
BY LittleV!BitsOfNumber, EightNumber, EightBits DEF LittleV!Byte

LEMMA ByteHasEight ==
  ASSUME NEW v \in 0 .. 255
  PROVE  E!BitsOf(v) \in SUBSET (0 .. 7)
BY LittleV!ByteBits, EightBits DEF LittleV!Byte

LEMMA ByteAtIs ==
  ASSUME NEW V \in SUBSET Wide, NEW j \in 0 .. 7
  PROVE  /\ E!ByteAt(V, j) = E!NumberOf(OfByte(V, j))
         /\ E!ByteAt(V, j) \in 0 .. 255
         /\ E!BitsOf(E!ByteAt(V, j)) = OfByte(V, j)
<1>1. \A b \in 0 .. 7 : b \in E!ShiftDown(V, 8 * j) <=> 8 * j + b \in V
  <2> SUFFICES ASSUME NEW b \in 0 .. 7 PROVE b \in E!ShiftDown(V, 8 * j) <=> 8 * j + b \in V
    OBVIOUS
  <2>1. b \in 0 .. 64 - 1
    OBVIOUS
  <2>2. \A i \in V : b = i - 8 * j <=> i = 8 * j + b
    BY DEF Wide
  <2> QED BY <2>1, <2>2 DEF E!ShiftDown, E!Positions
<1>2. E!ShiftDown(V, 8 * j) \cap 0 .. 7 = OfByte(V, j)
  BY <1>1 DEF OfByte, Has
<1>3. OfByte(V, j) \in SUBSET (0 .. 7)
  BY DEF OfByte
<1>4. E!ByteAt(V, j) = E!NumberOf(OfByte(V, j))
  BY <1>2 DEF E!ByteAt
<1> QED BY <1>3, <1>4, ByteRound

LEMMA Split ==
  ASSUME NEW x \in Wide
  PROVE  /\ x \div 8 \in 0 .. 7 /\ x % 8 \in 0 .. 7 /\ x = 8 * (x \div 8) + (x % 8)
         /\ \A j \in 0 .. 7, b \in 0 .. 7 : x = 8 * j + b <=> j = x \div 8 /\ b = x % 8
BY DEF Wide

LEMMA SameBytes ==
  ASSUME NEW V \in SUBSET Wide, NEW W \in SUBSET Wide,
         \A j \in 0 .. 7, b \in 0 .. 7 : Has(V, j, b) <=> Has(W, j, b)
  PROVE  V = W
<1>1. \A x \in Wide : x \in V <=> x \in W
  BY Split DEF Has
<1> QED BY <1>1

\* What is gathered from bytes of a memory.
LEMMA LoadedIs ==
  ASSUME NEW mem, NEW at \in Int, NEW width \in 0 .. 8,
         \A k \in 0 .. width - 1 : mem[at + k] \in 0 .. 255
  PROVE  /\ E!Loaded(mem, at, width) \in SUBSET Wide
         /\ \A j \in 0 .. 7, b \in 0 .. 7 :
              Has(E!Loaded(mem, at, width), j, b) <=> j < width /\ b \in E!BitsOf(mem[at + j])
<1> DEFINE Bits(k) == E!BitsOf(mem[at + k])
<1>1. \A k \in 0 .. width - 1 : Bits(k) \in SUBSET (0 .. 7)
  BY ByteHasEight
<1>2. E!Loaded(mem, at, width) = UNION {E!ShiftUp(Bits(k), 8 * k) : k \in 0 .. width - 1}
  BY DEF E!Loaded
<1> HIDE DEF Bits
<1>3. E!Loaded(mem, at, width) \in SUBSET Wide
  <2>1. \A k \in 0 .. width - 1 : E!ShiftUp(Bits(k), 8 * k) \in SUBSET Wide
    <3>1. 0 .. 64 - 1 = Wide
      BY DEF Wide
    <3> QED BY <3>1 DEF E!ShiftUp, E!Positions
  <2> QED BY <1>2, <2>1
<1>4. ASSUME NEW j \in 0 .. 7, NEW b \in 0 .. 7
      PROVE  8 * j + b \in E!Loaded(mem, at, width) <=> j < width /\ b \in Bits(j)
  <2>1. \A k \in 0 .. width - 1 : 8 * j + b \in E!ShiftUp(Bits(k), 8 * k) <=> k = j /\ b \in Bits(k)
    <3> SUFFICES ASSUME NEW k \in 0 .. width - 1
                 PROVE  8 * j + b \in E!ShiftUp(Bits(k), 8 * k) <=> k = j /\ b \in Bits(k)
      OBVIOUS
    <3>1. \A i \in Bits(k) : 8 * j + b = i + 8 * k <=> k = j /\ i = b
      BY <1>1
    <3>2. 8 * j + b \in 0 .. 64 - 1
      OBVIOUS
    <3> QED BY <3>1, <3>2 DEF E!ShiftUp, E!Positions
  <2>2. 8 * j + b \in E!Loaded(mem, at, width)
          <=> \E k \in 0 .. width - 1 : 8 * j + b \in E!ShiftUp(Bits(k), 8 * k)
    BY <1>2
  <2>3. j < width <=> j \in 0 .. width - 1
    OBVIOUS
  <2> QED BY <2>1, <2>2, <2>3
<1> QED BY <1>3, <1>4 DEF Bits, Has

\* The bytes of a value kept to a width.
LEMMA KeptIs ==
  ASSUME NEW V \in SUBSET Wide, NEW width \in 0 .. 8
  PROVE  /\ Kept(V, width) \in SUBSET Wide
         /\ \A j \in 0 .. 7, b \in 0 .. 7 : Has(Kept(V, width), j, b) <=> j < width /\ Has(V, j, b)
<1>1. \A j \in 0 .. 7, b \in 0 .. 7 : 8 * j + b \in 0 .. 8 * width - 1 <=> j < width
  OBVIOUS
<1> QED BY <1>1 DEF Kept, Has

\* One step of the reversal swaps the neighbours of a size.
Beside(j, q) == IF (j \div q) % 2 = 0 THEN j + q ELSE j - q

LEMMA SwappedIs ==
  ASSUME NEW V \in SUBSET Wide, NEW q \in {1, 2, 4}
  PROVE  /\ E!Swapped(V, 8 * q) \in SUBSET Wide
         /\ \A j \in 0 .. 7, b \in 0 .. 7 :
              8 * j + b \in E!Swapped(V, 8 * q) <=> 8 * Beside(j, q) + b \in V
<1>1. 0 .. 64 - 1 = Wide
  BY DEF Wide
<1>2. E!Swapped(V, 8 * q) \in SUBSET Wide
  BY <1>1 DEF E!Swapped, E!ShiftUp, E!ShiftDown, E!Positions
<1>3. ASSUME NEW j \in 0 .. 7, NEW b \in 0 .. 7
      PROVE  8 * j + b \in E!Swapped(V, 8 * q) <=> 8 * Beside(j, q) + b \in V
  <2> DEFINE x == 8 * j + b
  <2>1. /\ x \in 0 .. 64 - 1 /\ (x \div (8 * q)) % 2 = (j \div q) % 2
        /\ (j \div q) % 2 \in {0, 1}
    <3>1. CASE q = 1
      BY <3>1
    <3>2. CASE q = 2
      BY <3>2
    <3>3. CASE q = 4
      BY <3>3
    <3> QED BY <3>1, <3>2, <3>3
  <2>2. x \in E!Evens(8 * q) <=> (j \div q) % 2 = 0
    BY <2>1 DEF E!Evens, E!Positions
  <2>3. (j \div q) % 2 = 1 => /\ j - q \in 0 .. 7 /\ ((j - q) \div q) % 2 = 0
                              /\ ((x - 8 * q) \div (8 * q)) % 2 = 0 /\ x - 8 * q \in 0 .. 64 - 1
    <3>1. CASE q = 1
      BY <3>1
    <3>2. CASE q = 2
      BY <3>2
    <3>3. CASE q = 4
      BY <3>3
    <3> QED BY <3>1, <3>2, <3>3
  <2>4. (j \div q) % 2 = 0 => (x - 8 * q \in 0 .. 64 - 1 => ((x - 8 * q) \div (8 * q)) % 2 = 1)
    <3>1. CASE q = 1
      BY <3>1
    <3>2. CASE q = 2
      BY <3>2
    <3>3. CASE q = 4
      BY <3>3
    <3> QED BY <3>1, <3>2, <3>3
  <2>5. /\ 8 * (j - q) + b = x - 8 * q /\ 8 * (j + q) + b = x + 8 * q
    OBVIOUS
  <2> HIDE DEF x
  <2>6. x \in E!ShiftUp(V \cap E!Evens(8 * q), 8 * q) <=> x - 8 * q \in V \cap E!Evens(8 * q)
    <3>1. \A i \in V : x = i + 8 * q <=> i = x - 8 * q
      BY <2>1 DEF Wide
    <3> QED BY <2>1, <3>1 DEF E!ShiftUp, E!Positions
  <2>7. x \in E!ShiftDown(V, 8 * q) <=> x + 8 * q \in V
    <3>1. \A i \in V : x = i - 8 * q <=> i = x + 8 * q
      BY <2>1 DEF Wide
    <3> QED BY <2>1, <3>1 DEF E!ShiftDown, E!Positions
  <2>8. CASE (j \div q) % 2 = 0
    <3>1. x - 8 * q \notin E!Evens(8 * q)
      BY <2>4, <2>8 DEF E!Evens, E!Positions
    <3> QED BY <2>2, <2>5, <2>6, <2>7, <2>8, <3>1 DEF E!Swapped, Beside, x
  <2>9. CASE (j \div q) % 2 = 1
    <3>1. x - 8 * q \in E!Evens(8 * q)
      BY <2>3, <2>9 DEF E!Evens, E!Positions
    <3>2. x \notin E!Evens(8 * q)
      BY <2>2, <2>9
    <3> QED BY <2>5, <2>6, <2>7, <2>9, <3>1, <3>2 DEF E!Swapped, Beside, x
  <2> QED BY <2>1, <2>8, <2>9
<1> QED BY <1>2, <1>3

\* The reversal of a width turns its bytes round and drops what is past them.
LEMMA RevIs ==
  ASSUME NEW V \in SUBSET Wide, NEW width \in 1 .. 8
  PROVE  /\ E!Rev(V, width) \in SUBSET Wide
         /\ \A j \in 0 .. 7, b \in 0 .. 7 :
              Has(E!Rev(V, width), j, b) <=> j < width /\ Has(V, width - 1 - j, b)
<1>1. PICK V1 : V1 = E!Swapped(V, 8 * 1)
  OBVIOUS
<1>2. PICK V2 : V2 = E!Swapped(V1, 8 * 2)
  OBVIOUS
<1>3. PICK V3 : V3 = E!Swapped(V2, 8 * 4)
  OBVIOUS
<1>4. V1 \in SUBSET Wide /\ \A j \in 0 .. 7, b \in 0 .. 7 : 8 * j + b \in V1 <=> 8 * Beside(j, 1) + b \in V
  <2>1. PICK q \in {1, 2, 4} : q = 1
    OBVIOUS
  <2> QED BY <1>1, <2>1, SwappedIs
<1>5. V2 \in SUBSET Wide /\ \A j \in 0 .. 7, b \in 0 .. 7 : 8 * j + b \in V2 <=> 8 * Beside(j, 2) + b \in V1
  <2>1. PICK q \in {1, 2, 4} : q = 2
    OBVIOUS
  <2> QED BY <1>2, <1>4, <2>1, SwappedIs
<1>6. V3 \in SUBSET Wide /\ \A j \in 0 .. 7, b \in 0 .. 7 : 8 * j + b \in V3 <=> 8 * Beside(j, 4) + b \in V2
  <2>1. PICK q \in {1, 2, 4} : q = 4
    OBVIOUS
  <2> QED BY <1>3, <1>5, <2>1, SwappedIs
<1>7. \A j \in 0 .. 7 : /\ Beside(j, 4) \in 0 .. 7 /\ Beside(Beside(j, 4), 2) \in 0 .. 7
                        /\ Beside(Beside(Beside(j, 4), 2), 1) = 7 - j
  <2>1. \A j \in 0 .. 7 : j = 0 \/ j = 1 \/ j = 2 \/ j = 3 \/ j = 4 \/ j = 5 \/ j = 6 \/ j = 7
    OBVIOUS
  <2>2. \A j \in 0 .. 7 : Beside(j, 4) = IF j < 4 THEN j + 4 ELSE j - 4
    BY DEF Beside
  <2>3. \A j \in 0 .. 7 : Beside(j, 2) = IF j \in {0, 1, 4, 5} THEN j + 2 ELSE j - 2
    BY DEF Beside
  <2>4. \A j \in 0 .. 7 : Beside(j, 1) = IF j \in {0, 2, 4, 6} THEN j + 1 ELSE j - 1
    BY DEF Beside
  <2> QED BY <2>1, <2>2, <2>3, <2>4
<1>8. \A j \in 0 .. 7, b \in 0 .. 7 : 8 * j + b \in V3 <=> 8 * (7 - j) + b \in V
  BY <1>4, <1>5, <1>6, <1>7
<1>9. E!Rev(V, width) = E!ShiftDown(V3, 8 * (8 - width))
  BY <1>1, <1>2, <1>3 DEF E!Rev
<1>10. E!Rev(V, width) \in SUBSET Wide
  <2>1. 0 .. 64 - 1 = Wide
    BY DEF Wide
  <2> QED BY <1>9, <2>1 DEF E!ShiftDown, E!Positions
<1>11. ASSUME NEW j \in 0 .. 7, NEW b \in 0 .. 7
       PROVE  8 * j + b \in E!Rev(V, width) <=> j < width /\ 8 * (width - 1 - j) + b \in V
  <2>1. 8 * j + b \in E!ShiftDown(V3, 8 * (8 - width)) <=> 8 * (j + 8 - width) + b \in V3
    <3>1. \A i \in V3 : 8 * j + b = i - 8 * (8 - width) <=> i = 8 * (j + 8 - width) + b
      BY <1>6 DEF Wide
    <3>2. 8 * j + b \in 0 .. 64 - 1
      OBVIOUS
    <3> QED BY <3>1, <3>2 DEF E!ShiftDown, E!Positions
  <2>2. CASE j < width
    <3>1. j + 8 - width \in 0 .. 7 /\ 7 - (j + 8 - width) = width - 1 - j
      BY <2>2
    <3> QED BY <1>8, <1>9, <2>1, <2>2, <3>1
  <2>3. CASE ~(j < width)
    <3>1. 8 * (j + 8 - width) + b \notin Wide
      BY <2>3 DEF Wide
    <3> QED BY <1>6, <1>9, <2>1, <2>3, <3>1
  <2> QED BY <2>2, <2>3
<1> QED BY <1>10, <1>11 DEF Has

-----------------------------------------------------------------------------
(* endian: a value written in an order and read back in it.                *)

\* Some part of a memory.
IsPart(mem, at, width) == at .. at + width - 1 \subseteq DOMAIN mem

\* The bytes of a width from an address on are those of a value, the first the lowest.
LaidAt(mem, at, V, width) ==
  \A k \in 0 .. width - 1 : mem[at + k] \in 0 .. 255 /\ E!BitsOf(mem[at + k]) = OfByte(V, k)

LEMMA StoredIs ==
  ASSUME NEW mem, NEW at \in Int, NEW V \in SUBSET Wide, NEW width \in 0 .. 8, IsPart(mem, at, width)
  PROVE  LaidAt(E!Stored(mem, at, V, width), at, V, width)
<1> SUFFICES ASSUME NEW k \in 0 .. width - 1
             PROVE  /\ E!Stored(mem, at, V, width)[at + k] \in 0 .. 255
                    /\ E!BitsOf(E!Stored(mem, at, V, width)[at + k]) = OfByte(V, k)
  BY DEF LaidAt
<1>1. at + k \in at .. at + width - 1 /\ at + k \in DOMAIN mem /\ at + k - at = k /\ k \in 0 .. 7
  BY DEF IsPart
<1>2. E!Stored(mem, at, V, width)[at + k] = E!ByteAt(V, k)
  BY <1>1 DEF E!Stored
<1> QED BY <1>1, <1>2, ByteAtIs

\* proximus_operor.c: what was put at an address is what is loaded from there.
LEMMA LoadedStored ==
  ASSUME NEW mem, NEW at \in Int, NEW V \in SUBSET Wide, NEW width \in 0 .. 8, IsPart(mem, at, width)
  PROVE  E!Loaded(E!Stored(mem, at, V, width), at, width) = Kept(V, width)
<1> DEFINE after == E!Stored(mem, at, V, width)
<1>0. LaidAt(after, at, V, width)
  BY StoredIs
<1> HIDE DEF after
<1>1. \A k \in 0 .. width - 1 : after[at + k] \in 0 .. 255 /\ E!BitsOf(after[at + k]) = OfByte(V, k)
  BY ONLY <1>0, Zenon DEF LaidAt
<1>2. /\ E!Loaded(after, at, width) \in SUBSET Wide
      /\ \A j \in 0 .. 7, b \in 0 .. 7 :
           Has(E!Loaded(after, at, width), j, b) <=> j < width /\ b \in E!BitsOf(after[at + j])
  BY <1>1, LoadedIs
<1>3. /\ Kept(V, width) \in SUBSET Wide
      /\ \A j \in 0 .. 7, b \in 0 .. 7 :
           Has(Kept(V, width), j, b) <=> j < width /\ Has(V, j, b)
  BY KeptIs
<1>4. \A j \in 0 .. 7, b \in 0 .. 7 :
        Has(E!Loaded(after, at, width), j, b) <=> Has(Kept(V, width), j, b)
  <2> SUFFICES ASSUME NEW j \in 0 .. 7, NEW b \in 0 .. 7
               PROVE  Has(E!Loaded(after, at, width), j, b)
                        <=> Has(Kept(V, width), j, b)
    OBVIOUS
  <2>1. j < width => (b \in E!BitsOf(after[at + j]) <=> Has(V, j, b))
    <3>1. j < width => j \in 0 .. width - 1
      OBVIOUS
    <3> QED BY <1>1, <3>1 DEF OfByte
  <2> QED BY <1>2, <1>3, <2>1
<1> QED BY <1>2, <1>3, <1>4, SameBytes DEF after

\* The reversal of a width undoes itself but for what is past the width.
LEMMA RevTwice ==
  ASSUME NEW V \in SUBSET Wide, NEW width \in 1 .. 8
  PROVE  E!Rev(Kept(E!Rev(V, width), width), width) = Kept(V, width)
<1> DEFINE R == E!Rev(V, width)
           K == Kept(R, width)
<1>1. /\ R \in SUBSET Wide
      /\ \A j \in 0 .. 7, b \in 0 .. 7 : Has(R, j, b) <=> j < width /\ Has(V, width - 1 - j, b)
  BY RevIs
<1> HIDE DEF R
<1>2. /\ K \in SUBSET Wide
      /\ \A j \in 0 .. 7, b \in 0 .. 7 : Has(K, j, b) <=> j < width /\ Has(R, j, b)
  BY <1>1, KeptIs
<1> HIDE DEF K
<1>3. /\ E!Rev(K, width) \in SUBSET Wide
      /\ \A j \in 0 .. 7, b \in 0 .. 7 :
           Has(E!Rev(K, width), j, b) <=> j < width /\ Has(K, width - 1 - j, b)
  BY <1>2, RevIs
<1>4. /\ Kept(V, width) \in SUBSET Wide
      /\ \A j \in 0 .. 7, b \in 0 .. 7 :
           Has(Kept(V, width), j, b) <=> j < width /\ Has(V, j, b)
  BY KeptIs
<1>5. \A j \in 0 .. 7, b \in 0 .. 7 :
        Has(E!Rev(K, width), j, b) <=> Has(Kept(V, width), j, b)
  <2> SUFFICES ASSUME NEW j \in 0 .. 7, NEW b \in 0 .. 7
               PROVE  Has(E!Rev(K, width), j, b) <=> Has(Kept(V, width), j, b)
    OBVIOUS
  <2>1. CASE j < width
    <3>1. width - 1 - j \in 0 .. 7 /\ width - 1 - j < width /\ width - 1 - (width - 1 - j) = j
      BY <2>1
    <3>2. Has(K, width - 1 - j, b) <=> Has(V, j, b)
      BY <1>1, <1>2, <2>1, <3>1
    <3> QED BY <1>3, <1>4, <2>1, <3>2
  <2>2. CASE ~(j < width)
    BY <1>3, <1>4, <2>2
  <2> QED BY <2>1, <2>2
<1> QED BY <1>3, <1>4, <1>5, SameBytes DEF K, R

LEMMA OrdersKept ==
  ASSUME NEW mem, NEW at \in Int, NEW value \in SUBSET Wide, NEW width \in Nat,
         IsPart(mem, at, E!WidthOf(width))
  PROVE  /\ E!RdLe(E!WrLe(mem, at, value, width), at, width) = Kept(value, E!WidthOf(width))
         /\ width \in {2, 4, 8} =>
              E!RdBe(E!WrBe(mem, at, value, width), at, width) = Kept(value, E!WidthOf(width))
<1> DEFINE w == E!WidthOf(width)
<1>1. w \in 1 .. 8 /\ w \in 0 .. 8 /\ (width \in {2, 4, 8} => w = width)
  BY DEF E!WidthOf
<1>2. IsPart(mem, at, w)
  OBVIOUS
<1> HIDE DEF w
<1>3. E!Loaded(E!Stored(mem, at, value, w), at, w) = Kept(value, w)
  BY <1>1, <1>2, LoadedStored
<1>4. E!RdLe(E!WrLe(mem, at, value, width), at, width) = Kept(value, w)
  BY <1>3 DEF E!RdLe, E!WrLe, w
<1>5. ASSUME width \in {2, 4, 8}
      PROVE  E!RdBe(E!WrBe(mem, at, value, width), at, width) = Kept(value, w)
  <2>1. E!Rev(value, w) \in SUBSET Wide
    BY <1>1, RevIs
  <2>2. E!Loaded(E!Stored(mem, at, E!Rev(value, w), w), at, w) = Kept(E!Rev(value, w), w)
    BY <1>1, <1>2, <2>1, LoadedStored
  <2>3. E!RdBe(E!WrBe(mem, at, value, width), at, width)
          = E!Rev(E!Loaded(E!Stored(mem, at, E!Rev(value, w), w), at, w), w)
    BY <1>1, <1>5 DEF E!RdBe, E!WrBe, w
  <2> QED BY <1>1, <2>2, <2>3, RevTwice
<1> QED BY <1>4, <1>5 DEF w

\* endian.c: for every memory, address and value, a value written in either order reads back in
\* it, kept to its width; a width that is none of the three is eight bytes, little endian alone.
THEOREM OrdersReadBack ==
  ASSUME NEW mem, NEW at \in Int, NEW value \in SUBSET (0 .. 63), NEW width \in Nat,
         at .. at + E!WidthOf(width) - 1 \subseteq DOMAIN mem
  PROVE  LET kept == value \cap 0 .. 8 * E!WidthOf(width) - 1
         IN  /\ E!RdLe(E!WrLe(mem, at, value, width), at, width) = kept
             /\ width \in {2, 4, 8} => E!RdBe(E!WrBe(mem, at, value, width), at, width) = kept
<1>1. value \in SUBSET Wide /\ IsPart(mem, at, E!WidthOf(width))
  BY DEF Wide, IsPart
<1>2. /\ E!RdLe(E!WrLe(mem, at, value, width), at, width) = Kept(value, E!WidthOf(width))
      /\ width \in {2, 4, 8} =>
           E!RdBe(E!WrBe(mem, at, value, width), at, width) = Kept(value, E!WidthOf(width))
  BY <1>1, OrdersKept
<1> QED BY <1>2 DEF Kept

-----------------------------------------------------------------------------
(* bitorum_introitus_exitus: a writer that mirrors the bits asked of it.   *)

LEMMA WriterByte ==
  ASSUME NEW C \in SUBSET (0 .. 7)
  PROVE  B!NumberOf(C) \in 0 .. 255 /\ B!BitsOf(B!NumberOf(C)) = C
<1>1. LittleV!NumberOf(C) = B!NumberOf(C)
  BY DEF LittleV!NumberOf, B!NumberOf, LittleV!MapThenSumSet, B!MapThenSumSet,
    LittleV!MapThenFoldSet, B!MapThenFoldSet
<1>2. \A n : LittleV!BitsOf(n) = B!BitsOf(n)
  BY DEF LittleV!BitsOf, B!BitsOf
<1> QED BY <1>1, <1>2, LittleV!BitsOfNumber DEF LittleV!Byte

Buffers == UNION {[0 .. cap + 1 -> Int] : cap \in Nat}

Writers ==
  [out : Buffers, cap : Nat, bytes_written : Nat,
   residue : SUBSET (0 .. 7), bit_count : 0 .. 7, overflow : BOOLEAN]

\* Bit b of the eight from j times eight on.
Bit(p, j, b) == p[8 * j + b + 1]

\* Byte j of the buffer holds eight of the bits.
Mirrored(w, p, j) ==
  w.out[j] \in 0 .. 255 /\ \A b \in 0 .. 7 : b \in B!BitsOf(w.out[j]) <=> Bit(p, j, b)

\* The writer w holds the bits p: whole bytes in the buffer, and the rest in the residue.
WriterOk(w, p) ==
  /\ w \in Writers /\ p \in Seq(BOOLEAN)
  /\ w.bytes_written <= w.cap /\ DOMAIN w.out = 0 .. w.cap + 1
  /\ w.residue \subseteq 0 .. w.bit_count - 1
  /\ 8 * w.bytes_written <= Len(p)
  /\ ~w.overflow => 8 * w.bytes_written + w.bit_count = Len(p)
  /\ \A j \in 0 .. w.bytes_written - 1 : Mirrored(w, p, j)
  /\ ~w.overflow => \A b \in 0 .. w.bit_count - 1 : b \in w.residue <=> Bit(p, w.bytes_written, b)
  /\ \A k \in w.bytes_written .. w.cap + 1 : w.out[k] = 255

\* More bits asked than the writer holds change nothing of the bits it holds.
LEMMA LongerMirrors ==
  ASSUME NEW p \in Seq(BOOLEAN), NEW n \in Nat, NEW q \in [1 .. n -> BOOLEAN]
  PROVE  /\ p \o q \in Seq(BOOLEAN) /\ Len(p \o q) = Len(p) + n
         /\ \A k \in 1 .. Len(p) : (p \o q)[k] = p[k]
         /\ \A k \in 1 .. n : (p \o q)[Len(p) + k] = q[k]
<1>1. q \in Seq(BOOLEAN) /\ Len(q) = n
  OBVIOUS
<1> QED BY <1>1

\* The steps that keep the buffer: what was asked is longer, the writer overflows or has.
LEMMA WriterDrops ==
  ASSUME NEW w, NEW p, WriterOk(w, p), NEW n \in Nat, NEW q \in [1 .. n -> BOOLEAN], NEW v \in Writers,
         v.out = w.out, v.cap = w.cap, v.bytes_written = w.bytes_written, v.overflow,
         v.residue \subseteq 0 .. v.bit_count - 1
  PROVE  WriterOk(v, p \o q)
<1>1. /\ p \o q \in Seq(BOOLEAN) /\ Len(p \o q) = Len(p) + n
      /\ \A k \in 1 .. Len(p) : (p \o q)[k] = p[k]
  BY LongerMirrors DEF WriterOk
<1>2. /\ w.bytes_written \in Nat /\ w.cap \in Nat /\ Len(p) \in Nat /\ 8 * w.bytes_written <= Len(p)
  BY DEF WriterOk, Writers
<1>3. \A j \in 0 .. w.bytes_written - 1 : Mirrored(v, p \o q, j)
  <2> SUFFICES ASSUME NEW j \in 0 .. w.bytes_written - 1 PROVE Mirrored(v, p \o q, j)
    OBVIOUS
  <2>1. Mirrored(w, p, j)
    BY DEF WriterOk
  <2>2. \A b \in 0 .. 7 : 8 * j + b + 1 \in 1 .. Len(p)
    BY <1>2
  <2> QED BY <1>1, <2>1, <2>2 DEF Mirrored, Bit
<1> QED BY <1>1, <1>2, <1>3 DEF WriterOk

\* The places of the new bytes beside those the writer holds.
LEMMA GrowIndex ==
  ASSUME NEW was \in Nat, NEW whole \in Nat, NEW cap \in Nat, NEW had \in 0 .. 7, NEW has \in 0 .. 7,
         NEW n \in Nat, NEW long \in Nat,
         8 * was + had = long, was + whole <= cap, 8 * whole + has = had + n
  PROVE  /\ \A j \in 0 .. was - 1 : \A b \in 0 .. 7 : 8 * j + b + 1 \in 1 .. long
         /\ \A j \in 0 .. was - 1 : j \in 0 .. cap + 1 /\ j - was \notin 0 .. whole - 1
         /\ \A j \in 0 .. was + whole - 1 : j \in 0 .. was - 1 \/ j \in was .. was + whole - 1
         /\ \A k \in was + whole .. cap + 1 :
              k \in was .. cap + 1 /\ k \in 0 .. cap + 1 /\ k - was \notin 0 .. whole - 1
         /\ 8 * (was + whole) + has = long + n /\ 8 * (was + whole) <= long + n
OBVIOUS

\* A writer with new whole bytes, each eight of the bits, and a new residue.
LEMMA WriterGrows ==
  ASSUME NEW w, NEW p, WriterOk(w, p), NEW n \in Nat, NEW q \in [1 .. n -> BOOLEAN], NEW v \in Writers,
         NEW whole \in Nat,
         ~w.overflow, ~v.overflow,
         v.cap = w.cap, v.bytes_written = w.bytes_written + whole, v.bytes_written <= v.cap,
         DOMAIN v.out = DOMAIN w.out,
         \A k \in DOMAIN w.out : k - w.bytes_written \notin 0 .. whole - 1 => v.out[k] = w.out[k],
         \A j \in w.bytes_written .. w.bytes_written + whole - 1 : Mirrored(v, p \o q, j),
         8 * whole + v.bit_count = w.bit_count + n,
         v.residue \subseteq 0 .. v.bit_count - 1,
         \A b \in 0 .. v.bit_count - 1 : b \in v.residue <=> Bit(p \o q, v.bytes_written, b)
  PROVE  WriterOk(v, p \o q)
<1>1. /\ p \o q \in Seq(BOOLEAN) /\ Len(p \o q) = Len(p) + n
      /\ \A k \in 1 .. Len(p) : (p \o q)[k] = p[k]
  BY LongerMirrors DEF WriterOk
<1> DEFINE was == w.bytes_written
           cap == w.cap
           long == Len(p)
           had == w.bit_count
           has == v.bit_count
<1>2. was \in Nat /\ cap \in Nat /\ long \in Nat /\ had \in 0 .. 7 /\ has \in 0 .. 7
  BY DEF WriterOk, Writers
<1>3. 8 * was + had = long /\ DOMAIN w.out = 0 .. cap + 1 /\ was <= cap
  BY DEF WriterOk
<1>4. 8 * whole + has = had + n /\ v.bytes_written = was + whole /\ v.cap = cap /\ was + whole <= cap
  OBVIOUS
<1>5. /\ \A j \in 0 .. was - 1 : Mirrored(w, p, j)
      /\ \A k \in was .. cap + 1 : w.out[k] = 255
  BY DEF WriterOk
<1>6. \A k \in DOMAIN w.out : k - was \notin 0 .. whole - 1 => v.out[k] = w.out[k]
  OBVIOUS
<1>7. \A j \in was .. was + whole - 1 : Mirrored(v, p \o q, j)
  OBVIOUS
<1> HIDE DEF was, cap, long, had, has
<1>8. /\ \A j \in 0 .. was - 1 : \A b \in 0 .. 7 : 8 * j + b + 1 \in 1 .. long
      /\ \A j \in 0 .. was - 1 : j \in 0 .. cap + 1 /\ j - was \notin 0 .. whole - 1
      /\ \A j \in 0 .. was + whole - 1 : j \in 0 .. was - 1 \/ j \in was .. was + whole - 1
      /\ \A k \in was + whole .. cap + 1 :
           k \in was .. cap + 1 /\ k \in 0 .. cap + 1 /\ k - was \notin 0 .. whole - 1
      /\ 8 * (was + whole) + has = long + n /\ 8 * (was + whole) <= long + n
  <2>1. 8 * was + had = long /\ was + whole <= cap /\ 8 * whole + has = had + n
    BY <1>3, <1>4
  <2> HIDE <1>3, <1>4, <1>5, <1>6, <1>7
  <2> QED BY <1>2, <2>1, GrowIndex
<1>9. \A j \in 0 .. was - 1 : Mirrored(v, p \o q, j)
  <2> SUFFICES ASSUME NEW j \in 0 .. was - 1 PROVE Mirrored(v, p \o q, j)
    OBVIOUS
  <2>1. Mirrored(w, p, j) /\ v.out[j] = w.out[j]
    BY <1>3, <1>5, <1>6, <1>8
  <2>2. \A b \in 0 .. 7 : (p \o q)[8 * j + b + 1] = p[8 * j + b + 1]
    BY <1>1, <1>8 DEF long
  <2> QED BY <2>1, <2>2 DEF Mirrored, Bit
<1>10. \A j \in 0 .. v.bytes_written - 1 : Mirrored(v, p \o q, j)
  <2>1. \A j \in 0 .. was + whole - 1 : Mirrored(v, p \o q, j)
    BY ONLY <1>2, <1>7, <1>8, <1>9
  <2>2. v.bytes_written = was + whole
    BY <1>4
  <2> QED BY ONLY <1>2, <2>1, <2>2
<1>11. \A k \in v.bytes_written .. v.cap + 1 : v.out[k] = 255
  BY <1>3, <1>4, <1>5, <1>6, <1>8
<1>12. DOMAIN v.out = 0 .. v.cap + 1
  BY <1>3, <1>4
<1>13. /\ 8 * v.bytes_written + v.bit_count = Len(p \o q) /\ 8 * v.bytes_written <= Len(p \o q)
  BY <1>1, <1>4, <1>8 DEF long, has
<1>14. /\ v \in Writers /\ ~v.overflow /\ v.bytes_written <= v.cap /\ v.residue \subseteq 0 .. v.bit_count - 1
       /\ \A b \in 0 .. v.bit_count - 1 : b \in v.residue <=> Bit(p \o q, v.bytes_written, b)
  OBVIOUS
<1> QED BY ONLY <1>1, <1>10, <1>11, <1>12, <1>13, <1>14 DEF WriterOk

\* The bits a put is asked, first the lowest.
Given(val, count) == [k \in 1 .. count |-> (k - 1) \in val]

LEMMA ShiftBits ==
  ASSUME NEW x \in SUBSET Wide, NEW n \in Nat, NEW b \in Wide
  PROVE  /\ b \in B!ShiftDown(x, n) <=> b + n \in x
         /\ b \in B!ShiftUp(x, n) <=> b - n \in x
<1>1. b \in 0 .. 64 - 1 /\ (0 .. 64 - 1) \subseteq Wide
  BY DEF Wide
<1>2. \A i \in x : b = i - n <=> i = b + n
  BY DEF Wide
<1>3. \A i \in x : b = i + n <=> i = b - n
  BY DEF Wide
<1> QED BY <1>1, <1>2, <1>3 DEF B!ShiftDown, B!ShiftUp, B!Positions

LEMMA ShiftWide == \A x, n : B!ShiftDown(x, n) \in SUBSET Wide /\ B!ShiftUp(x, n) \in SUBSET Wide
<1>1. (0 .. 64 - 1) \subseteq Wide
  BY DEF Wide
<1> QED BY <1>1 DEF B!ShiftDown, B!ShiftUp, B!Positions

\* The bits a put takes, and those past the first byte.
PutWork(val, count) == val \cap 0 .. count - 1

PutAfter(val, count, had) == B!ShiftDown(PutWork(val, count), 8 - had)

\* What a put with some whole bytes writes in the first, in the others, and keeps.
\* The bits of a value that follow the whole bytes.
LeftOver(count, had, whole) == count - (8 - had) - 8 * (whole - 1)

LeftBits(val, count, had, whole) ==
  \A b \in 0 .. LeftOver(count, had, whole) - 1 :
    b \in B!ShiftDown(PutAfter(val, count, had), 8 * (whole - 1)) <=> 8 * whole + b - had \in val

\* What the bytes and the rest of a put of at least a byte take from its value.
BitsPut(val, count, had, whole) ==
  /\ LeftOver(count, had, whole) \in 0 .. 7 /\ 8 * whole + LeftOver(count, had, whole) = had + count
  /\ \A b \in 0 .. 7 :
       b \in B!ShiftUp(PutWork(val, count) \cap 0 .. 7, had) \cap 0 .. 7 <=> b >= had /\ b - had \in val
  /\ \A i \in 1 .. whole - 1 : \A b \in 0 .. 7 :
       b \in B!ShiftDown(PutAfter(val, count, had), 8 * (i - 1)) \cap 0 .. 7 <=> 8 * i + b - had \in val
  /\ LeftBits(val, count, had, whole)

LEMMA PutBits1 ==
  ASSUME NEW val \in SUBSET Wide, NEW count \in 0 .. 64, NEW had \in 0 .. 7, NEW whole \in 1 .. 8,
         whole = (had + count) \div 8
  PROVE  BitsPut(val, count, had, whole)
<1> DEFINE work == PutWork(val, count)
           after == PutAfter(val, count, had)
           left == count - (8 - had) - 8 * (whole - 1)
<1>0. work = val \cap 0 .. count - 1 /\ after = B!ShiftDown(work, 8 - had)
  BY DEF PutWork, PutAfter
<1> HIDE DEF work, after
<1>1. /\ left \in 0 .. 7 /\ 8 * whole + left = had + count
  OBVIOUS
<1>2. work \in SUBSET Wide /\ work \cap 0 .. 7 \in SUBSET Wide
  BY <1>0 DEF Wide
<1>3. after \in SUBSET Wide
  BY <1>0, ShiftWide
<1>4. ASSUME NEW b \in 0 .. 7
      PROVE  b \in B!ShiftUp(work \cap 0 .. 7, had) \cap 0 .. 7 <=> b >= had /\ b - had \in val
  <2>1. b \in Wide
    BY DEF Wide
  <2>2. b \in B!ShiftUp(work \cap 0 .. 7, had) <=> b - had \in work \cap 0 .. 7
    <3> DEFINE low == work \cap 0 .. 7
    <3>1. low \in SUBSET Wide /\ had \in Nat
      BY <1>2
    <3> HIDE DEF low
    <3>2. b \in B!ShiftUp(low, had) <=> b - had \in low
      BY ONLY <2>1, <3>1, ShiftBits
    <3> QED BY ONLY <3>2 DEF low
  <2>3. b - had \in work \cap 0 .. 7 <=> b >= had /\ b - had \in val
    BY <1>0, <1>1
  <2> QED BY <2>2, <2>3
<1>5. ASSUME NEW n \in 0 .. 7, NEW b \in 0 .. 7
      PROVE  b \in B!ShiftDown(after, 8 * n) <=> 8 * (n + 1) + b - had \in work
  <2>1. b \in Wide /\ 8 * n \in Nat /\ b + 8 * n \in Wide /\ 8 - had \in Nat
    BY DEF Wide
  <2>2. b \in B!ShiftDown(after, 8 * n) <=> b + 8 * n \in after
    BY <1>3, <2>1, ShiftBits
  <2>3. b + 8 * n \in after <=> b + 8 * n + (8 - had) \in work
    BY <1>0, <1>2, <2>1, ShiftBits
  <2>4. b + 8 * n + (8 - had) = 8 * (n + 1) + b - had
    OBVIOUS
  <2> QED BY <2>2, <2>3, <2>4
<1>6. ASSUME NEW i \in 1 .. whole - 1, NEW b \in 0 .. 7
      PROVE  b \in B!ShiftDown(after, 8 * (i - 1)) \cap 0 .. 7 <=> 8 * i + b - had \in val
  <2>1. i - 1 \in 0 .. 7 /\ i - 1 + 1 = i
    OBVIOUS
  <2>2. b \in B!ShiftDown(after, 8 * (i - 1)) <=> 8 * i + b - had \in work
    BY <1>5, <2>1
  <2>3. 8 * i + b - had \in 0 .. count - 1
    BY <1>1
  <2> QED BY <1>0, <2>2, <2>3
<1>7. ASSUME NEW b \in 0 .. left - 1
      PROVE  b \in B!ShiftDown(after, 8 * (whole - 1)) <=> 8 * whole + b - had \in val
  <2>1. whole - 1 \in 0 .. 7 /\ whole - 1 + 1 = whole /\ b \in 0 .. 7
    BY <1>1
  <2>2. b \in B!ShiftDown(after, 8 * (whole - 1)) <=> 8 * whole + b - had \in work
    BY <1>5, <2>1
  <2>3. 8 * whole + b - had \in 0 .. count - 1
    BY <1>1
  <2> QED BY <1>0, <2>2, <2>3
<1>8. LeftOver(count, had, whole) = left
  BY DEF LeftOver
<1>9. LeftBits(val, count, had, whole)
  BY <1>7, Zenon DEF LeftBits, LeftOver, after
<1> QED BY <1>1, <1>4, <1>6, <1>8, <1>9 DEF work, after, BitsPut

\* What a put of a few bits keeps beside the residue.
LEMMA PutBits0 ==
  ASSUME NEW val \in SUBSET Wide, NEW count \in 0 .. 64, NEW had \in 0 .. 7, had + count < 8
  PROVE  /\ PutWork(val, count) \cap 0 .. count - 1 = PutWork(val, count)
         /\ B!ShiftUp(PutWork(val, count), had) \subseteq had .. had + count - 1
         /\ \A b \in had .. had + count - 1 : b \in B!ShiftUp(PutWork(val, count), had) <=> b - had \in val
<1> DEFINE work == PutWork(val, count)
<1>0. work = val \cap 0 .. count - 1
  BY DEF PutWork
<1> HIDE DEF work
<1>1. work \in SUBSET Wide
  BY <1>0 DEF Wide
<1>2. \A b \in Wide : b \in B!ShiftUp(work, had) <=> b - had \in work
  <2>1. had \in Nat
    OBVIOUS
  <2> QED BY ONLY <1>1, <2>1, ShiftBits
<1>3. B!ShiftUp(work, had) \subseteq Wide
  BY ShiftWide
<1>4. had .. had + count - 1 \subseteq Wide
  BY DEF Wide
<1>5. \A b \in Wide : b - had \in work => b \in had .. had + count - 1
  BY <1>0 DEF Wide
<1>6. \A b \in had .. had + count - 1 : b - had \in work <=> b - had \in val
  BY <1>0
<1> QED BY <1>0, <1>2, <1>3, <1>4, <1>5, <1>6 DEF work

\* The parts of a put: its whole bytes, the bits left over, what waits beside the new ones.
PutWhole(w, count) == (w.bit_count + count) \div 8
PutLeft(w, count) ==
  IF PutWhole(w, count) = 0 THEN count ELSE count - (8 - w.bit_count) - 8 * (PutWhole(w, count) - 1)
PutTail(w, val, count) ==
  (IF PutWhole(w, count) = 0 THEN PutWork(val, count)
   ELSE B!ShiftDown(PutAfter(val, count, w.bit_count), 8 * (PutWhole(w, count) - 1))) \cap 0 .. PutLeft(w, count) - 1
PutHeld(w, count) == IF PutWhole(w, count) = 0 THEN w.bit_count ELSE 0
PutHas(w, count) == PutHeld(w, count) + PutLeft(w, count)
PutRest(w, val, count) ==
  (IF PutWhole(w, count) = 0 THEN w.residue ELSE {}) \cup B!ShiftUp(PutTail(w, val, count), PutHeld(w, count))
PutOut(w, val, count) ==
  [k \in DOMAIN w.out |->
     CASE k - w.bytes_written \notin 0 .. PutWhole(w, count) - 1 -> w.out[k]
       [] k - w.bytes_written = 0 /\ PutWhole(w, count) # 0 ->
            B!NumberOf(w.residue \cup (B!ShiftUp(PutWork(val, count) \cap 0 .. 7, w.bit_count) \cap 0 .. 7))
       [] OTHER -> B!NumberOf(B!ShiftDown(PutAfter(val, count, w.bit_count), 8 * (k - w.bytes_written - 1)) \cap 0 .. 7)]

\* What a put that fits leaves of the writer, field by field.
LEMMA PutFields ==
  ASSUME NEW w \in Writers, ~w.overflow, NEW val, NEW count,
         ~(PutWhole(w, count) > w.cap - w.bytes_written)
  PROVE  B!Put(w, val, count)
           = [w EXCEPT !.out = PutOut(w, val, count),
                       !.residue = PutRest(w, val, count), !.bit_count = PutHas(w, count),
                       !.bytes_written = w.bytes_written + PutWhole(w, count)]
<1>1. ~(~w.overflow /\ PutWhole(w, count) > w.cap - w.bytes_written)
  OBVIOUS
<1> QED BY <1>1, Zenon DEF B!Put, PutOut, PutRest, PutHas, PutTail, PutHeld, PutLeft, PutAfter, PutWork, PutWhole

LEMMA PutRefuses ==
  ASSUME NEW w \in Writers, NEW val, NEW count,
         w.overflow \/ PutWhole(w, count) > w.cap - w.bytes_written
  PROVE  /\ B!Put(w, val, count) \in Writers /\ B!Put(w, val, count).overflow
         /\ B!Put(w, val, count).out = w.out /\ B!Put(w, val, count).cap = w.cap
         /\ B!Put(w, val, count).bytes_written = w.bytes_written
         /\ B!Put(w, val, count) = w \/ B!Put(w, val, count).residue = {}
<1> DEFINE v == B!Put(w, val, count)
<1>1. CASE w.overflow
  <2>1. v = w
    BY <1>1, Zenon DEF B!Put
  <2> QED BY <1>1, <2>1
<1>2. CASE ~w.overflow
  <2>1. v = [w EXCEPT !.overflow = TRUE, !.bit_count = 0, !.residue = {}]
    BY <1>2, Zenon DEF B!Put, PutWhole
  <2>2. w \in Writers
    OBVIOUS
  <2>3. v = [out |-> w.out, cap |-> w.cap, bytes_written |-> w.bytes_written, residue |-> {},
             bit_count |-> 0, overflow |-> TRUE]
    BY ONLY <2>1, <2>2 DEF Writers
  <2>4. w.out \in Buffers /\ w.cap \in Nat /\ w.bytes_written \in Nat
    BY ONLY <2>2 DEF Writers
  <2>5. v \in Writers
    BY ONLY <2>3, <2>4 DEF Writers
  <2>6. v.out = w.out /\ v.cap = w.cap /\ v.bytes_written = w.bytes_written /\ v.overflow /\ v.residue = {}
    BY ONLY <2>3
  <2> QED BY <2>5, <2>6, Zenon
<1> QED BY <1>1, <1>2

\* Byte i of the whole bytes of a put.
PutEight(residue, val, count, had, i) ==
  IF i = 0 THEN B!NumberOf(residue \cup (B!ShiftUp(PutWork(val, count) \cap 0 .. 7, had) \cap 0 .. 7))
  ELSE B!NumberOf(B!ShiftDown(PutAfter(val, count, had), 8 * (i - 1)) \cap 0 .. 7)

LEMMA PutOutAt ==
  ASSUME NEW w, NEW val, NEW count, NEW k \in DOMAIN w.out, PutWhole(w, count) \in Nat
  PROVE  PutOut(w, val, count)[k] =
           IF k - w.bytes_written \in 0 .. PutWhole(w, count) - 1
           THEN PutEight(w.residue, val, count, w.bit_count, k - w.bytes_written)
           ELSE w.out[k]
<1>1. ASSUME k - w.bytes_written \notin 0 .. PutWhole(w, count) - 1 PROVE PutOut(w, val, count)[k] = w.out[k]
  <2>1. ~(k - w.bytes_written = 0 /\ PutWhole(w, count) # 0)
    BY <1>1
  <2> QED BY <1>1, <2>1, Zenon DEF PutOut
<1>2. ASSUME k - w.bytes_written \in 0 .. PutWhole(w, count) - 1,
             k - w.bytes_written = 0 /\ PutWhole(w, count) # 0
      PROVE  PutOut(w, val, count)[k] = PutEight(w.residue, val, count, w.bit_count, k - w.bytes_written)
  BY <1>2, Zenon DEF PutOut, PutEight
<1>3. ASSUME k - w.bytes_written \in 0 .. PutWhole(w, count) - 1,
             ~(k - w.bytes_written = 0 /\ PutWhole(w, count) # 0)
      PROVE  PutOut(w, val, count)[k] = PutEight(w.residue, val, count, w.bit_count, k - w.bytes_written)
  <2>1. k - w.bytes_written # 0
    BY <1>3
  <2> QED BY <1>3, <2>1, Zenon DEF PutOut, PutEight
<1> QED BY <1>1, <1>2, <1>3, Zenon

\* It has eight of the bits asked, after those the residue held.
LEMMA PutEightIs ==
  ASSUME NEW val \in SUBSET Wide, NEW count \in 0 .. 64, NEW had \in 0 .. 7,
         NEW residue, residue \subseteq 0 .. had - 1,
         NEW whole \in 1 .. 8, whole = (had + count) \div 8, NEW i \in 0 .. whole - 1
  PROVE  /\ PutEight(residue, val, count, had, i) \in 0 .. 255
         /\ \A b \in 0 .. 7 :
              b \in B!BitsOf(PutEight(residue, val, count, had, i)) <=>
                IF 8 * i + b < had THEN 8 * i + b \in residue ELSE 8 * i + b - had \in val
<1> DEFINE up == B!ShiftUp(PutWork(val, count) \cap 0 .. 7, had) \cap 0 .. 7
           first == residue \cup up
           other == B!ShiftDown(PutAfter(val, count, had), 8 * (i - 1)) \cap 0 .. 7
           byte == PutEight(residue, val, count, had, i)
<1>1. /\ \A b \in 0 .. 7 : b \in up <=> b >= had /\ b - had \in val
      /\ \A k \in 1 .. whole - 1 : \A b \in 0 .. 7 :
              b \in B!ShiftDown(PutAfter(val, count, had), 8 * (k - 1)) \cap 0 .. 7 <=> 8 * k + b - had \in val
  <2>1. BitsPut(val, count, had, whole)
    BY PutBits1
  <2> QED BY ONLY <2>1, Zenon DEF BitsPut
<1>2. up \in SUBSET (0 .. 7) /\ first \in SUBSET (0 .. 7) /\ other \in SUBSET (0 .. 7)
  <2>1. \A x : x \cap 0 .. 7 \in SUBSET (0 .. 7)
    OBVIOUS
  <2>2. up \in SUBSET (0 .. 7) /\ other \in SUBSET (0 .. 7)
    BY <2>1, Zenon
  <2>3. residue \in SUBSET (0 .. 7)
    OBVIOUS
  <2> HIDE DEF up, other
  <2> QED BY <2>2, <2>3
<1>3. byte = IF i = 0 THEN B!NumberOf(first) ELSE B!NumberOf(other)
  BY DEF PutEight
<1>4. \A b : b \in first <=> b \in residue \/ b \in up
  OBVIOUS
<1>5. i \in 1 .. whole - 1 => \A b \in 0 .. 7 : b \in other <=> 8 * i + b - had \in val
  BY <1>1
<1> HIDE DEF up, first, other, byte
<1>6. CASE i = 0
  <2>1. byte \in 0 .. 255 /\ B!BitsOf(byte) = first
    BY <1>2, <1>3, <1>6, WriterByte
  <2>2. ASSUME NEW b \in 0 .. 7
        PROVE  b \in first <=> IF 8 * i + b < had THEN 8 * i + b \in residue ELSE 8 * i + b - had \in val
    BY <1>1, <1>4, <1>6
  <2> QED BY <2>1, <2>2 DEF byte
<1>7. CASE i # 0
  <2>1. byte \in 0 .. 255 /\ B!BitsOf(byte) = other
    BY <1>2, <1>3, <1>7, WriterByte
  <2>2. ASSUME NEW b \in 0 .. 7
        PROVE  b \in other <=> IF 8 * i + b < had THEN 8 * i + b \in residue ELSE 8 * i + b - had \in val
    BY <1>5, <1>7
  <2> QED BY <2>1, <2>2 DEF byte
<1> QED BY <1>6, <1>7

\* What a put leaves in the residue, after the bits it held or the whole bytes.
LEMMA PutRestIs ==
  ASSUME NEW w \in Writers, w.residue \subseteq 0 .. w.bit_count - 1,
         NEW val \in SUBSET Wide, NEW count \in 0 .. 64,
         w.bit_count \in 0 .. 7, PutWhole(w, count) \in 0 .. 8
  PROVE  /\ PutHas(w, count) \in 0 .. 7 /\ 8 * PutWhole(w, count) + PutHas(w, count) = w.bit_count + count
         /\ PutRest(w, val, count) \subseteq 0 .. PutHas(w, count) - 1
         /\ \A b \in 0 .. PutHas(w, count) - 1 :
              b \in PutRest(w, val, count) <=>
                IF 8 * PutWhole(w, count) + b < w.bit_count THEN 8 * PutWhole(w, count) + b \in w.residue
                ELSE 8 * PutWhole(w, count) + b - w.bit_count \in val
<1>10. PICK had \in 0 .. 7, whole \in 0 .. 8 : had = w.bit_count /\ whole = PutWhole(w, count)
  OBVIOUS
<1> SUFFICES /\ PutHas(w, count) \in 0 .. 7 /\ 8 * whole + PutHas(w, count) = had + count
             /\ PutRest(w, val, count) \subseteq 0 .. PutHas(w, count) - 1
             /\ \A b \in 0 .. PutHas(w, count) - 1 :
                  b \in PutRest(w, val, count) <=>
                    IF 8 * whole + b < had THEN 8 * whole + b \in w.residue ELSE 8 * whole + b - had \in val
  BY <1>10, Zenon
<1> DEFINE has == PutHas(w, count)
           rest == PutRest(w, val, count)
<1>1. PutWhole(w, count) = whole /\ had = w.bit_count
  BY <1>10
<1>4. /\ has = PutHeld(w, count) + PutLeft(w, count)
      /\ rest = (IF PutWhole(w, count) = 0 THEN w.residue ELSE {}) \cup B!ShiftUp(PutTail(w, val, count), PutHeld(w, count))
  BY DEF PutHas, PutRest
<1> HIDE DEF has, rest
<1>0. had \in 0 .. 7 /\ count \in 0 .. 64 /\ whole \in 0 .. 8 /\ whole = (had + count) \div 8
  BY <1>1 DEF PutWhole
<1>5. w.residue \subseteq 0 .. had - 1
  BY <1>1
<1>2. CASE whole = 0
  <2>1. had + count < 8 /\ had + count \in 0 .. 7
    BY ONLY <1>0, <1>2
  <2>2. /\ PutWork(val, count) \cap 0 .. count - 1 = PutWork(val, count)
        /\ B!ShiftUp(PutWork(val, count), had) \subseteq had .. had + count - 1
        /\ \A b \in had .. had + count - 1 : b \in B!ShiftUp(PutWork(val, count), had) <=> b - had \in val
    BY <2>1, PutBits0
  <2>3. PutTail(w, val, count) = PutWork(val, count) /\ PutHeld(w, count) = had /\ PutLeft(w, count) = count
    BY <1>1, <1>2, <2>2, Zenon DEF PutTail, PutHeld, PutLeft
  <2>4. has = had + count /\ \A b : b \in rest <=> b \in w.residue \/ b \in B!ShiftUp(PutWork(val, count), had)
    BY <1>1, <1>2, <1>4, <2>3
  <2>5. rest \subseteq 0 .. has - 1
    <3> SUFFICES ASSUME NEW b \in rest PROVE b \in 0 .. has - 1
      OBVIOUS
    <3>1. b \in 0 .. had - 1 \/ b \in had .. had + count - 1
      BY <1>5, <2>2, <2>4
    <3>2. has = had + count
      BY <2>4
    <3> QED BY ONLY <1>0, <3>1, <3>2
  <2>6. ASSUME NEW b \in 0 .. has - 1 PROVE b \in rest <=> IF b < had THEN b \in w.residue ELSE b - had \in val
    <3>1. CASE b < had
      <4>1. b \notin had .. had + count - 1
        BY <3>1
      <4> QED BY <2>2, <2>4, <3>1, <4>1
    <3>2. CASE ~(b < had)
      <4>1. b \in had .. had + count - 1 /\ b \notin 0 .. had - 1
        <5>1. has = had + count /\ b \in 0 .. has - 1
          BY <2>4
        <5> QED BY ONLY <1>0, <3>2, <5>1
      <4>2. b \notin w.residue
        BY <1>5, <4>1
      <4> QED BY <2>2, <2>4, <3>2, <4>1, <4>2
    <3> QED BY <3>1, <3>2
  <2>7. ASSUME NEW b \in 0 .. has - 1
        PROVE  b \in rest <=> IF 8 * whole + b < had THEN 8 * whole + b \in w.residue ELSE 8 * whole + b - had \in val
    <3>1. has \in 0 .. 7 /\ b \in 0 .. has - 1
      BY <2>1, <2>4
    <3>2. 8 * whole + b = b
      BY ONLY <1>0, <1>2, <3>1
    <3>3. b \in rest <=> IF b < had THEN b \in w.residue ELSE b - had \in val
      BY <2>6
    <3> QED BY ONLY <1>0, <3>1, <3>2, <3>3
  <2>8. has = had + count
    BY <2>4
  <2>9. has \in 0 .. 7 /\ 8 * whole + has = had + count
    BY ONLY <1>0, <1>2, <2>1, <2>8
  <2> QED BY ONLY <2>5, <2>7, <2>9 DEF has, rest
<1>3. CASE whole # 0
  <2>1. whole \in 1 .. 8
    BY <1>3
  <2> DEFINE left == count - (8 - had) - 8 * (whole - 1)
             low == B!ShiftDown(PutAfter(val, count, had), 8 * (whole - 1))
             tail == low \cap 0 .. left - 1
  <2>2. /\ left \in 0 .. 7 /\ 8 * whole + left = had + count
        /\ \A b \in 0 .. left - 1 : b \in low <=> 8 * whole + b - had \in val
    <3>1. val \in SUBSET Wide
      OBVIOUS
    <3>2. /\ LeftOver(count, had, whole) \in 0 .. 7 /\ 8 * whole + LeftOver(count, had, whole) = had + count
          /\ LeftBits(val, count, had, whole)
      <4>1. BitsPut(val, count, had, whole)
        BY ONLY <1>0, <2>1, <3>1, PutBits1
      <4> QED BY ONLY <4>1, Zenon DEF BitsPut
    <3> QED BY ONLY <3>2, Zenon DEF LeftOver, LeftBits
  <2>3. PutTail(w, val, count) = tail /\ PutHeld(w, count) = 0 /\ PutLeft(w, count) = left
    BY <1>1, <1>3, Zenon DEF PutTail, PutHeld, PutLeft
  <2> HIDE DEF left, low
  <2>4. has = left /\ rest = B!ShiftUp(tail, 0)
    BY <1>1, <1>3, <1>4, <2>2, <2>3
  <2>5. tail \in SUBSET Wide
    <3>1. left \in 0 .. 7
      BY <2>2
    <3> QED BY ONLY <3>1 DEF Wide
  <2>6. rest \in SUBSET Wide
    BY <2>4, ShiftWide
  <2>7. \A b \in Wide : b \in rest <=> b \in tail
    <3> SUFFICES ASSUME NEW b \in Wide PROVE b \in rest <=> b \in tail
      OBVIOUS
    <3> HIDE DEF tail
    <3>1. b \in B!ShiftUp(tail, 0) <=> b - 0 \in tail
      BY <2>5, 0 \in Nat, ShiftBits
    <3>2. b - 0 = b
      BY DEF Wide
    <3> QED BY <2>4, <3>1, <3>2
  <2>8. rest = tail
    BY <2>5, <2>6, <2>7
  <2>9. \A b \in 0 .. left - 1 : ~(8 * whole + b < had)
    <3>1. left \in 0 .. 7
      BY <2>2
    <3> QED BY ONLY <1>0, <2>1, <3>1
  <2>10. /\ has \in 0 .. 7 /\ 8 * whole + has = had + count /\ rest \subseteq 0 .. has - 1
         /\ \A b \in 0 .. has - 1 : b \in rest <=> 8 * whole + b - had \in val
    BY <2>2, <2>4, <2>8
  <2> QED BY ONLY <2>4, <2>9, <2>10 DEF has, rest
<1> QED BY <1>2, <1>3 DEF has, rest

LEMMA GivenIs ==
  ASSUME NEW val, NEW count \in Nat
  PROVE  /\ Given(val, count) \in [1 .. count -> BOOLEAN]
         /\ \A k \in 1 .. count : Given(val, count)[k] <=> (k - 1) \in val
<1>1. \A k \in 1 .. count : Given(val, count)[k] <=> (k - 1) \in val
  BY Zenon DEF Given
<1>2. ASSUME NEW k \in 1 .. count PROVE Given(val, count)[k] \in BOOLEAN
  <2>1. Given(val, count)[k] = ((k - 1) \in val)
    BY Zenon DEF Given
  <2>2. ((k - 1) \in val) \in BOOLEAN
    OBVIOUS
  <2> QED BY <2>1, <2>2, Zenon
<1>3. Given(val, count) = [k \in 1 .. count |-> Given(val, count)[k]]
  BY Zenon DEF Given
<1> QED BY <1>1, <1>2, <1>3

\* Bit x of what was held and what is asked; and bit b of its eight from i times eight on.
Came(residue, val, had, x) == IF x < had THEN x \in residue ELSE x - had \in val

Comes(residue, val, had, i, b) == Came(residue, val, had, 8 * i + b)

\* The bits that wait are those after the whole bytes.
Waiting(residue, p, was, had) == \A b \in 0 .. had - 1 : b \in residue <=> Bit(p, was, b)

\* Bit b of the byte i after the whole ones is the bit that comes there.
ComesAt(p, count, was, residue, val, had, i, b) ==
  Bit(p \o Given(val, count), was + i, b) <=> Comes(residue, val, had, i, b)

LEMMA AskedComes ==
  ASSUME NEW p \in Seq(BOOLEAN), NEW was \in Nat, NEW had \in 0 .. 7, 8 * was + had = Len(p),
         NEW residue, Waiting(residue, p, was, had),
         NEW val, NEW count \in Nat, NEW i \in Nat, NEW b \in 0 .. 7, 8 * i + b < had + count
  PROVE  ComesAt(p, count, was, residue, val, had, i, b)
<1>1. PICK x \in 0 .. had + count - 1 : x = 8 * i + b
  OBVIOUS
<1>2. PICK y \in Int : y = 8 * (was + i) + b + 1
  OBVIOUS
<1>3. y = 8 * was + x + 1
  BY <1>1, <1>2
<1>4. /\ Given(val, count) \in [1 .. count -> BOOLEAN]
      /\ \A k \in 1 .. count : Given(val, count)[k] <=> (k - 1) \in val
  BY GivenIs
<1>5. /\ \A k \in 1 .. Len(p) : (p \o Given(val, count))[k] = p[k]
      /\ \A k \in 1 .. count : (p \o Given(val, count))[Len(p) + k] = Given(val, count)[k]
  BY <1>4, LongerMirrors
<1>6. ASSUME x < had PROVE (p \o Given(val, count))[y] <=> Came(residue, val, had, x)
  <2>1. y \in 1 .. Len(p) /\ x \in 0 .. had - 1
    BY <1>3, <1>6
  <2>2. x \in residue <=> p[y]
    <3>1. x \in residue <=> Bit(p, was, x)
      BY <2>1 DEF Waiting
    <3>2. Bit(p, was, x) = p[y]
      BY <1>3, Zenon DEF Bit
    <3> QED BY ONLY <3>1, <3>2
  <2>3. (p \o Given(val, count))[y] = p[y]
    BY ONLY <1>5, <2>1
  <2> QED BY ONLY <1>6, <2>2, <2>3 DEF Came
<1>7. ASSUME ~(x < had) PROVE (p \o Given(val, count))[y] <=> Came(residue, val, had, x)
  <2>1. PICK k \in 1 .. count : k = x - had + 1 /\ y = Len(p) + k /\ k - 1 = x - had
    BY <1>3, <1>7
  <2> HIDE DEF Given
  <2>2. (p \o Given(val, count))[y] = Given(val, count)[k]
    BY ONLY <1>5, <2>1
  <2>3. Given(val, count)[k] <=> x - had \in val
    BY ONLY <1>4, <2>1
  <2> QED BY ONLY <1>7, <2>2, <2>3 DEF Came
<1>8. Bit(p \o Given(val, count), was + i, b) = (p \o Given(val, count))[y]
  BY <1>2, Zenon DEF Bit
<1>9. Comes(residue, val, had, i, b) = Came(residue, val, had, x)
  BY <1>1, Zenon DEF Comes
<1> QED BY <1>6, <1>7, <1>8, <1>9 DEF ComesAt

LEMMA PutEightComes ==
  ASSUME NEW val \in SUBSET Wide, NEW count \in 0 .. 64, NEW had \in 0 .. 7,
         NEW residue, residue \subseteq 0 .. had - 1,
         NEW whole \in 1 .. 8, whole = (had + count) \div 8, NEW i \in 0 .. whole - 1
  PROVE  /\ PutEight(residue, val, count, had, i) \in 0 .. 255
         /\ \A b \in 0 .. 7 :
              b \in B!BitsOf(PutEight(residue, val, count, had, i)) <=> Comes(residue, val, had, i, b)
<1>1. \A b \in 0 .. 7 :
        Comes(residue, val, had, i, b) <=> IF 8 * i + b < had THEN 8 * i + b \in residue ELSE 8 * i + b - had \in val
  BY DEF Comes, Came
<1> QED BY <1>1, PutEightIs

LEMMA PutRestComes ==
  ASSUME NEW w \in Writers, w.residue \subseteq 0 .. w.bit_count - 1,
         NEW val \in SUBSET Wide, NEW count \in 0 .. 64,
         w.bit_count \in 0 .. 7, PutWhole(w, count) \in 0 .. 8
  PROVE  /\ PutHas(w, count) \in 0 .. 7 /\ 8 * PutWhole(w, count) + PutHas(w, count) = w.bit_count + count
         /\ PutRest(w, val, count) \subseteq 0 .. PutHas(w, count) - 1
         /\ \A b \in 0 .. PutHas(w, count) - 1 :
              b \in PutRest(w, val, count) <=> Comes(w.residue, val, w.bit_count, PutWhole(w, count), b)
<1> DEFINE whole == PutWhole(w, count)
<1>1. \A b \in 0 .. PutHas(w, count) - 1 :
        Comes(w.residue, val, w.bit_count, whole, b) <=>
          IF 8 * whole + b < w.bit_count THEN 8 * whole + b \in w.residue ELSE 8 * whole + b - w.bit_count \in val
  BY DEF Comes, Came
<1> QED BY <1>1, PutRestIs

\* A put of bits: the writer holds those it held and the bits asked, or overflows.
LEMMA WriterPuts ==
  ASSUME NEW w, NEW p, WriterOk(w, p), NEW val \in SUBSET Wide, NEW count \in 0 .. 64
  PROVE  WriterOk(B!Put(w, val, count), p \o Given(val, count))
<1> DEFINE v == B!Put(w, val, count)
           q == Given(val, count)
           whole == PutWhole(w, count)
           had == w.bit_count
           was == w.bytes_written
<1>1. /\ w \in Writers /\ w.residue \subseteq 0 .. had - 1 /\ had \in 0 .. 7
      /\ was \in Nat /\ w.cap \in Nat /\ was <= w.cap
      /\ DOMAIN w.out = 0 .. w.cap + 1 /\ w.out \in Buffers
  <2>1. w \in Writers /\ w.residue \subseteq 0 .. had - 1 /\ was <= w.cap /\ DOMAIN w.out = 0 .. w.cap + 1
    BY Zenon DEF WriterOk
  <2>2. had \in 0 .. 7 /\ was \in Nat /\ w.cap \in Nat /\ w.out \in Buffers
    BY ONLY <2>1 DEF Writers
  <2> QED BY ONLY <2>1, <2>2, Zenon
<1>2. q \in [1 .. count -> BOOLEAN] /\ count \in Nat
  BY GivenIs
<1>3. whole \in 0 .. 8 /\ whole = (had + count) \div 8
  <2>1. had \in 0 .. 7 /\ whole = (had + count) \div 8 /\ count \in 0 .. 64
    BY <1>1 DEF PutWhole
  <2> QED BY ONLY <2>1
<1>4. CASE w.overflow \/ whole > w.cap - was
  <2>1. /\ v \in Writers /\ v.overflow /\ v.out = w.out /\ v.cap = w.cap /\ v.bytes_written = was
        /\ v = w \/ v.residue = {}
    <3>1. w \in Writers
      BY <1>1
    <3> QED BY ONLY <1>4, <3>1, PutRefuses
  <2>2. v.residue \subseteq 0 .. v.bit_count - 1
    BY <1>1, <2>1
  <2>3. WriterOk(w, p)
    OBVIOUS
  <2> HIDE DEF v, q
  <2> QED BY ONLY <1>2, <2>1, <2>2, <2>3, WriterDrops DEF v, q
<1>5. CASE ~(w.overflow \/ whole > w.cap - was)
  <2>1. v = [w EXCEPT !.out = PutOut(w, val, count), !.residue = PutRest(w, val, count),
                      !.bit_count = PutHas(w, count), !.bytes_written = was + whole]
    BY <1>1, <1>5, PutFields, Zenon
  <2>2. /\ v.out = PutOut(w, val, count) /\ v.residue = PutRest(w, val, count) /\ v.bit_count = PutHas(w, count)
        /\ v.cap = w.cap /\ v.bytes_written = was + whole /\ v.overflow = w.overflow
    BY ONLY <1>1, <2>1 DEF Writers
  <2>3. /\ v.bit_count \in 0 .. 7 /\ 8 * whole + v.bit_count = had + count
        /\ v.residue \subseteq 0 .. v.bit_count - 1
        /\ \A b \in 0 .. v.bit_count - 1 :
             b \in v.residue <=> Comes(w.residue, val, had, whole, b)
    <3>1. val \in SUBSET Wide /\ count \in 0 .. 64
      OBVIOUS
    <3>2. /\ PutHas(w, count) \in 0 .. 7 /\ 8 * whole + PutHas(w, count) = had + count
          /\ PutRest(w, val, count) \subseteq 0 .. PutHas(w, count) - 1
          /\ \A b \in 0 .. PutHas(w, count) - 1 :
               b \in PutRest(w, val, count) <=> Comes(w.residue, val, had, whole, b)
      BY ONLY <1>1, <1>3, <3>1, PutRestComes
    <3> HIDE DEF v, whole
    <3> QED BY ONLY <2>2, <3>2, Zenon
  <2>16. 8 * whole <= had + count /\ had + count < 8 * whole + 8
    <3>1. had \in 0 .. 7 /\ count \in 0 .. 64
      BY <1>1
    <3> HIDE DEF whole, had
    <3> QED BY ONLY <1>3, <3>1
  <2>4. /\ p \in Seq(BOOLEAN) /\ 8 * was + had = Len(p) /\ ~w.overflow
        /\ Waiting(w.residue, p, was, had)
    BY <1>5 DEF WriterOk, Waiting
  <2>5. ASSUME NEW i \in Nat, NEW b \in 0 .. 7, 8 * i + b < had + count
        PROVE  Bit(p \o q, was + i, b) <=> Comes(w.residue, val, had, i, b)
    <3>1. i \in Nat /\ b \in 0 .. 7 /\ 8 * i + b < had + count
      BY <2>5
    <3> HIDE DEF had, was
    <3>2. count \in Nat /\ had \in 0 .. 7 /\ was \in Nat
      BY <1>1, <1>2
    <3>3. ComesAt(p, count, was, w.residue, val, had, i, b)
      BY ONLY <2>4, <3>1, <3>2, AskedComes
    <3> QED BY ONLY <3>3, Zenon DEF ComesAt, q
  <2>6. \A k \in DOMAIN w.out :
          v.out[k] = IF k - was \in 0 .. whole - 1 THEN PutEight(w.residue, val, count, had, k - was)
                     ELSE w.out[k]
    <3>1. whole \in Nat
      BY <1>3
    <3> QED BY <2>2, <3>1, PutOutAt
  <2>7. whole \in 0 .. w.cap - was
    <3>1. ~(whole > w.cap - was)
      BY ONLY <1>5, Zenon
    <3>2. whole \in 0 .. 8 /\ was \in Nat /\ w.cap \in Nat
      BY ONLY <1>1, <1>3, Zenon
    <3> HIDE DEF v, q, whole, had, was
    <3> QED BY ONLY <3>1, <3>2
  <2>8. DOMAIN v.out = DOMAIN w.out
    BY <2>2, Zenon DEF PutOut
  <2>9. ASSUME NEW i \in 0 .. whole - 1
        PROVE  /\ PutEight(w.residue, val, count, had, i) \in 0 .. 255
               /\ \A b \in 0 .. 7 :
                    b \in B!BitsOf(PutEight(w.residue, val, count, had, i)) <=>
                      Comes(w.residue, val, had, i, b)
    <3>1. whole \in 1 .. 8
      BY <1>3
    <3>2. val \in SUBSET Wide /\ count \in 0 .. 64 /\ i \in 0 .. whole - 1
      OBVIOUS
    <3> QED BY ONLY <1>1, <1>3, <3>1, <3>2, PutEightComes
  <2>10. ASSUME NEW j \in was .. was + whole - 1
         PROVE  Mirrored(v, p \o q, j)
    <3> DEFINE i == j - was
    <3>1. i \in 0 .. whole - 1 /\ j = was + i /\ j \in DOMAIN w.out
      <4>1. j \in was .. was + whole - 1
        OBVIOUS
      <4> HIDE DEF v, q, had, was, whole
      <4> QED BY ONLY <1>1, <2>7, <4>1
    <3>2. v.out[j] = PutEight(w.residue, val, count, had, i)
      BY ONLY <2>6, <3>1
    <3> HIDE DEF v, q, had, was, whole, i
    <3>3. ASSUME NEW b \in 0 .. 7 PROVE Bit(p \o q, j, b) <=> Comes(w.residue, val, had, i, b)
      <4>1. 8 * i + b < had + count /\ i \in Nat /\ was + i = j
        <5>1. b \in 0 .. 7 /\ count \in 0 .. 64
          OBVIOUS
        <5> QED BY ONLY <1>1, <1>3, <2>16, <3>1, <5>1
      <4> QED BY <2>5, <4>1
    <3>4. /\ v.out[j] \in 0 .. 255
          /\ \A b \in 0 .. 7 : b \in B!BitsOf(v.out[j]) <=> Comes(w.residue, val, had, i, b)
      BY ONLY <2>9, <3>1, <3>2
    <3> QED BY ONLY <3>3, <3>4 DEF Mirrored
  <2>11. \A b \in 0 .. v.bit_count - 1 : b \in v.residue <=> Bit(p \o q, v.bytes_written, b)
    <3> SUFFICES ASSUME NEW b \in 0 .. v.bit_count - 1
                 PROVE  b \in v.residue <=> Bit(p \o q, v.bytes_written, b)
      OBVIOUS
    <3> HIDE DEF v, q, had, was, whole
    <3>1. 8 * whole + b < had + count /\ b \in 0 .. 7 /\ whole \in Nat /\ v.bytes_written = was + whole
      <4>1. v.bit_count \in 0 .. 7 /\ 8 * whole + v.bit_count = had + count /\ v.bytes_written = was + whole
            /\ b \in 0 .. v.bit_count - 1 /\ count \in 0 .. 64
        BY <2>2, <2>3, Zenon
      <4>2. had \in 0 .. 7 /\ was \in Nat /\ whole \in 0 .. 8
        BY ONLY <1>1, <1>3, Zenon
      <4> QED BY ONLY <4>1, <4>2
    <3>2. Bit(p \o q, was + whole, b) <=> Comes(w.residue, val, had, whole, b)
      BY <2>5, <3>1
    <3>3. b \in v.residue <=> Comes(w.residue, val, had, whole, b)
      BY <2>3
    <3> QED BY ONLY <3>1, <3>2, <3>3
  <2>12. v \in Writers
    <3>1. ASSUME NEW k \in DOMAIN w.out PROVE v.out[k] \in Int
      <4>1. w.out[k] \in Int
        BY <1>1 DEF Buffers
      <4>2. \A i \in 0 .. whole - 1 : PutEight(w.residue, val, count, had, i) \in Int
        BY <2>9
      <4> DEFINE eight(i) == PutEight(w.residue, val, count, had, i)
      <4>3. CASE k - was \in 0 .. whole - 1
        <5>1. v.out[k] = eight(k - was) /\ eight(k - was) \in Int
          BY <2>6, <4>2, <4>3
        <5> QED BY ONLY <5>1
      <4>4. CASE k - was \notin 0 .. whole - 1
        <5>1. v.out[k] = w.out[k]
          BY <2>6, <4>4
        <5> QED BY ONLY <4>1, <5>1
      <4> QED BY <4>3, <4>4
    <3>2. v.out = [k \in DOMAIN w.out |-> v.out[k]]
      BY <2>2, Zenon DEF PutOut
    <3>3. v.out \in Buffers
      <4>1. v.out \in [0 .. w.cap + 1 -> Int]
        BY <1>1, <3>1, <3>2
      <4> HIDE DEF v
      <4> QED BY <1>1, <4>1 DEF Buffers
    <3>4. w \in Writers /\ v.residue \in SUBSET (0 .. 7) /\ v.bit_count \in 0 .. 7 /\ v.bytes_written \in Nat
      <4>1. v.bit_count \in 0 .. 7 /\ v.residue \subseteq 0 .. v.bit_count - 1
        BY <2>3
      <4>2. v.residue \in SUBSET (0 .. 7)
        <5> HIDE DEF v
        <5> QED BY ONLY <4>1
      <4>3. v.bytes_written \in Nat
        <5>1. v.bytes_written = was + whole
          BY ONLY <2>2, Zenon
        <5>2. was \in Nat /\ whole \in 0 .. 8
          BY ONLY <1>1, <1>3, Zenon
        <5> HIDE DEF v, was, whole
        <5> QED BY ONLY <5>1, <5>2
      <4>4. v.bit_count \in 0 .. 7
        BY ONLY <4>1, Zenon
      <4>5. w \in Writers
        BY <1>1, Zenon
      <4> QED BY ONLY <4>2, <4>3, <4>4, <4>5, Zenon
    <3>5. v = [w EXCEPT !.out = v.out, !.residue = v.residue, !.bit_count = v.bit_count, !.bytes_written = v.bytes_written]
      BY ONLY <2>1, <2>2, Zenon
    <3> HIDE DEF v
    <3> QED BY ONLY <3>3, <3>4, <3>5 DEF Writers
  <2>13. v.bytes_written = was + whole /\ v.bytes_written <= v.cap /\ ~v.overflow /\ v.cap = w.cap
    <3>1. v.cap = w.cap /\ v.bytes_written = was + whole /\ v.overflow = w.overflow /\ ~w.overflow
      BY ONLY <2>2, <2>4, Zenon
    <3>2. was \in Nat /\ w.cap \in Nat
      BY ONLY <1>1, Zenon
    <3> HIDE DEF v, q, whole, had, was
    <3>3. was + whole <= w.cap
      BY ONLY <2>7, <3>2
    <3> QED BY ONLY <3>1, <3>3, Zenon
  <2>14. \A k \in DOMAIN w.out : k - was \notin 0 .. whole - 1 => v.out[k] = w.out[k]
    <3> HIDE DEF v, q, whole, had, was
    <3> QED BY ONLY <2>6
  <2>15. WriterOk(w, p) /\ whole \in Nat
    BY <1>3
  <2> HIDE DEF v, q, whole
  <2> QED BY ONLY <1>2, <2>3, <2>4, <2>8, <2>10, <2>11, <2>12, <2>13, <2>14, <2>15, WriterGrows DEF v, q
<1> QED BY <1>4, <1>5

\* The zeros of an alignment.
Zeros(p) == [k \in 1 .. (8 - (Len(p) % 8)) % 8 |-> FALSE]

LEMMA ZerosGiven ==
  ASSUME NEW p \in Seq(BOOLEAN), NEW n, n = (8 - (Len(p) % 8)) % 8
  PROVE  n \in Nat /\ Zeros(p) = Given({}, n)
<1>1. n \in Nat
  OBVIOUS
<1>2. \A k \in 1 .. n : ((k - 1) \in {}) = FALSE
  OBVIOUS
<1>3. Given({}, n) = [k \in 1 .. n |-> FALSE]
  <2>1. Given({}, n) = [k \in 1 .. n |-> (k - 1) \in {}]
    BY Zenon DEF Given
  <2> QED BY <1>2, <2>1, Zenon
<1> QED BY <1>1, <1>3, Zenon DEF Zeros

\* An alignment: the residue goes to the buffer as a byte, zeros above, or the writer overflows.
LEMMA WriterAligns ==
  ASSUME NEW w, NEW p, WriterOk(w, p)
  PROVE  WriterOk(B!Align(w), p \o Zeros(p))
<1> DEFINE v == B!Align(w)
           n == (8 - (Len(p) % 8)) % 8
           had == w.bit_count
           was == w.bytes_written
<1>1. /\ w \in Writers /\ w.residue \subseteq 0 .. had - 1 /\ had \in 0 .. 7
      /\ was \in Nat /\ w.cap \in Nat /\ was <= w.cap
      /\ DOMAIN w.out = 0 .. w.cap + 1 /\ w.out \in Buffers
  <2>1. w \in Writers /\ w.residue \subseteq 0 .. had - 1 /\ was <= w.cap /\ DOMAIN w.out = 0 .. w.cap + 1
    BY Zenon DEF WriterOk
  <2>2. had \in 0 .. 7 /\ was \in Nat /\ w.cap \in Nat /\ w.out \in Buffers
    BY ONLY <2>1 DEF Writers
  <2> QED BY ONLY <2>1, <2>2, Zenon
<1>2. p \in Seq(BOOLEAN)
  BY Zenon DEF WriterOk
<1>3. n \in Nat /\ Zeros(p) = Given({}, n)
  BY <1>2, ZerosGiven
<1>4. Given({}, n) \in [1 .. n -> BOOLEAN]
  BY <1>3, GivenIs
<1>5. WriterOk(w, p)
  OBVIOUS
<1> HIDE DEF n
<1>6. CASE w.overflow
  <2>1. v = w
    BY <1>6, Zenon DEF B!Align
  <2>2. w.overflow
    BY <1>6
  <2> HIDE DEF had, was, v
  <2> QED BY ONLY <1>1, <1>3, <1>4, <1>5, <2>1, <2>2, WriterDrops DEF v, had
<1>7. ASSUME ~w.overflow PROVE 8 * was + had = Len(p) /\ Len(p) \in Nat /\ n = (8 - had) % 8
  <2>1. 8 * was + had = Len(p) /\ Len(p) \in Nat
    BY <1>2, <1>7 DEF WriterOk
  <2>2. Len(p) % 8 = had
    <3> HIDE DEF had, was
    <3> QED BY ONLY <1>1, <2>1
  <2> QED BY <2>1, <2>2 DEF n
<1>8. CASE ~w.overflow /\ had = 0
  <2>1. v = w
    BY <1>8, Zenon DEF B!Align
  <2>2. n = 0
    BY <1>7, <1>8
  <2>3. p \o Zeros(p) = p
    <3>1. Zeros(p) = <<>>
      BY <1>3, <2>2 DEF Given
    <3> QED BY <1>2, <3>1
  <2> QED BY <1>5, <2>1, <2>3
<1>9. CASE ~w.overflow /\ had # 0 /\ was >= w.cap
  <2>1. v = [w EXCEPT !.overflow = TRUE]
    BY <1>9, Zenon DEF B!Align
  <2>2. v \in Writers /\ v.overflow = TRUE /\ v.out = w.out /\ v.cap = w.cap /\ v.bytes_written = w.bytes_written
        /\ v.residue = w.residue /\ v.bit_count = w.bit_count
    BY ONLY <1>1, <2>1 DEF Writers
  <2>3. v.overflow /\ v.residue \subseteq 0 .. v.bit_count - 1
    BY <1>1, <2>2
  <2> HIDE DEF had, was, v
  <2> QED BY ONLY <1>3, <1>4, <1>5, <2>2, <2>3, WriterDrops DEF v
<1>10. CASE ~w.overflow /\ had # 0 /\ ~(was >= w.cap)
  <2>1. v = [w EXCEPT !.out[was] = B!NumberOf(w.residue), !.bytes_written = @ + 1, !.residue = {}, !.bit_count = 0]
    BY <1>10, Zenon DEF B!Align
  <2>2. w.residue \in SUBSET (0 .. 7)
    BY <1>1 DEF Writers
  <2>3. B!NumberOf(w.residue) \in 0 .. 255 /\ B!BitsOf(B!NumberOf(w.residue)) = w.residue
    BY <2>2, WriterByte
  <2> DEFINE byte == B!NumberOf(w.residue)
  <2> HIDE DEF byte
  <2>4. /\ v.out = [w.out EXCEPT ![was] = byte] /\ v.cap = w.cap /\ v.bytes_written = was + 1 /\ v.residue = {}
        /\ v.bit_count = 0 /\ v.overflow = w.overflow
    BY ONLY <1>1, <2>1 DEF Writers, byte
  <2>5. was \in DOMAIN w.out /\ was + 1 <= w.cap
    BY <1>1, <1>10
  <2>6. /\ v.out[was] = byte /\ DOMAIN v.out = DOMAIN w.out
        /\ \A k \in DOMAIN w.out : k - was \notin 0 .. 1 - 1 => v.out[k] = w.out[k]
    <3>1. v.out = [w.out EXCEPT ![was] = byte]
      BY <2>4
    <3>2. was \in DOMAIN w.out /\ was \in Int /\ DOMAIN w.out = 0 .. w.cap + 1 /\ w.cap \in Nat
      BY <1>1, <2>5
    <3> HIDE DEF v, had, was
    <3>3. \A k \in 0 .. w.cap + 1 : k - was \notin 0 .. 1 - 1 => k # was
      BY ONLY <3>2
    <3>4. v.out[was] = byte /\ DOMAIN v.out = DOMAIN w.out /\ \A k \in DOMAIN w.out : k # was => v.out[k] = w.out[k]
      BY ONLY <3>1, <3>2
    <3> QED BY ONLY <3>2, <3>3, <3>4
  <2>7. v \in Writers
    <3>1. v.out \in Buffers
      <4>1. w.out \in [0 .. w.cap + 1 -> Int] /\ byte \in Int
        <5>1. byte \in Int
          BY <2>3 DEF byte
        <5>2. PICK cap \in Nat : w.out \in [0 .. cap + 1 -> Int]
          BY <1>1 DEF Buffers
        <5>3. w.out \in [0 .. w.cap + 1 -> Int]
          BY ONLY <1>1, <5>2
        <5> QED BY <5>1, <5>3
      <4>2. v.out \in [0 .. w.cap + 1 -> Int]
        BY ONLY <2>4, <4>1
      <4> QED BY <1>1, <4>2 DEF Buffers
    <3>2. v = [w EXCEPT !.out = v.out, !.residue = {}, !.bit_count = 0, !.bytes_written = was + 1]
      BY ONLY <2>1, <2>4, Zenon DEF byte
    <3>3. was + 1 \in Nat
      BY <1>1
    <3>4. w \in Writers
      BY <1>1
    <3> HIDE DEF v, was
    <3>5. v = [out |-> v.out, cap |-> w.cap, bytes_written |-> was + 1, residue |-> {}, bit_count |-> 0,
               overflow |-> w.overflow]
      BY ONLY <3>2, <3>4 DEF Writers
    <3>6. w.cap \in Nat /\ w.overflow \in BOOLEAN
      BY ONLY <3>4 DEF Writers
    <3> QED BY ONLY <3>1, <3>3, <3>5, <3>6 DEF Writers
  <2>8. n = 8 - had
    BY <1>1, <1>7, <1>10
  <2>9. /\ 8 * was + had = Len(p) /\ Waiting(w.residue, p, was, had)
    BY <1>7, <1>10 DEF WriterOk, Waiting
  <2>10. Mirrored(v, p \o Given({}, n), was)
    <3>1. ASSUME NEW b \in 0 .. 7 PROVE Bit(p \o Given({}, n), was + 0, b) <=> b \in w.residue
      <4>1. 8 * 0 + b < had + n /\ 0 \in Nat /\ 8 * 0 + b = b
        BY <1>1, <2>8
      <4>2. Bit(p \o Given({}, n), was + 0, b) <=> Comes(w.residue, {}, had, 0, b)
        <5>1. b \in 0 .. 7
          OBVIOUS
        <5> HIDE DEF had, was
        <5>2. had \in 0 .. 7 /\ was \in Nat /\ n \in Nat /\ p \in Seq(BOOLEAN)
          BY ONLY <1>1, <1>2, <1>3, <2>9
        <5>3. ComesAt(p, n, was, w.residue, {}, had, 0, b)
          BY ONLY <2>9, <4>1, <5>1, <5>2, AskedComes
        <5> QED BY ONLY <5>3, Zenon DEF ComesAt
      <4>3. Comes(w.residue, {}, had, 0, b) <=> b \in w.residue
        <5>1. Comes(w.residue, {}, had, 0, b) = Came(w.residue, {}, had, b)
          BY <4>1, Zenon DEF Comes
        <5>2. b \in w.residue => b < had
          BY <1>1
        <5> HIDE DEF had
        <5> QED BY <5>1, <5>2 DEF Came
      <4> QED BY <4>2, <4>3
    <3>2. was + 0 = was
      BY <1>1
    <3>3. v.out[was] \in 0 .. 255 /\ B!BitsOf(v.out[was]) = w.residue
      BY <2>3, <2>6 DEF byte
    <3> HIDE DEF v, was
    <3> QED BY <3>1, <3>2, <3>3 DEF Mirrored
  <2>11. /\ v.residue \subseteq 0 .. v.bit_count - 1
         /\ \A b \in 0 .. v.bit_count - 1 : b \in v.residue <=> Bit(p \o Given({}, n), v.bytes_written, b)
    BY <2>4
  <2>12. \A j \in was .. was + 1 - 1 : Mirrored(v, p \o Given({}, n), j)
    <3>1. \A j \in was .. was + 1 - 1 : j = was
      BY <1>1
    <3> QED BY <2>10, <3>1
  <2>13. v.bytes_written = was + 1 /\ v.bytes_written <= v.cap /\ ~v.overflow /\ ~w.overflow /\ v.cap = w.cap
         /\ 8 * 1 + v.bit_count = had + n /\ 1 \in Nat
    BY <1>1, <1>10, <2>4, <2>5, <2>8
  <2> HIDE DEF v
  <2>14. WriterOk(v, p \o Given({}, n))
    BY ONLY <1>3, <1>4, <1>5, <2>6, <2>7, <2>11, <2>12, <2>13, WriterGrows
  <2> QED BY <1>3, <2>14 DEF v
<1> QED BY <1>6, <1>8, <1>9, <1>10

LEMMA IsWriter ==
  ASSUME NEW o \in Buffers, NEW c \in Nat, NEW n \in Nat, NEW r \in SUBSET (0 .. 7), NEW b \in 0 .. 7, NEW f \in BOOLEAN
  PROVE  [out |-> o, cap |-> c, bytes_written |-> n, residue |-> r, bit_count |-> b, overflow |-> f] \in Writers
BY DEF Writers

LEMMA NewWriter ==
  ASSUME NEW cap \in Nat
  PROVE  WriterOk(B!InitWriter(cap, 255), <<>>)
<1> DEFINE w == B!InitWriter(cap, 255)
<1>1. /\ w.out = [k \in 0 .. cap + 1 |-> 255] /\ w.cap = cap /\ w.bytes_written = 0 /\ w.residue = {}
      /\ w.bit_count = 0 /\ w.overflow = FALSE
  BY DEF B!InitWriter
<1>2. w.out \in Buffers
  <2>1. [k \in 0 .. cap + 1 |-> 255] \in [0 .. cap + 1 -> Int]
    OBVIOUS
  <2> HIDE DEF w
  <2> QED BY <1>1, <2>1 DEF Buffers
<1>3. w \in Writers
  <2>1. w = [out |-> w.out, cap |-> cap, bytes_written |-> 0, residue |-> {}, bit_count |-> 0, overflow |-> FALSE]
    BY DEF B!InitWriter
  <2> HIDE DEF w
  <2>2. cap \in Nat /\ 0 \in Nat /\ {} \in SUBSET (0 .. 7) /\ 0 \in 0 .. 7 /\ FALSE \in BOOLEAN
    OBVIOUS
  <2>3. [out |-> w.out, cap |-> cap, bytes_written |-> 0, residue |-> {}, bit_count |-> 0, overflow |-> FALSE] \in Writers
    BY ONLY <1>2, <2>2, IsWriter
  <2> QED BY ONLY <2>1, <2>3, Zenon
<1>4. <<>> \in Seq(BOOLEAN) /\ Len(<<>>) = 0
  OBVIOUS
<1>5. DOMAIN w.out = 0 .. cap + 1 /\ \A k \in 0 .. cap + 1 : w.out[k] = 255
  BY <1>1, Zenon
<1> HIDE DEF w
<1>6. \A j \in 0 .. 0 - 1 : FALSE
  OBVIOUS
<1>7. WriterOk(w, <<>>)
  BY <1>1, <1>3, <1>4, <1>5, <1>6 DEF WriterOk
<1> QED BY <1>7 DEF w

\* What the writer holds reads back as the bits asked.
LEMMA WriterMirrors ==
  ASSUME WriterOk(bits, poured)
  PROVE  BitsMirror
<1> DEFINE was == bits.bytes_written
           had == bits.bit_count
           count == 8 * was + had
<1>1. /\ bits \in Writers /\ poured \in Seq(BOOLEAN) /\ was <= bits.cap /\ bits.residue \subseteq 0 .. had - 1
      /\ 8 * was <= Len(poured) /\ \A k \in was .. bits.cap + 1 : bits.out[k] = 255
  BY Zenon DEF WriterOk
<1>2. was \in Nat /\ had \in 0 .. 7 /\ Len(poured) \in Nat
  BY <1>1 DEF Writers
<1>3. ~bits.overflow => count = Len(poured)
  BY Zenon DEF WriterOk
<1>4. \A j \in 0 .. was - 1 : Mirrored(bits, poured, j)
  BY Zenon DEF WriterOk
<1>5. ~bits.overflow => \A b \in 0 .. had - 1 : b \in bits.residue <=> Bit(poured, was, b)
  BY Zenon DEF WriterOk
<1> HIDE DEF was, had
<1>6. ASSUME NEW k \in 0 .. 8 * was - 1 PROVE BitAt(k) = poured[k + 1]
  <2>1. PICK j \in 0 .. was - 1, b \in 0 .. 7 : j = k \div 8 /\ b = k % 8 /\ 8 * j + b = k /\ k + 1 \in 1 .. Len(poured)
    <3>1. k \in 0 .. 8 * was - 1 /\ 8 * was <= Len(poured)
      BY <1>1 DEF was
    <3>2. k \in Nat /\ k \div 8 \in Nat /\ k % 8 \in 0 .. 7 /\ k = 8 * (k \div 8) + (k % 8)
      BY ONLY <1>2, <3>1
    <3>3. k \div 8 \in 0 .. was - 1 /\ k + 1 \in 1 .. Len(poured)
      BY ONLY <1>2, <3>1, <3>2
    <3> QED BY ONLY <3>2, <3>3
  <2>2. b \in B!BitsOf(bits.out[j]) <=> Bit(poured, j, b)
    BY <1>4 DEF Mirrored
  <2>3. Bit(poured, j, b) = poured[k + 1]
    BY <2>1, Zenon DEF Bit
  <2>4. BitAt(k) <=> b \in B!BitsOf(bits.out[j])
    <3>1. k \div 8 < was
      BY <1>2, <2>1
    <3> QED BY <2>1, <3>1 DEF BitAt, was
  <2>5. poured[k + 1] \in BOOLEAN
    <3>1. poured \in Seq(BOOLEAN) /\ k + 1 \in 1 .. Len(poured)
      BY <1>1, <2>1
    <3> QED BY ONLY <3>1
  <2> QED BY <2>2, <2>3, <2>4, <2>5 DEF BitAt
<1>7. ASSUME ~bits.overflow, NEW k \in 0 .. count - 1 PROVE BitAt(k) = poured[k + 1]
  <2>1. CASE k \in 0 .. 8 * was - 1
    BY <1>6, <2>1
  <2>2. CASE k \notin 0 .. 8 * was - 1
    <3>0. k \in 0 .. count - 1
      BY <1>7
    <3>1. PICK b \in 0 .. had - 1 : b = k % 8 /\ 8 * was + b = k /\ ~(k \div 8 < was) /\ k + 1 \in 1 .. Len(poured)
      <4>1. k \in 8 * was .. 8 * was + had - 1 /\ 8 * was + had = Len(poured)
        BY <1>2, <1>3, <1>7, <2>2, <3>0
      <4>2. k - 8 * was \in 0 .. had - 1 /\ k \div 8 = was /\ k % 8 = k - 8 * was /\ k + 1 \in 1 .. Len(poured)
        BY ONLY <1>2, <4>1
      <4>3. 8 * was + (k - 8 * was) = k /\ ~(was < was)
        BY ONLY <1>2, <4>1
      <4> QED BY ONLY <4>2, <4>3
    <3>2. b \in bits.residue <=> Bit(poured, was, b)
      BY <1>5, <1>7
    <3>3. Bit(poured, was, b) = poured[k + 1]
      BY <3>1, Zenon DEF Bit
    <3>4. BitAt(k) <=> b \in bits.residue
      BY <3>1 DEF BitAt, was
    <3>5. poured[k + 1] \in BOOLEAN
      <4>1. poured \in Seq(BOOLEAN) /\ k + 1 \in 1 .. Len(poured)
        BY <1>1, <3>1
      <4> QED BY ONLY <4>1
    <3> QED BY <3>2, <3>3, <3>4, <3>5 DEF BitAt
  <2> QED BY <2>1, <2>2
<1>8. had < 8
  BY <1>2
<1> QED BY <1>1, <1>3, <1>6, <1>7, <1>8 DEF BitsMirror, was, had

(* The steps of a span and of a bit writer, and what moves neither.        *)
LEMMA SpanStepBits == ASSUME SpanNext PROVE UNCHANGED <<bits, poured>>
BY DEF SpanNext, PutByte, PutRaw, PutWide, PutNumber, ResetSpan, Wrote

LEMMA BitStepSpan == ASSUME BitNext PROVE UNCHANGED <<span, wrote>>
BY DEF BitNext, PutBits, AlignBits

BitsInv == WriterOk(bits, poured)

LEMMA BitsInvInit == ASSUME FluxInit PROVE BitsInv
<1>1. PICK c \in BitCaps : bits = B!InitWriter(c, 255)
  BY DEF FluxInit
<1>2. c \in Nat /\ poured = <<>>
  BY <1>1, CapsAssumption DEF FluxInit
<1>3. WriterOk(B!InitWriter(c, 255), <<>>)
  BY <1>2, NewWriter
<1> QED BY <1>1, <1>2, <1>3 DEF BitsInv

LEMMA PouredKept ==
  ASSUME NEW val \in SUBSET Wide, NEW count \in 0 .. 64, WriterOk(bits, poured), PutBits(val, count)
  PROVE  WriterOk(bits', poured')
<1>1. bits' = B!Put(bits, val, count) /\ poured' = poured \o Given(val, count)
  BY Zenon DEF PutBits, Given
<1>2. WriterOk(B!Put(bits, val, count), poured \o Given(val, count))
  BY WriterPuts
<1> QED BY <1>1, <1>2

LEMMA BitsInvKept == ASSUME BitsInv, [SpanNext \/ BitNext]_fluxVars PROVE BitsInv'
<1>1. CASE UNCHANGED <<bits, poured>>
  BY <1>1 DEF BitsInv, WriterOk
<1>2. CASE SpanNext
  BY <1>1, <1>2, SpanStepBits
<1>3. CASE BitNext
  <2>1. /\ {0, 2, 3} \in SUBSET Wide /\ {0, 1, 3, 7, 9} \in SUBSET Wide /\ {0, 63, 30} \in SUBSET Wide
        /\ 5 \in 0 .. 64 /\ 11 \in 0 .. 64 /\ 64 \in 0 .. 64
    BY DEF Wide
  <2>2. CASE PutBits({0, 2, 3}, 5) \/ PutBits({0, 1, 3, 7, 9}, 11) \/ PutBits({0, 63, 30}, 64)
    <3>1. PICK val \in SUBSET Wide, count \in 0 .. 64 : PutBits(val, count)
      BY <2>1, <2>2, Zenon
    <3> QED BY <3>1, PouredKept DEF BitsInv
  <2>3. CASE AlignBits
    <3>1. bits' = B!Align(bits) /\ poured' = poured \o Zeros(poured)
      BY <2>3, Zenon DEF AlignBits, Zeros
    <3>2. WriterOk(B!Align(bits), poured \o Zeros(poured))
      BY WriterAligns DEF BitsInv
    <3> QED BY <3>1, <3>2 DEF BitsInv
  <2> QED BY <1>3, <2>2, <2>3, Zenon DEF BitNext
<1>4. CASE UNCHANGED fluxVars
  BY <1>1, <1>4 DEF fluxVars
<1> QED BY <1>2, <1>3, <1>4

\* bitorum_introitus_exitus.c: in whatever order BitNext's puts and aligns come, and for every
\* capacity, the bits written are the bits asked, first in the lowest of a byte, and a put that
\* does not fit is dropped whole.  WriterPuts says it of every put of up to 64 bits.
THEOREM BitsMirrorHolds == FluxSpec => []BitsMirror
<1>1. FluxInit => BitsInv
  BY BitsInvInit
<1>2. BitsInv /\ [SpanNext \/ BitNext]_fluxVars => BitsInv'
  BY BitsInvKept
<1>3. BitsInv => BitsMirror
  BY WriterMirrors DEF BitsInv
<1> QED BY <1>1, <1>2, <1>3, PTL DEF FluxSpec

-----------------------------------------------------------------------------
(* octetus_introitus_exitus: a width stored and gathered in pieces.        *)

LEMMA SameSeq ==
  \A s, t : s \in Seq(Int) /\ t \in Seq(Int) /\ Len(s) = Len(t) /\ (\A k \in 1 .. Len(s) : s[k] = t[k])
              => s = t
OBVIOUS

LEMMA ThreePieces == <<4>> \o <<2>> \o <<1>> = <<4, 2, 1>>
<1> DEFINE s == <<4>> \o <<2>> \o <<1>>
           t == <<4, 2, 1>>
<1>1. s \in Seq(Int) /\ Len(s) = 3 /\ s[1] = 4 /\ s[2] = 2 /\ s[3] = 1
  <2>1. <<4>> \o <<2>> \in Seq(Int) /\ Len(<<4>> \o <<2>>) = 2
        /\ (<<4>> \o <<2>>)[1] = 4 /\ (<<4>> \o <<2>>)[2] = 2
    OBVIOUS
  <2>2. <<1>> \in Seq(Int) /\ Len(<<1>>) = 1 /\ <<1>>[1] = 1
    OBVIOUS
  <2> QED BY <2>1, <2>2
<1>2. t \in Seq(Int) /\ Len(t) = 3 /\ t[1] = 4 /\ t[2] = 2 /\ t[3] = 1
  OBVIOUS
<1>3. \A k \in 1 .. 3 : k = 1 \/ k = 2 \/ k = 3
  OBVIOUS
<1> HIDE DEF s, t
<1>4. \A k \in 1 .. 3 : s[k] = t[k]
  BY <1>1, <1>2, <1>3
<1>5. s = t
  BY ONLY <1>1, <1>2, <1>4, SameSeq
<1> QED BY <1>5 DEF s, t

LEMMA PiecesAre ==
  /\ Pieces(4) = <<4>> /\ Pieces(7) = <<4, 2, 1>> /\ Pieces(8) = <<8>>
  /\ PieceAt(<<4>>, 1) = 0 /\ PieceAt(<<8>>, 1) = 0
  /\ PieceAt(<<4, 2, 1>>, 1) = 0 /\ PieceAt(<<4, 2, 1>>, 2) = 4 /\ PieceAt(<<4, 2, 1>>, 3) = 6
<1>1. /\ (4 \div 4) % 2 = 1 /\ (4 \div 2) % 2 = 0 /\ (4 \div 1) % 2 = 0
      /\ (7 \div 4) % 2 = 1 /\ (7 \div 2) % 2 = 1 /\ (7 \div 1) % 2 = 1
  OBVIOUS
<1>2. <<4>> \o <<>> \o <<>> = <<4>>
  OBVIOUS
<1>3. Pieces(4) = <<4>> \o <<>> \o <<>>
  BY <1>1 DEF Pieces
<1>4. Pieces(7) = <<4>> \o <<2>> \o <<1>>
  BY <1>1 DEF Pieces
<1>5. Pieces(8) = <<8>>
  BY DEF Pieces
<1> QED BY <1>2, <1>3, <1>4, <1>5, ThreePieces DEF PieceAt

LEMMA PartAt ==
  ASSUME NEW V \in SUBSET Wide, NEW p \in 0 .. 7, NEW k \in 0 .. 7, p + k <= 7
  PROVE  E!ByteAt(E!ShiftDown(V, 8 * p), k) = E!NumberOf(OfByte(V, p + k))
<1> DEFINE W == E!ShiftDown(V, 8 * p)
<1>1. 0 .. 64 - 1 = Wide
  BY DEF Wide
<1>2. W \in SUBSET Wide
  BY <1>1 DEF E!ShiftDown, E!Positions
<1>3. ASSUME NEW b \in 0 .. 7 PROVE Has(W, k, b) <=> Has(V, p + k, b)
  <2>1. 8 * k + b \in Wide
    BY DEF Wide
  <2>2. \A i \in V : 8 * k + b = i - 8 * p <=> i = 8 * (p + k) + b
    BY DEF Wide
  <2> QED BY <1>1, <2>1, <2>2 DEF Has, E!ShiftDown, E!Positions
<1>4. OfByte(W, k) = OfByte(V, p + k)
  BY <1>3 DEF OfByte
<1> QED BY <1>2, <1>4, ByteAtIs

\* Byte j of a value in a field of a width, the highest byte first.
BeByte(V, width, j) == E!NumberOf(OfByte(V, width - 1 - j))

LEMMA RevByte ==
  ASSUME NEW V \in SUBSET Wide, NEW width \in 1 .. 8, NEW j \in 0 .. width - 1
  PROVE  E!NumberOf(OfByte(E!Rev(V, width), j)) = BeByte(V, width, j)
<1>1. \A b \in 0 .. 7 : Has(E!Rev(V, width), j, b) <=> Has(V, width - 1 - j, b)
  BY RevIs
<1>2. OfByte(E!Rev(V, width), j) = OfByte(V, width - 1 - j)
  BY <1>1 DEF OfByte
<1> QED BY <1>2 DEF BeByte

\* One piece of a value, p bytes from the address, stores its own bytes of the value.
Part(mem, at, V, p, w) == E!Stored(mem, at + p, E!ShiftDown(V, 8 * p), w)

LEMMA PieceStored ==
  ASSUME NEW mem, NEW at \in Int, NEW V \in SUBSET Wide, NEW p \in 0 .. 7, NEW w \in 1 .. 8, p + w <= 8,
         NEW k \in DOMAIN mem, k \in Int
  PROVE  Part(mem, at, V, p, w)[k] =
           IF k \in at + p .. at + p + w - 1 THEN E!NumberOf(OfByte(V, k - at)) ELSE mem[k]
<1>1. CASE k \in at + p .. at + p + w - 1
  <2>1. PICK i \in 0 .. 7 : i = k - (at + p) /\ p + i <= 7 /\ p + i = k - at
    <3>1. k - (at + p) \in 0 .. 7 /\ p + (k - (at + p)) <= 7 /\ p + (k - (at + p)) = k - at
      BY <1>1
    <3> QED BY <3>1
  <2>2. E!ByteAt(E!ShiftDown(V, 8 * p), i) = E!NumberOf(OfByte(V, p + i))
    BY <2>1, PartAt
  <2> QED BY <1>1, <2>1, <2>2 DEF E!Stored, Part
<1>2. CASE k \notin at + p .. at + p + w - 1
  BY <1>2 DEF E!Stored, Part
<1> QED BY <1>1, <1>2

\* A whole width of one piece, or of three.
LEMMA OnePiece ==
  ASSUME NEW mem, NEW at \in Int, NEW V, NEW w
  PROVE  Piecewise(mem, at, V, <<w>>) =
           E!Stored(mem, at + PieceAt(<<w>>, 1), E!ShiftDown(V, 8 * PieceAt(<<w>>, 1)), w)
<1> DEFINE part == E!Stored(mem, at + PieceAt(<<w>>, 1), E!ShiftDown(V, 8 * PieceAt(<<w>>, 1)), w)
           Step(m, n) == E!Stored(m, at + PieceAt(<<w>>, n), E!ShiftDown(V, 8 * PieceAt(<<w>>, n)), <<w>>[n])
           Folds(g) == g = [n \in 0 .. Len(<<w>>) |-> IF n = 0 THEN mem ELSE Step(g[n - 1], n)]
           Done == CHOOSE g : Folds(g)
<1>1. Len(<<w>>) = 1 /\ Step(mem, 1) = part
  OBVIOUS
<1> HIDE DEF Step
<1>2. Folds([n \in 0 .. 1 |-> IF n = 0 THEN mem ELSE part])
  <2> DEFINE g == [n \in 0 .. 1 |-> IF n = 0 THEN mem ELSE part]
             Body(n) == IF n = 0 THEN mem ELSE Step(g[n - 1], n)
  <2>1. g[0] = mem /\ g[1] = part
    OBVIOUS
  <2> HIDE DEF g
  <2>2. \A n \in 0 .. 1 : (IF n = 0 THEN mem ELSE part) = Body(n)
    <3>1. Body(0) = mem
      OBVIOUS
    <3>2. Body(1) = part
      <4>1. 1 - 1 = 0
        OBVIOUS
      <4> QED BY <1>1, <2>1, <4>1
    <3>3. \A n \in 0 .. 1 : n = 0 \/ n = 1
      OBVIOUS
    <3> QED BY <3>1, <3>2, <3>3
  <2> HIDE DEF Body
  <2>3. [n \in 0 .. 1 |-> IF n = 0 THEN mem ELSE part] = [n \in 0 .. 1 |-> Body(n)]
    BY <2>2
  <2> QED BY <1>1, <2>3 DEF g, Body
<1> HIDE DEF Folds
<1>3. Folds(Done)
  BY <1>2
<1>4. Piecewise(mem, at, V, <<w>>) = Done[Len(<<w>>)]
  BY DEF Piecewise, Folds, Step
<1> HIDE DEF Done
<1>5. Done[1] = part
  <2> DEFINE Body(n) == IF n = 0 THEN mem ELSE Step(Done[n - 1], n)
  <2>1. Done = [n \in 0 .. 1 |-> Body(n)]
    BY <1>1, <1>3 DEF Folds
  <2>2. Body(0) = mem /\ Body(1) = Step(Done[0], 1)
    <3>1. 1 - 1 = 0 /\ ~(1 = 0)
      OBVIOUS
    <3> QED BY <3>1
  <2> HIDE DEF Body
  <2>3. Done[0] = Body(0) /\ Done[1] = Body(1)
    BY <2>1
  <2> QED BY <1>1, <2>2, <2>3
<1> QED BY <1>1, <1>4, <1>5

LEMMA PartStored ==
  ASSUME NEW mem, NEW at \in Int, NEW V \in SUBSET Wide, NEW p \in 0 .. 7, NEW w \in 1 .. 8, p + w <= 8
  PROVE  /\ DOMAIN Part(mem, at, V, p, w) = DOMAIN mem
         /\ Part(mem, at, V, p, w) = [k \in DOMAIN mem |-> Part(mem, at, V, p, w)[k]]
         /\ \A k \in DOMAIN mem : k \in Int =>
              Part(mem, at, V, p, w)[k] =
                IF k \in at + p .. at + p + w - 1 THEN E!NumberOf(OfByte(V, k - at)) ELSE mem[k]
<1>1. \A k \in DOMAIN mem : k \in Int =>
        Part(mem, at, V, p, w)[k] =
          IF k \in at + p .. at + p + w - 1 THEN E!NumberOf(OfByte(V, k - at)) ELSE mem[k]
  <2> SUFFICES ASSUME NEW k \in DOMAIN mem, k \in Int
               PROVE  Part(mem, at, V, p, w)[k] =
                        IF k \in at + p .. at + p + w - 1 THEN E!NumberOf(OfByte(V, k - at)) ELSE mem[k]
    OBVIOUS
  <2> QED BY PieceStored
<1>2. DOMAIN Part(mem, at, V, p, w) = DOMAIN mem
  BY Zenon DEF Part, E!Stored
<1>3. Part(mem, at, V, p, w) = [k \in DOMAIN mem |-> Part(mem, at, V, p, w)[k]]
  BY DEF Part, E!Stored
<1> QED BY ONLY <1>1, <1>2, <1>3, Zenon

LEMMA ThreeStored ==
  ASSUME NEW mem, NEW at \in Int, NEW V
  PROVE  \E one, two :
           /\ one = Part(mem, at, V, 0, 4)
           /\ two = Part(one, at, V, 4, 2)
           /\ Piecewise(mem, at, V, <<4, 2, 1>>) = Part(two, at, V, 6, 1)
<1> DEFINE pieces == <<4, 2, 1>>
           Step(m, n) == E!Stored(m, at + PieceAt(pieces, n), E!ShiftDown(V, 8 * PieceAt(pieces, n)), pieces[n])
           one == Step(mem, 1)
           two == Step(one, 2)
           all == Step(two, 3)
           Folds(g) == g = [n \in 0 .. Len(pieces) |-> IF n = 0 THEN mem ELSE Step(g[n - 1], n)]
           Done == CHOOSE g : Folds(g)
<1>1. /\ one = E!Stored(mem, at + 0, E!ShiftDown(V, 8 * 0), 4)
      /\ two = E!Stored(one, at + 4, E!ShiftDown(V, 8 * 4), 2)
      /\ all = E!Stored(two, at + 6, E!ShiftDown(V, 8 * 6), 1)
  <2>1. pieces[1] = 4 /\ pieces[2] = 2 /\ pieces[3] = 1
    OBVIOUS
  <2>2. PieceAt(pieces, 1) = 0 /\ PieceAt(pieces, 2) = 4 /\ PieceAt(pieces, 3) = 6
    BY PiecesAre
  <2> HIDE DEF pieces
  <2> QED BY <2>1, <2>2
<1>2. Len(pieces) = 3
  OBVIOUS
<1>3. PICK a : a = one
  OBVIOUS
<1>4. PICK b : b = two
  OBVIOUS
<1>5. PICK c : c = all
  OBVIOUS
<1>6. Step(mem, 1) = a /\ Step(a, 2) = b /\ Step(b, 3) = c
  BY <1>3, <1>4, <1>5
<1> HIDE DEF Step, one, two, all
<1> DEFINE at0(n) == IF n = 0 THEN mem ELSE IF n = 1 THEN a ELSE IF n = 2 THEN b ELSE c
<1>0. /\ at0(0) = mem /\ at0(1) = a /\ at0(2) = b /\ at0(3) = c
      /\ 1 - 1 = 0 /\ 2 - 1 = 1 /\ 3 - 1 = 2 /\ \A n \in 0 .. 3 : n = 0 \/ n = 1 \/ n = 2 \/ n = 3
  OBVIOUS
<1> HIDE DEF at0
<1>7. Folds([n \in 0 .. 3 |-> at0(n)])
  <2> DEFINE g == [n \in 0 .. 3 |-> at0(n)]
             Body(n) == IF n = 0 THEN mem ELSE Step(g[n - 1], n)
  <2>1. g[0] = mem /\ g[1] = a /\ g[2] = b
    BY <1>0
  <2> HIDE DEF g
  <2>2. Body(0) = mem /\ Body(1) = a /\ Body(2) = b /\ Body(3) = c
    <3>1. ~(1 = 0) /\ ~(2 = 0) /\ ~(3 = 0)
      OBVIOUS
    <3>2. Body(1) = Step(g[0], 1) /\ Body(2) = Step(g[1], 2) /\ Body(3) = Step(g[2], 3)
      BY <1>0, <3>1
    <3> QED BY <1>6, <2>1, <3>2
  <2> HIDE DEF Body
  <2>3. \A n \in 0 .. 3 : at0(n) = Body(n)
    BY <1>0, <2>2
  <2>4. [n \in 0 .. 3 |-> at0(n)] = [n \in 0 .. 3 |-> Body(n)]
    BY <2>3
  <2> QED BY <1>2, <2>4 DEF g, Body
<1> HIDE DEF Folds
<1>8. Folds(Done)
  BY <1>7
<1>9. Piecewise(mem, at, V, pieces) = Done[Len(pieces)]
  BY DEF Piecewise, Folds, Step
<1> HIDE DEF Done
<1>10. Done[3] = c
  <2> DEFINE Body(n) == IF n = 0 THEN mem ELSE Step(Done[n - 1], n)
  <2>1. Done = [n \in 0 .. 3 |-> Body(n)]
    BY <1>2, <1>8 DEF Folds
  <2>2. Body(0) = mem /\ Body(1) = Step(Done[0], 1) /\ Body(2) = Step(Done[1], 2) /\ Body(3) = Step(Done[2], 3)
    <3>1. ~(1 = 0) /\ ~(2 = 0) /\ ~(3 = 0)
      OBVIOUS
    <3> QED BY <1>0, <3>1
  <2> HIDE DEF Body
  <2>3. Done[0] = Body(0) /\ Done[1] = Body(1) /\ Done[2] = Body(2) /\ Done[3] = Body(3)
    BY <2>1
  <2> QED BY <1>6, <2>2, <2>3
<1> QED BY <1>1, <1>2, <1>3, <1>4, <1>5, <1>9, <1>10 DEF Part

\* A value stored in the pieces of its width stands there with its highest byte first.
LEMMA BeStored ==
  ASSUME NEW mem, NEW at \in Int, NEW V \in SUBSET Wide, NEW width \in {4, 7, 8}, DOMAIN mem \subseteq Int
  PROVE  /\ DOMAIN Piecewise(mem, at, E!Rev(V, width), Pieces(width)) = DOMAIN mem
         /\ \A k \in DOMAIN mem :
              Piecewise(mem, at, E!Rev(V, width), Pieces(width))[k] =
                IF k \in at .. at + width - 1 THEN BeByte(V, width, k - at) ELSE mem[k]
         /\ \E body : Piecewise(mem, at, E!Rev(V, width), Pieces(width)) = [k \in DOMAIN mem |-> body[k]]
<1> DEFINE R == E!Rev(V, width)
           after == Piecewise(mem, at, R, Pieces(width))
<1>1. R \in SUBSET Wide
  BY RevIs
<1>2. ASSUME NEW k \in at .. at + width - 1 PROVE E!NumberOf(OfByte(R, k - at)) = BeByte(V, width, k - at)
  <2>1. k - at \in 0 .. width - 1 /\ width \in 1 .. 8
    OBVIOUS
  <2> QED BY <2>1, RevByte
<1> HIDE DEF R
<1>3. CASE width \in {4, 8}
  <2>1. PieceAt(<<width>>, 1) = 0 /\ Pieces(width) = <<width>>
    BY <1>3, PiecesAre
  <2>2. after = Part(mem, at, R, 0, width)
    BY <2>1, OnePiece DEF Part
  <2>3. 0 \in 0 .. 7 /\ width \in 1 .. 8 /\ 0 + width <= 8 /\ at \in Int
    BY <1>3
  <2>4. /\ DOMAIN after = DOMAIN mem /\ after = [k \in DOMAIN mem |-> after[k]]
        /\ \A k \in DOMAIN mem : k \in Int =>
             after[k] = IF k \in at + 0 .. at + 0 + width - 1 THEN E!NumberOf(OfByte(R, k - at)) ELSE mem[k]
    BY ONLY <1>1, <2>2, <2>3, PartStored
  <2>5. ASSUME NEW k \in DOMAIN mem
        PROVE  after[k] = IF k \in at .. at + width - 1 THEN BeByte(V, width, k - at) ELSE mem[k]
    <3>1. k \in Int /\ at + 0 = at
      BY <2>3
    <3> HIDE DEF after
    <3> QED BY <1>2, <2>4, <3>1
  <2> QED BY <2>4, <2>5 DEF R
<1>4. CASE width = 7
  <2>1. PICK one, two : /\ one = Part(mem, at, R, 0, 4) /\ two = Part(one, at, R, 4, 2)
                        /\ after = Part(two, at, R, 6, 1)
    BY <1>4, PiecesAre, ThreeStored
  <2>2. /\ 0 \in 0 .. 7 /\ 4 \in 0 .. 7 /\ 6 \in 0 .. 7 /\ 4 \in 1 .. 8 /\ 2 \in 1 .. 8 /\ 1 \in 1 .. 8
        /\ 0 + 4 <= 8 /\ 4 + 2 <= 8 /\ 6 + 1 <= 8 /\ at \in Int
    OBVIOUS
  <2>3. /\ DOMAIN one = DOMAIN mem
        /\ \A k \in DOMAIN mem : k \in Int =>
             one[k] = IF k \in at + 0 .. at + 0 + 4 - 1 THEN E!NumberOf(OfByte(R, k - at)) ELSE mem[k]
    BY ONLY <1>1, <2>1, <2>2, PartStored
  <2>4. /\ DOMAIN two = DOMAIN one
        /\ \A k \in DOMAIN one : k \in Int =>
             two[k] = IF k \in at + 4 .. at + 4 + 2 - 1 THEN E!NumberOf(OfByte(R, k - at)) ELSE one[k]
    BY ONLY <1>1, <2>1, <2>2, PartStored
  <2>5. /\ DOMAIN after = DOMAIN two /\ after = [k \in DOMAIN two |-> after[k]]
        /\ \A k \in DOMAIN two : k \in Int =>
             after[k] = IF k \in at + 6 .. at + 6 + 1 - 1 THEN E!NumberOf(OfByte(R, k - at)) ELSE two[k]
    BY ONLY <1>1, <2>1, <2>2, PartStored
  <2>6. ASSUME NEW k \in DOMAIN mem
        PROVE  after[k] = IF k \in at .. at + width - 1 THEN BeByte(V, width, k - at) ELSE mem[k]
    <3> DEFINE byte == E!NumberOf(OfByte(R, k - at))
    <3>1. k \in Int /\ at \in Int
      OBVIOUS
    <3> HIDE DEF after
    <3>2. /\ one[k] = IF k \in at + 0 .. at + 0 + 4 - 1 THEN byte ELSE mem[k]
          /\ two[k] = IF k \in at + 4 .. at + 4 + 2 - 1 THEN byte ELSE one[k]
          /\ after[k] = IF k \in at + 6 .. at + 6 + 1 - 1 THEN byte ELSE two[k]
      BY <2>3, <2>4, <2>5, <3>1
    <3> HIDE DEF byte
    <3>5. after[k] = IF k \in at .. at + 7 - 1 THEN byte ELSE mem[k]
      BY ONLY <3>1, <3>2
    <3> QED BY <1>2, <1>4, <3>5 DEF byte
  <2>7. DOMAIN after = DOMAIN mem /\ after = [k \in DOMAIN mem |-> after[k]]
    BY <2>3, <2>4, <2>5
  <2> QED BY <2>6, <2>7 DEF R
<1> QED BY <1>3, <1>4

\* One piece loaded from p bytes after the address, and put in its place.
Lifted(mem, at, p, w) == E!ShiftUp(E!Loaded(mem, at + p, w), 8 * p)

\* Bit b of the byte j of a memory from an address on.
Shows(mem, at, j, b) == b \in E!BitsOf(mem[at + j])

LEMMA LiftedIs ==
  ASSUME NEW mem, NEW at \in Int, NEW p \in 0 .. 7, NEW w \in 1 .. 8, p + w <= 8,
         \A k \in at .. at + 7 : k <= at + p + w - 1 => mem[k] \in 0 .. 255
  PROVE  /\ Lifted(mem, at, p, w) \in SUBSET Wide
         /\ \A j \in 0 .. 7, b \in 0 .. 7 :
              Has(Lifted(mem, at, p, w), j, b) <=> p <= j /\ j < p + w /\ Shows(mem, at, j, b)
<1> DEFINE L == E!Loaded(mem, at + p, w)
<1>1. \A k \in 0 .. w - 1 : mem[at + p + k] \in 0 .. 255
  <2> SUFFICES ASSUME NEW k \in 0 .. w - 1 PROVE mem[at + p + k] \in 0 .. 255
    OBVIOUS
  <2>1. at + p + k \in at .. at + 7 /\ at + p + k <= at + p + w - 1
    OBVIOUS
  <2> QED BY <2>1
<1>2. /\ L \in SUBSET Wide
      /\ \A j \in 0 .. 7, b \in 0 .. 7 : Has(L, j, b) <=> j < w /\ b \in E!BitsOf(mem[at + p + j])
  <2>1. at + p \in Int /\ w \in 0 .. 8
    OBVIOUS
  <2> QED BY <1>1, <2>1, LoadedIs
<1> HIDE DEF L
<1>3. 0 .. 64 - 1 = Wide
  BY DEF Wide
<1>4. E!ShiftUp(L, 8 * p) \in SUBSET Wide
  BY <1>3 DEF E!ShiftUp, E!Positions
<1>5. ASSUME NEW j \in 0 .. 7, NEW b \in 0 .. 7
      PROVE  8 * j + b \in E!ShiftUp(L, 8 * p) <=> 8 * j + b - 8 * p \in L
  <2>1. 8 * j + b \in Wide
    BY DEF Wide
  <2>2. \A i \in L : 8 * j + b = i + 8 * p <=> i = 8 * j + b - 8 * p
    BY <1>2 DEF Wide
  <2> QED BY <1>3, <2>1, <2>2 DEF E!ShiftUp, E!Positions
<1>6. ASSUME NEW j \in 0 .. 7, NEW b \in 0 .. 7
      PROVE  Has(E!ShiftUp(L, 8 * p), j, b) <=> p <= j /\ j < p + w /\ Shows(mem, at, j, b)
  <2>1. CASE p <= j
    <3>1. PICK i \in 0 .. 7 : i = j - p /\ p + i = j
      BY <2>1
    <3>2. 8 * j + b - 8 * p = 8 * i + b /\ at + p + i = at + j /\ (i < w <=> j < p + w)
      BY <3>1
    <3>3. Has(L, i, b) <=> i < w /\ b \in E!BitsOf(mem[at + p + i])
      BY <1>2
    <3> QED BY <1>5, <2>1, <3>2, <3>3 DEF Has, Shows
  <2>2. CASE ~(p <= j)
    <3>1. 8 * j + b - 8 * p \notin Wide
      BY <2>2 DEF Wide
    <3> QED BY <1>2, <1>5, <2>2, <3>1 DEF Has
  <2> QED BY <2>1, <2>2
<1> QED BY <1>4, <1>6 DEF L, Lifted

\* What the pieces of a width gather is the bytes of the width, the first the lowest.
LEMMA GatheredIs ==
  ASSUME NEW mem, NEW at \in Int, NEW width \in {4, 7, 8},
         \A k \in at .. at + width - 1 : mem[k] \in 0 .. 255
  PROVE  /\ Gathered(mem, at, Pieces(width)) \in SUBSET Wide
         /\ \A j \in 0 .. 7, b \in 0 .. 7 :
              Has(Gathered(mem, at, Pieces(width)), j, b) <=> j < width /\ Shows(mem, at, j, b)
<1> DEFINE G == Gathered(mem, at, Pieces(width))
<1>1. CASE width \in {4, 8}
  <2>1. PieceAt(<<width>>, 1) = 0 /\ Pieces(width) = <<width>>
    BY <1>1, PiecesAre
  <2>2. G = Lifted(mem, at, 0, width)
    <3>1. Len(<<width>>) = 1 /\ <<width>>[1] = width /\ 1 .. 1 = {1}
      OBVIOUS
    <3>2. G = UNION {E!ShiftUp(E!Loaded(mem, at + PieceAt(<<width>>, n), <<width>>[n]), 8 * PieceAt(<<width>>, n)) : n \in {1}}
      BY <2>1, <3>1 DEF Gathered
    <3>3. G = E!ShiftUp(E!Loaded(mem, at + PieceAt(<<width>>, 1), <<width>>[1]), 8 * PieceAt(<<width>>, 1))
      BY ONLY <3>2
    <3> QED BY <2>1, <3>1, <3>3 DEF Lifted
  <2> HIDE DEF G
  <2>3. 0 \in 0 .. 7 /\ width \in 1 .. 8 /\ 0 + width <= 8 /\ at \in Int
    BY <1>1
  <2>4. \A k \in at .. at + 7 : k <= at + 0 + width - 1 => mem[k] \in 0 .. 255
    BY <1>1
  <2>5. /\ Lifted(mem, at, 0, width) \in SUBSET Wide
        /\ \A j \in 0 .. 7, b \in 0 .. 7 :
             Has(Lifted(mem, at, 0, width), j, b) <=> 0 <= j /\ j < 0 + width /\ Shows(mem, at, j, b)
    BY ONLY <2>3, <2>4, LiftedIs
  <2> QED BY <2>2, <2>3, <2>5 DEF G
<1>2. CASE width = 7
  <2> DEFINE P == <<4, 2, 1>>
  <2>1. PieceAt(P, 1) = 0 /\ PieceAt(P, 2) = 4 /\ PieceAt(P, 3) = 6 /\ Pieces(width) = P
    BY <1>2, PiecesAre
  <2>2. G = Lifted(mem, at, 0, 4) \cup Lifted(mem, at, 4, 2) \cup Lifted(mem, at, 6, 1)
    <3>1. Len(P) = 3 /\ P[1] = 4 /\ P[2] = 2 /\ P[3] = 1 /\ 1 .. 3 = {1, 2, 3}
      OBVIOUS
    <3> DEFINE Up(n) == E!ShiftUp(E!Loaded(mem, at + PieceAt(P, n), P[n]), 8 * PieceAt(P, n))
    <3> HIDE DEF P
    <3>2. G = UNION {Up(n) : n \in {1, 2, 3}}
      BY <2>1, <3>1 DEF Gathered
    <3>3. Up(1) = Lifted(mem, at, 0, 4) /\ Up(2) = Lifted(mem, at, 4, 2) /\ Up(3) = Lifted(mem, at, 6, 1)
      BY <2>1, <3>1 DEF Lifted
    <3> HIDE DEF Up, G
    <3> QED BY ONLY <3>2, <3>3
  <2> HIDE DEF G
  <2>3. 0 \in 0 .. 7 /\ 4 \in 0 .. 7 /\ 6 \in 0 .. 7 /\ 4 \in 1 .. 8 /\ 2 \in 1 .. 8 /\ 1 \in 1 .. 8
        /\ 0 + 4 <= 8 /\ 4 + 2 <= 8 /\ 6 + 1 <= 8 /\ at \in Int
    OBVIOUS
  <2>4. /\ \A k \in at .. at + 7 : k <= at + 0 + 4 - 1 => mem[k] \in 0 .. 255
        /\ \A k \in at .. at + 7 : k <= at + 4 + 2 - 1 => mem[k] \in 0 .. 255
        /\ \A k \in at .. at + 7 : k <= at + 6 + 1 - 1 => mem[k] \in 0 .. 255
    BY <1>2
  <2>5. /\ Lifted(mem, at, 0, 4) \in SUBSET Wide
        /\ \A j \in 0 .. 7, b \in 0 .. 7 :
             Has(Lifted(mem, at, 0, 4), j, b) <=> 0 <= j /\ j < 0 + 4 /\ Shows(mem, at, j, b)
    BY ONLY <2>3, <2>4, LiftedIs
  <2>6. /\ Lifted(mem, at, 4, 2) \in SUBSET Wide
        /\ \A j \in 0 .. 7, b \in 0 .. 7 :
             Has(Lifted(mem, at, 4, 2), j, b) <=> 4 <= j /\ j < 4 + 2 /\ Shows(mem, at, j, b)
    BY ONLY <2>3, <2>4, LiftedIs
  <2>7. /\ Lifted(mem, at, 6, 1) \in SUBSET Wide
        /\ \A j \in 0 .. 7, b \in 0 .. 7 :
             Has(Lifted(mem, at, 6, 1), j, b) <=> 6 <= j /\ j < 6 + 1 /\ Shows(mem, at, j, b)
    BY ONLY <2>3, <2>4, LiftedIs
  <2>8. \A j \in 0 .. 7, b \in 0 .. 7 :
          Has(G, j, b) <=> \/ Has(Lifted(mem, at, 0, 4), j, b) \/ Has(Lifted(mem, at, 4, 2), j, b)
                           \/ Has(Lifted(mem, at, 6, 1), j, b)
    BY <2>2 DEF Has
  <2>9. G \in SUBSET Wide
    BY <2>2, <2>5, <2>6, <2>7
  <2>10. \A j \in 0 .. 7 : j < 7 =>
           (0 <= j /\ j < 0 + 4) \/ (4 <= j /\ j < 4 + 2) \/ (6 <= j /\ j < 6 + 1)
    OBVIOUS
  <2>11. \A j \in 0 .. 7 : 
           (0 <= j /\ j < 0 + 4) \/ (4 <= j /\ j < 4 + 2) \/ (6 <= j /\ j < 6 + 1) => j < 7
    OBVIOUS
  <2> QED BY <1>2, <2>5, <2>6, <2>7, <2>8, <2>9, <2>10, <2>11 DEF G
<1> QED BY <1>1, <1>2

LEMMA BeByteIs ==
  ASSUME NEW V, NEW width, NEW j
  PROVE  BeByte(V, width, j) \in 0 .. 255 /\ E!BitsOf(BeByte(V, width, j)) = OfByte(V, width - 1 - j)
<1>1. OfByte(V, width - 1 - j) \in SUBSET (0 .. 7)
  BY DEF OfByte
<1> QED BY <1>1, ByteRound DEF BeByte

\* A value that stands in its width, the highest byte first, is what is taken from there.
LEMMA TakenIs ==
  ASSUME NEW mem, NEW at \in Int, NEW V \in SUBSET Wide, NEW width \in {4, 7, 8},
         \A k \in at .. at + width - 1 : mem[k] = BeByte(V, width, k - at)
  PROVE  E!Rev(Gathered(mem, at, Pieces(width)), width) = Kept(V, width)
<1> DEFINE G == Gathered(mem, at, Pieces(width))
<1>1. \A k \in at .. at + width - 1 : mem[k] \in 0 .. 255
  BY BeByteIs
<1>2. /\ G \in SUBSET Wide
      /\ \A j \in 0 .. 7, b \in 0 .. 7 : Has(G, j, b) <=> j < width /\ Shows(mem, at, j, b)
  BY <1>1, GatheredIs
<1> HIDE DEF G
<1>3. width \in 1 .. 8 /\ width \in 0 .. 8
  OBVIOUS
<1>4. ASSUME NEW j \in 0 .. 7, j < width, NEW b \in 0 .. 7 PROVE Shows(mem, at, j, b) <=> Has(V, width - 1 - j, b)
  <2>1. PICK k \in at .. at + width - 1 : k = at + j /\ k - at = j
    <3>1. at + j \in at .. at + width - 1 /\ (at + j) - at = j
      BY <1>4
    <3> QED BY <3>1
  <2>2. mem[k] = BeByte(V, width, j)
    BY <2>1
  <2>3. E!BitsOf(mem[k]) = OfByte(V, width - 1 - j)
    BY <2>2, BeByteIs
  <2>4. Shows(mem, at, j, b) <=> b \in E!BitsOf(mem[k])
    BY <2>1 DEF Shows
  <2> QED BY <2>3, <2>4 DEF OfByte
<1>5. /\ E!Rev(G, width) \in SUBSET Wide
      /\ \A j \in 0 .. 7, b \in 0 .. 7 : Has(E!Rev(G, width), j, b) <=> j < width /\ Has(G, width - 1 - j, b)
  BY ONLY <1>2, <1>3, RevIs
<1>6. /\ Kept(V, width) \in SUBSET Wide
      /\ \A j \in 0 .. 7, b \in 0 .. 7 : Has(Kept(V, width), j, b) <=> j < width /\ Has(V, j, b)
  BY <1>3, KeptIs
<1>7. ASSUME NEW j \in 0 .. 7, NEW b \in 0 .. 7 PROVE Has(E!Rev(G, width), j, b) <=> Has(Kept(V, width), j, b)
  <2>1. CASE j < width
    <3>1. PICK i \in 0 .. 7 : i = width - 1 - j /\ i < width /\ width - 1 - i = j
      <4>1. width - 1 - j \in 0 .. 7 /\ width - 1 - j < width /\ width - 1 - (width - 1 - j) = j
        BY <2>1
      <4> QED BY <4>1
    <3>2. Has(G, i, b) <=> Shows(mem, at, i, b)
      BY <1>2, <3>1
    <3>3. Shows(mem, at, i, b) <=> Has(V, j, b)
      BY <1>4, <3>1
    <3> QED BY <1>5, <1>6, <2>1, <3>1, <3>2, <3>3
  <2>2. CASE ~(j < width)
    BY <1>5, <1>6, <2>2
  <2> QED BY <2>1, <2>2
<1> QED BY <1>5, <1>6, <1>7, SameBytes DEF G
-----------------------------------------------------------------------------
(* spatium and octetus_introitus_exitus: a span that mirrors its appends.  *)

\* The bits of the values appended.
ValueBits == {0, 1, 9, 16}

Asked == [kind : {"raw"}, src : Seq(0 .. 255)] \cup [kind : {"be"}, width : {4, 7, 8}, value : SUBSET ValueBits]

\* Byte j of an append.
ByteIs(item, j) == IF item.kind = "be" THEN BeByte(item.value, item.width, j) ELSE item.src[j + 1]

Laid(mem, at, item) == \A k \in at .. at + Bytes(item) - 1 : mem[k] = ByteIs(item, k - at)

LEMMA ElementOf == ASSUME NEW S, NEW s \in Seq(S), NEW i \in 1 .. Len(s) PROVE s[i] \in S
OBVIOUS

LEMMA AskedIs ==
  ASSUME NEW item \in Asked
  PROVE  /\ Bytes(item) \in Nat /\ item.kind # "mpint"
         /\ item.kind = "be" => /\ item.width \in {4, 7, 8} /\ item.value \in SUBSET ValueBits
                                /\ item.value \in SUBSET Wide /\ Bytes(item) = item.width
         /\ item.kind # "be" => item.src \in Seq(0 .. 255) /\ Bytes(item) = Len(item.src)
         /\ \A j \in 0 .. Bytes(item) - 1 : ByteIs(item, j) \in 0 .. 255
<1>1. CASE item \in [kind : {"raw"}, src : Seq(0 .. 255)]
  <2>1. item.kind = "raw" /\ item.src \in Seq(0 .. 255)
    BY <1>1
  <2>2. Bytes(item) = Len(item.src) /\ Len(item.src) \in Nat
    BY <2>1 DEF Bytes
  <2>3. ASSUME NEW j \in 0 .. Bytes(item) - 1 PROVE ByteIs(item, j) \in 0 .. 255
    <3> DEFINE src == item.src
    <3>1. PICK i \in 1 .. Len(src) : i = j + 1
      BY <2>1, <2>2
    <3>2. src \in Seq(0 .. 255) /\ i \in 1 .. Len(src)
      BY <2>1
    <3> HIDE DEF src
    <3>3. src[i] \in 0 .. 255
      BY ONLY <3>2, ElementOf
    <3> QED BY <2>1, <3>1, <3>3 DEF ByteIs, src
  <2> QED BY <2>1, <2>2, <2>3
<1>2. CASE item \in [kind : {"be"}, width : {4, 7, 8}, value : SUBSET ValueBits]
  <2>1. item.kind = "be" /\ item.width \in {4, 7, 8} /\ item.value \in SUBSET ValueBits
    BY <1>2
  <2>2. ValueBits \subseteq Wide
    BY DEF ValueBits, Wide
  <2>3. Bytes(item) = item.width
    BY <2>1 DEF Bytes
  <2>4. \A j \in 0 .. Bytes(item) - 1 : ByteIs(item, j) \in 0 .. 255
    BY <2>1, BeByteIs DEF ByteIs
  <2> QED BY <2>1, <2>2, <2>3, <2>4
<1> QED BY <1>1, <1>2 DEF Asked

\* An append to s is t: the cursor goes on, and the bytes are laid where they fit.
Appends(s, t, item) ==
  /\ t.span = Claimed(s.span, Bytes(item))
  /\ ~Claims(s.span, Bytes(item)) => t.mem = s.mem
  /\ Claims(s.span, Bytes(item)) =>
       /\ DOMAIN t.mem = DOMAIN s.mem /\ t.mem = [k \in DOMAIN s.mem |-> t.mem[k]]
       /\ \A k \in DOMAIN s.mem :
            t.mem[k] = IF k \in s.span.buf + s.span.pos .. s.span.buf + s.span.pos + Bytes(item) - 1
                       THEN ByteIs(item, k - (s.span.buf + s.span.pos)) ELSE s.mem[k]

\* A span over a memory of bytes.
Spans == [span : [buf : {Buf}, cap : Nat, pos : Nat, overflow : BOOLEAN], mem : UNION {[D -> 0 .. 255] : D \in SUBSET Int}]

LEMMA SpansAre ==
  ASSUME NEW s \in Spans
  PROVE  /\ s.span.buf = 2 /\ s.span.cap \in Nat /\ s.span.pos \in Nat /\ s.span.overflow \in BOOLEAN
         /\ DOMAIN s.mem \in SUBSET Int /\ s.mem \in [DOMAIN s.mem -> 0 .. 255]
BY DEF Spans, Buf

LEMMA PutAppends ==
  ASSUME NEW s \in Spans, NEW byte \in 0 .. 255
  PROVE  Appends(s, Put(s, byte), [kind |-> "raw", src |-> <<byte>>])
<1> DEFINE item == [kind |-> "raw", src |-> <<byte>>]
           at == s.span.buf + s.span.pos
           t == Put(s, byte)
<1>1. Bytes(item) = 1 /\ item.kind = "raw" /\ item.src = <<byte>> /\ item.src[1] = byte
  BY DEF Bytes
<1>2. /\ t.span = Claimed(s.span, 1)
      /\ t.mem = IF Claims(s.span, 1) THEN [s.mem EXCEPT ![at] = byte] ELSE s.mem
  BY DEF Put, Append1
<1>3. at \in Int /\ DOMAIN s.mem \in SUBSET Int /\ s.mem \in [DOMAIN s.mem -> 0 .. 255]
  BY SpansAre
<1>4. ASSUME Claims(s.span, 1), NEW k \in DOMAIN s.mem
      PROVE  t.mem[k] = IF k \in at .. at + 1 - 1 THEN ByteIs(item, k - at) ELSE s.mem[k]
  <2>1. k \in Int /\ (k \in at .. at + 1 - 1 <=> k = at)
    BY <1>3
  <2>2. t.mem[k] = IF k = at THEN byte ELSE s.mem[k]
    BY <1>2, <1>3, <1>4
  <2>3. k = at => ByteIs(item, k - at) = byte
    <3>1. k = at => k - at = 0 /\ 0 + 1 = 1
      BY <1>3
    <3>2. ByteIs(item, 0) = byte
      BY <1>1 DEF ByteIs
    <3> QED BY ONLY <3>1, <3>2
  <2> QED BY ONLY <2>1, <2>2, <2>3
<1>5. Claims(s.span, 1) => DOMAIN t.mem = DOMAIN s.mem /\ t.mem = [k \in DOMAIN s.mem |-> t.mem[k]]
  BY <1>2
<1> HIDE DEF t, item
<1> QED BY <1>1, <1>2, <1>4, <1>5, Zenon DEF Appends, t, item

LEMMA RawAppends ==
  ASSUME NEW s \in Spans, NEW src \in Seq(0 .. 255)
  PROVE  Appends(s, Raw(s, src), [kind |-> "raw", src |-> src])
<1> DEFINE item == [kind |-> "raw", src |-> src]
           at == s.span.buf + s.span.pos
           n == Len(src)
           t == Raw(s, src)
<1>1. Bytes(item) = n /\ item.kind = "raw" /\ item.src = src
  BY DEF Bytes
<1>2. /\ t.span = Claimed(s.span, n)
      /\ t.mem = IF Claims(s.span, n)
                 THEN [k \in DOMAIN s.mem |-> IF k \in at .. at + n - 1 THEN src[k - at + 1] ELSE s.mem[k]]
                 ELSE s.mem
  BY DEF Raw, Append1
<1>3. \A j : ByteIs(item, j) = src[j + 1]
  BY <1>1 DEF ByteIs
<1> HIDE DEF t, item, at, n
<1>4. Claims(s.span, n) =>
        /\ DOMAIN t.mem = DOMAIN s.mem /\ t.mem = [k \in DOMAIN s.mem |-> t.mem[k]]
        /\ \A k \in DOMAIN s.mem : t.mem[k] = IF k \in at .. at + n - 1 THEN ByteIs(item, k - at) ELSE s.mem[k]
  BY <1>2, <1>3
<1> QED BY <1>1, <1>2, <1>4, Zenon DEF Appends, t, item, at, n

LEMMA WideAppends ==
  ASSUME NEW s \in Spans, NEW V \in SUBSET Wide, NEW width \in {4, 7, 8}
  PROVE  Appends(s, PutBe(s, V, width), [kind |-> "be", width |-> width, value |-> V])
<1> DEFINE item == [kind |-> "be", width |-> width, value |-> V]
           at == s.span.buf + s.span.pos
           t == PutBe(s, V, width)
           after == Piecewise(s.mem, at, E!Rev(V, width), Pieces(width))
<1>1. Bytes(item) = width /\ item.kind = "be" /\ item.width = width /\ item.value = V
  BY DEF Bytes
<1>2. /\ t.span = Claimed(s.span, width)
      /\ t.mem = IF Claims(s.span, width) THEN after ELSE s.mem
  BY DEF PutBe, Append1
<1>3. \A j : ByteIs(item, j) = BeByte(V, width, j)
  BY <1>1 DEF ByteIs
<1>4. at \in Int /\ DOMAIN s.mem \subseteq Int
  BY SpansAre
<1> HIDE DEF t, item, at
<1>5. /\ DOMAIN after = DOMAIN s.mem
      /\ \A k \in DOMAIN s.mem :
           after[k] = IF k \in at .. at + width - 1 THEN BeByte(V, width, k - at) ELSE s.mem[k]
      /\ after = [k \in DOMAIN s.mem |-> after[k]]
  BY <1>4, BeStored
<1> HIDE DEF after
<1>6. Claims(s.span, width) =>
        /\ DOMAIN t.mem = DOMAIN s.mem /\ t.mem = [k \in DOMAIN s.mem |-> t.mem[k]]
        /\ \A k \in DOMAIN s.mem : t.mem[k] = IF k \in at .. at + width - 1 THEN ByteIs(item, k - at) ELSE s.mem[k]
  BY <1>2, <1>3, <1>5
<1> QED BY <1>1, <1>2, <1>6, Zenon DEF Appends, t, item, at

\* The number a length of those bits reads as.
OneIn(S, i) == IF i \in S THEN 1 ELSE 0

Worths(S) == OneIn(S, 0) + 2 * OneIn(S, 1) + 512 * OneIn(S, 9) + 65536 * OneIn(S, 16)

LEMMA WorthStep ==
  ASSUME NEW S \in SUBSET ValueBits, NEW i \in S
  PROVE  Worths(S) = 2^i + Worths(S \ {i}) /\ Worths(S) \in Nat
<1>1. 2^0 = 1 /\ 2^1 = 2 /\ 2^9 = 512 /\ 2^16 = 65536
  OBVIOUS
<1>2. i = 0 \/ i = 1 \/ i = 9 \/ i = 16
  BY DEF ValueBits
<1>3. \A j \in ValueBits : /\ OneIn(S, j) \in 0 .. 1
                           /\ OneIn(S \ {i}, j) = IF j = i THEN 0 ELSE OneIn(S, j)
  BY DEF OneIn
<1>4. OneIn(S, i) = 1
  BY DEF OneIn
<1>5. 0 \in ValueBits /\ 1 \in ValueBits /\ 9 \in ValueBits /\ 16 \in ValueBits
  BY DEF ValueBits
<1>6. /\ OneIn(S, 0) \in 0 .. 1 /\ OneIn(S, 1) \in 0 .. 1
      /\ OneIn(S, 9) \in 0 .. 1 /\ OneIn(S, 16) \in 0 .. 1
  BY <1>3, <1>5
<1>7. Worths(S) \in Nat
  BY <1>6 DEF Worths
<1>8. CASE i = 0
  <2>1. /\ OneIn(S \ {i}, 0) = 0 /\ OneIn(S \ {i}, 1) = OneIn(S, 1)
        /\ OneIn(S \ {i}, 9) = OneIn(S, 9) /\ OneIn(S \ {i}, 16) = OneIn(S, 16)
    BY <1>3, <1>5, <1>8
  <2> QED BY <1>1, <1>4, <1>6, <1>7, <1>8, <2>1 DEF Worths
<1>9. CASE i = 1
  <2>1. /\ OneIn(S \ {i}, 0) = OneIn(S, 0) /\ OneIn(S \ {i}, 1) = 0
        /\ OneIn(S \ {i}, 9) = OneIn(S, 9) /\ OneIn(S \ {i}, 16) = OneIn(S, 16)
    BY <1>3, <1>5, <1>9
  <2> QED BY <1>1, <1>4, <1>6, <1>7, <1>9, <2>1 DEF Worths
<1>10. CASE i = 9
  <2>1. /\ OneIn(S \ {i}, 0) = OneIn(S, 0) /\ OneIn(S \ {i}, 1) = OneIn(S, 1)
        /\ OneIn(S \ {i}, 9) = 0 /\ OneIn(S \ {i}, 16) = OneIn(S, 16)
    BY <1>3, <1>5, <1>10
  <2> QED BY <1>1, <1>4, <1>6, <1>7, <1>10, <2>1 DEF Worths
<1>11. CASE i = 16
  <2>1. /\ OneIn(S \ {i}, 0) = OneIn(S, 0) /\ OneIn(S \ {i}, 1) = OneIn(S, 1)
        /\ OneIn(S \ {i}, 9) = OneIn(S, 9) /\ OneIn(S \ {i}, 16) = 0
    BY <1>3, <1>5, <1>11
  <2> QED BY <1>1, <1>4, <1>6, <1>7, <1>11, <2>1 DEF Worths
<1> QED BY <1>2, <1>7, <1>8, <1>9, <1>10, <1>11

LEMMA LengthIs ==
  ASSUME NEW C \in SUBSET ValueBits
  PROVE  E!NumberOf(C) \in Nat /\ C \subseteq 0 .. 29
<1> DEFINE Pick(A) == CHOOSE x \in A : TRUE
           Folds(g) == g = [A \in SUBSET C |-> IF A = {} THEN 0 ELSE 2^Pick(A) + g[A \ {Pick(A)}]]
           iter == CHOOSE g : Folds(g)
<1>1. Worths({}) = 0
  BY DEF Worths, OneIn
<1>2. \A A \in SUBSET C : A # {} => /\ Pick(A) \in A /\ A \ {Pick(A)} \in SUBSET C
                                    /\ Worths(A) = 2^Pick(A) + Worths(A \ {Pick(A)})
  <2> SUFFICES ASSUME NEW A \in SUBSET C, A # {}
               PROVE  /\ Pick(A) \in A /\ A \ {Pick(A)} \in SUBSET C
                      /\ Worths(A) = 2^Pick(A) + Worths(A \ {Pick(A)})
    OBVIOUS
  <2>1. Pick(A) \in A /\ A \in SUBSET ValueBits
    OBVIOUS
  <2> HIDE DEF Pick
  <2> QED BY <2>1, WorthStep
<1> HIDE DEF Pick
<1>3. Folds([A \in SUBSET C |-> Worths(A)])
  <2> DEFINE g == [A \in SUBSET C |-> Worths(A)]
             Body(A) == IF A = {} THEN 0 ELSE 2^Pick(A) + g[A \ {Pick(A)}]
  <2>1. \A A \in SUBSET C : g[A] = Worths(A)
    OBVIOUS
  <2> HIDE DEF g
  <2>2. \A A \in SUBSET C : Worths(A) = Body(A)
    BY <1>1, <1>2, <2>1
  <2> HIDE DEF Body
  <2>3. [A \in SUBSET C |-> Worths(A)] = [A \in SUBSET C |-> Body(A)]
    BY <2>2
  <2> QED BY <2>3 DEF g, Body
<1> HIDE DEF Folds
<1>4. Folds(iter)
  BY <1>3
<1> HIDE DEF iter
<1>5. \A A \in SUBSET C : iter[A] = IF A = {} THEN 0 ELSE 2^Pick(A) + iter[A \ {Pick(A)}]
  BY <1>4 DEF Folds
<1>6. iter[C] = Worths(C)
  <2> DEFINE Wrong == {A \in SUBSET C : iter[A] # Worths(A)}
  <2> SUFFICES ASSUME Wrong # {} PROVE FALSE
    OBVIOUS
  <2>1. LittleV!IsFiniteSet(C)
    <3>1. PICK lo \in Int, hi \in Int : lo = 0 /\ hi = 63
      OBVIOUS
    <3>2. LittleV!IsFiniteSet(0 .. 63)
      BY <3>1, LittleV!FS_Interval
    <3>3. C \subseteq 0 .. 63
      BY DEF ValueBits
    <3> QED BY <3>2, <3>3, LittleV!FS_Subset
  <2>2. PICK A \in Wrong : \A x \in A : A \ {x} \notin Wrong
    BY <2>1, LittleV!SmallestSet
  <2>3. A \in SUBSET C /\ iter[A] # Worths(A)
    OBVIOUS
  <2>4. CASE A = {}
    BY <1>1, <1>5, <2>3, <2>4
  <2>5. CASE A # {}
    <3>1. Pick(A) \in A /\ A \ {Pick(A)} \in SUBSET C /\ Worths(A) = 2^Pick(A) + Worths(A \ {Pick(A)})
      BY <1>2, <2>3, <2>5
    <3>2. iter[A \ {Pick(A)}] = Worths(A \ {Pick(A)})
      BY <2>2, <3>1
    <3>3. iter[A] = 2^Pick(A) + iter[A \ {Pick(A)}]
      BY <1>5, <2>3, <2>5
    <3> HIDE DEF Wrong
    <3> QED BY <2>3, <3>1, <3>2, <3>3
  <2> QED BY <2>4, <2>5
<1>7. E!NumberOf(C) = iter[C]
  BY DEF E!NumberOf, E!MapThenSumSet, E!MapThenFoldSet, iter, Folds, Pick
<1>8. Worths(C) \in Nat
  <2>1. CASE C = {}
    BY <1>1, <2>1
  <2>2. CASE C # {}
    BY <2>2, WorthStep
  <2> QED BY <2>1, <2>2
<1> QED BY <1>6, <1>7, <1>8 DEF ValueBits

\* Where each of the appends w begins and ends.
Starts(f, w) ==
  /\ f \in [0 .. Len(w) -> Nat] /\ f[0] = 0
  /\ \A n \in 1 .. Len(w) : f[n] = f[n - 1] + Bytes(w[n])
  /\ \A n \in 0 .. Len(w) : f[n] <= f[Len(w)]

AllLaid(s, w, f) == \A n \in 1 .. Len(w) : Laid(s.mem, Buf + f[n - 1], w[n])

\* A span that holds the appends w: the cursor counts them all, and where they fit they are laid.
Holds(s, w, f) ==
  /\ s.span.pos = f[Len(w)]
  /\ s.span.overflow <=> s.span.pos > s.span.cap
  /\ ~s.span.overflow => AllLaid(s, w, f)

\* A span is laid over the bytes after the first two, and no byte outside it is touched.
Shaped(s) ==
  /\ s \in Spans /\ DOMAIN s.mem = 0 .. Buf + s.span.cap + 2
  /\ \A k \in DOMAIN s.mem : k \notin Buf .. Buf + s.span.cap - 1 => s.mem[k] = 255

Appended(s, w) == w \in Seq(Asked) /\ \E f : Starts(f, w) /\ Holds(s, w, f)

\* The cursor counts what was asked, and an overflow says it is past the end.
Counted(sp) == sp.overflow <=> sp.pos > sp.cap

\* A claim of so many bytes moves a cursor from sp to tp.
Advances(sp, tp, bytes) ==
  /\ Claims(sp, bytes) <=> sp.pos + bytes <= sp.cap
  /\ tp.buf = Buf /\ tp.cap = sp.cap /\ tp.pos = sp.pos + bytes
  /\ tp.overflow <=> sp.pos + bytes > sp.cap
  /\ tp \in [buf : {Buf}, cap : Nat, pos : Nat, overflow : BOOLEAN]

LEMMA CursorPut ==
  ASSUME NEW buf, NEW cap, NEW pos, NEW over \in BOOLEAN, NEW pos1, NEW over1 \in BOOLEAN
  PROVE  [[buf |-> buf, cap |-> cap, pos |-> pos, overflow |-> over] EXCEPT !.pos = pos1, !.overflow = over1]
           = [buf |-> buf, cap |-> cap, pos |-> pos1, overflow |-> over1]
<1> DEFINE r == [buf |-> buf, cap |-> cap, pos |-> pos, overflow |-> over]
           q == [r EXCEPT !.pos = pos1]
           t == [buf |-> buf, cap |-> cap, pos |-> pos1, overflow |-> over1]
           u == [q EXCEPT !.overflow = over1]
<1>1. q = [buf |-> buf, cap |-> cap, pos |-> pos1, overflow |-> over]
  OBVIOUS
<1>2. u = t
  <2>1. PICK x : x = q
    OBVIOUS
  <2>2. x = [buf |-> buf, cap |-> cap, pos |-> pos1, overflow |-> over] /\ u = [x EXCEPT !.overflow = over1]
    BY <1>1, <2>1
  <2> HIDE DEF q, u
  <2>3. u = [[buf |-> buf, cap |-> cap, pos |-> pos1, overflow |-> over] EXCEPT !.overflow = over1]
    BY ONLY <2>2
  <2> QED BY ONLY <2>3, over \in BOOLEAN, over1 \in BOOLEAN
<1>3. [r EXCEPT !.pos = pos1, !.overflow = over1] = u
  BY Zenon
<1> QED BY <1>2, <1>3

LEMMA FitsClaims ==
  ASSUME NEW s \in Spans, NEW bytes \in Nat, Counted(s.span)
  PROVE  Advances(s.span, Claimed(s.span, bytes), bytes)
<1> DEFINE sp == s.span
<1>1. /\ sp.buf = 2 /\ sp.cap \in Nat /\ sp.pos \in Nat /\ sp.overflow \in BOOLEAN
      /\ sp \in [buf : {Buf}, cap : Nat, pos : Nat, overflow : BOOLEAN]
  BY SpansAre DEF Spans
<1>2. sp.overflow <=> sp.pos > sp.cap
  BY DEF Counted
<1> HIDE DEF sp
<1>3. Claims(sp, bytes) <=> sp.pos + bytes <= sp.cap
  BY <1>1, <1>2 DEF Claims, Null
<1>4. /\ Claimed(sp, bytes).buf = Buf /\ Claimed(sp, bytes).cap = sp.cap
      /\ Claimed(sp, bytes).pos = sp.pos + bytes
      /\ Claimed(sp, bytes).overflow = (sp.overflow \/ ~Claims(sp, bytes))
      /\ Claimed(sp, bytes) \in [buf : {Buf}, cap : Nat, pos : Nat, overflow : BOOLEAN]
  <2>1. Claims(sp, bytes) \in BOOLEAN
    BY DEF Claims
  <2>2. (sp.overflow \/ ~Claims(sp, bytes)) \in BOOLEAN
    OBVIOUS
  <2>3. PICK over \in BOOLEAN : over = (sp.overflow \/ ~Claims(sp, bytes))
    BY <2>2
  <2>4. Claimed(sp, bytes) = [sp EXCEPT !.pos = sp.pos + bytes, !.overflow = over]
    BY <2>3, Zenon DEF Claimed
  <2>5. sp = [buf |-> Buf, cap |-> sp.cap, pos |-> sp.pos, overflow |-> sp.overflow]
    BY <1>1
  <2>6. Claimed(sp, bytes) = [buf |-> Buf, cap |-> sp.cap, pos |-> sp.pos + bytes, overflow |-> over]
    <3>1. PICK cap \in Nat, pos \in Nat, was \in BOOLEAN :
            sp = [buf |-> Buf, cap |-> cap, pos |-> pos, overflow |-> was]
      BY <1>1, <2>5
    <3>2. sp.cap = cap /\ sp.pos = pos
      BY <3>1
    <3> QED BY <2>4, <3>1, <3>2, CursorPut
  <2>7. sp.pos + bytes \in Nat
    BY <1>1
  <2> QED BY <1>1, <2>3, <2>6, <2>7
<1>5. sp.overflow \/ ~Claims(sp, bytes) <=> sp.pos + bytes > sp.cap
  BY <1>1, <1>2, <1>3
<1> QED BY <1>3, <1>4, <1>5 DEF sp, Advances

\* The starts of the appends and one more.
Grown(f, g, w, item) ==
  /\ Starts(g, Append(w, item))
  /\ g[Len(w) + 1] = f[Len(w)] + Bytes(item)
  /\ \A n \in 0 .. Len(w) : g[n] = f[n]

LEMMA StartsGrow ==
  ASSUME NEW w \in Seq(Asked), NEW item \in Asked, NEW f, Starts(f, w)
  PROVE  \E g : Grown(f, g, w, item)
<1> DEFINE N == Len(w)
           v == Append(w, item)
           g == [n \in 0 .. N + 1 |-> IF n = N + 1 THEN f[N] + Bytes(item) ELSE f[n]]
<1>1. N \in Nat /\ Len(v) = N + 1 /\ v[N + 1] = item /\ \A n \in 1 .. N : v[n] = w[n]
  OBVIOUS
<1>2. /\ f \in [0 .. N -> Nat] /\ f[0] = 0
      /\ \A n \in 1 .. N : f[n] = f[n - 1] + Bytes(w[n])
      /\ \A n \in 0 .. N : f[n] <= f[N]
  BY DEF Starts
<1>3. Bytes(item) \in Nat
  BY AskedIs
<1> HIDE DEF N, v
<1>4. /\ g[N + 1] = f[N] + Bytes(item)
      /\ \A n \in 0 .. N : g[n] = f[n]
      /\ g \in [0 .. N + 1 -> Nat]
  <2>1. f[N] \in Nat /\ f[N] + Bytes(item) \in Nat
    BY <1>1, <1>2, <1>3
  <2> QED BY <1>1, <1>2, <2>1
<1> HIDE DEF g
<1>5. g[0] = 0
  BY <1>1, <1>2, <1>4
<1>6. ASSUME NEW n \in 1 .. N + 1 PROVE g[n] = g[n - 1] + Bytes(v[n])
  <2>1. CASE n = N + 1
    <3>1. n - 1 = N /\ N \in 0 .. N
      BY <1>1, <2>1
    <3>2. g[N] = f[N]
      BY <1>4, <3>1
    <3> QED BY ONLY <1>1, <1>4, <2>1, <3>1, <3>2
  <2>2. CASE n # N + 1
    <3>1. n \in 1 .. N /\ n - 1 \in 0 .. N /\ n \in 0 .. N
      BY <1>1, <2>2
    <3> QED BY <1>1, <1>2, <1>4, <3>1
  <2> QED BY <2>1, <2>2
<1>7. ASSUME NEW n \in 0 .. N + 1 PROVE g[n] <= g[N + 1]
  <2>1. f[N] \in Nat
    BY <1>1, <1>2
  <2>2. CASE n = N + 1
    BY <1>3, <1>4, <2>1, <2>2
  <2>3. CASE n # N + 1
    <3>1. n \in 0 .. N
      BY <1>1, <2>3
    <3>2. g[n] = f[n] /\ f[n] \in Nat /\ f[n] <= f[N]
      BY <1>2, <1>4, <3>1
    <3> QED BY <1>3, <1>4, <2>1, <3>2
  <2> QED BY <2>2, <2>3
<1>8. Starts(g, v)
  BY <1>1, <1>4, <1>5, <1>6, <1>7 DEF Starts
<1>9. Grown(f, g, w, item)
  BY <1>4, <1>8 DEF Grown, v, N
<1> QED BY <1>9

\* The memory after an append, where it fits, is as before but for the bytes of the append.
Lays(s, t, item, at) ==
  /\ DOMAIN t.mem = DOMAIN s.mem /\ t.mem \in [DOMAIN s.mem -> 0 .. 255]
  /\ \A k \in DOMAIN s.mem : k \notin at .. at + Bytes(item) - 1 => t.mem[k] = s.mem[k]
  /\ at .. at + Bytes(item) - 1 \subseteq DOMAIN s.mem => Laid(t.mem, at, item)

LEMMA AppendLays ==
  ASSUME NEW s \in Spans, NEW t, NEW item \in Asked, Appends(s, t, item), Claims(s.span, Bytes(item))
  PROVE  Lays(s, t, item, Buf + s.span.pos)
<1> DEFINE at == Buf + s.span.pos
           M == t.mem
           D == DOMAIN s.mem
<1>1. s.span.buf = Buf /\ at \in Int /\ D \in SUBSET Int /\ s.mem \in [D -> 0 .. 255]
  BY SpansAre DEF Buf
<1>2. /\ DOMAIN M = D /\ M = [k \in D |-> M[k]]
      /\ \A k \in D : M[k] = IF k \in at .. at + Bytes(item) - 1 THEN ByteIs(item, k - at) ELSE s.mem[k]
  BY <1>1, Zenon DEF Appends
<1>3. Bytes(item) \in Nat /\ \A j \in 0 .. Bytes(item) - 1 : ByteIs(item, j) \in 0 .. 255
  BY AskedIs
<1> HIDE DEF at, M, D
<1>4. ASSUME NEW k \in D PROVE M[k] \in 0 .. 255
  <2>1. CASE k \in at .. at + Bytes(item) - 1
    <3>1. k - at \in 0 .. Bytes(item) - 1
      BY <1>1, <1>3, <2>1
    <3> QED BY <1>2, <1>3, <2>1, <3>1
  <2>2. CASE k \notin at .. at + Bytes(item) - 1
    <3>1. M[k] = s.mem[k]
      BY <1>2, <2>2
    <3>2. s.mem[k] \in 0 .. 255
      BY <1>1 DEF D
    <3> QED BY <3>1, <3>2
  <2> QED BY <2>1, <2>2
<1>5. M \in [D -> 0 .. 255]
  <2>1. [k \in D |-> M[k]] \in [D -> 0 .. 255]
    BY <1>4
  <2> QED BY <1>2, <2>1
<1>6. \A k \in D : k \notin at .. at + Bytes(item) - 1 => M[k] = s.mem[k]
  BY <1>2
<1>7. at .. at + Bytes(item) - 1 \subseteq D => Laid(M, at, item)
  BY <1>2 DEF Laid
<1> QED BY <1>2, <1>5, <1>6, <1>7 DEF at, M, D, Lays

LEMMA AppendKept ==
  ASSUME NEW s, Shaped(s), NEW t, NEW w, Appended(s, w), NEW item \in Asked, Appends(s, t, item),
         t = [span |-> t.span, mem |-> t.mem]
  PROVE  Shaped(t) /\ Appended(t, Append(w, item))
<1> DEFINE N == Len(w)
           v == Append(w, item)
           b == Bytes(item)
           at == Buf + s.span.pos
<1>1. w \in Seq(Asked) /\ N \in Nat /\ v \in Seq(Asked) /\ Len(v) = N + 1
      /\ v[N + 1] = item /\ \A n \in 1 .. N : v[n] = w[n] /\ w[n] \in Asked
  BY DEF Appended
<1>2. PICK f : Starts(f, w) /\ Holds(s, w, f)
  BY DEF Appended
<1>3. PICK g : /\ Starts(g, v) /\ g[N + 1] = f[N] + b
               /\ \A n \in 0 .. N : g[n] = f[n]
  <2>1. PICK g : Grown(f, g, w, item)
    BY <1>1, <1>2, StartsGrow
  <2> QED BY <2>1 DEF Grown
<1>4. b \in Nat
  BY AskedIs
<1>5. s \in Spans /\ DOMAIN s.mem = 0 .. Buf + s.span.cap + 2
      /\ \A k \in DOMAIN s.mem : k \notin Buf .. Buf + s.span.cap - 1 => s.mem[k] = 255
  BY DEF Shaped
<1>6. /\ s.span.cap \in Nat /\ s.span.pos \in Nat /\ s.mem \in [DOMAIN s.mem -> 0 .. 255]
      /\ Buf = 2
  BY <1>5, SpansAre DEF Buf
<1>7. s.span.pos = f[N] /\ (s.span.overflow <=> s.span.pos > s.span.cap)
  BY <1>2 DEF Holds
<1>8. t.span = Claimed(s.span, b) /\ (~Claims(s.span, b) => t.mem = s.mem)
  BY Zenon DEF Appends
<1>9. /\ Claims(s.span, b) <=> s.span.pos + b <= s.span.cap
      /\ t.span.buf = Buf /\ t.span.cap = s.span.cap
      /\ t.span.pos = s.span.pos + b
      /\ t.span.overflow <=> s.span.pos + b > s.span.cap
      /\ t.span \in [buf : {Buf}, cap : Nat, pos : Nat, overflow : BOOLEAN]
  <2>1. Counted(s.span)
    BY <1>7 DEF Counted
  <2>2. Advances(s.span, t.span, b)
    BY <1>4, <1>5, <1>8, <2>1, FitsClaims
  <2> QED BY <2>2, Zenon DEF Advances
<1> HIDE DEF N, v, b
<1>10. Claims(s.span, b) => at .. at + b - 1 \subseteq Buf .. Buf + s.span.cap - 1
  BY <1>4, <1>6, <1>9
<1>11. Claims(s.span, b) =>
         /\ DOMAIN t.mem = DOMAIN s.mem /\ t.mem \in [DOMAIN s.mem -> 0 .. 255]
         /\ \A k \in DOMAIN s.mem : k \notin at .. at + b - 1 => t.mem[k] = s.mem[k]
         /\ Laid(t.mem, at, item)
  <2> SUFFICES ASSUME Claims(s.span, b)
               PROVE  /\ DOMAIN t.mem = DOMAIN s.mem /\ t.mem \in [DOMAIN s.mem -> 0 .. 255]
                      /\ \A k \in DOMAIN s.mem : k \notin at .. at + b - 1 => t.mem[k] = s.mem[k]
                      /\ Laid(t.mem, at, item)
    OBVIOUS
  <2>1. at .. at + b - 1 \subseteq DOMAIN s.mem
    BY <1>4, <1>5, <1>6, <1>10
  <2>2. Lays(s, t, item, at)
    BY <1>5, AppendLays DEF b
  <2> QED BY <2>1, <2>2 DEF b, Lays
<1>12. Shaped(t)
  <2>1. t.mem \in [DOMAIN s.mem -> 0 .. 255] /\ DOMAIN t.mem = DOMAIN s.mem
    BY <1>6, <1>8, <1>11
  <2>2. \A k \in DOMAIN s.mem : k \notin Buf .. Buf + s.span.cap - 1 => t.mem[k] = s.mem[k]
    BY <1>8, <1>10, <1>11
  <2>3. t \in Spans
    <3>1. DOMAIN s.mem \in SUBSET Int
      BY <1>5, SpansAre
    <3> QED BY <1>9, <2>1, <3>1, Zenon DEF Spans
  <2> QED BY <1>5, <1>9, <2>1, <2>2, <2>3 DEF Shaped
<1>13. Holds(t, v, g)
  <2>1. t.span.pos = g[Len(v)]
    BY <1>1, <1>3, <1>7, <1>9
  <2>2. t.span.overflow <=> t.span.pos > t.span.cap
    BY <1>9
  <2>3. ASSUME ~t.span.overflow, NEW n \in 1 .. N + 1 PROVE Laid(t.mem, Buf + g[n - 1], v[n])
    <3>1. Claims(s.span, b) /\ s.span.pos <= s.span.cap /\ ~s.span.overflow
      BY <1>4, <1>6, <1>7, <1>9, <2>3
    <3>2. CASE n = N + 1
      <4>1. n - 1 = N /\ N \in 0 .. N
        BY <1>1, <3>2
      <4>2. Buf + g[n - 1] = at
        BY <1>3, <1>7, <4>1
      <4> QED BY <1>1, <1>11, <3>1, <3>2, <4>2
    <3>3. CASE n # N + 1
      <4>1. n \in 1 .. N /\ n \in 0 .. N /\ n - 1 \in 0 .. N /\ N \in 0 .. N
        BY <1>1, <3>3
      <4>2. Laid(s.mem, Buf + f[n - 1], w[n])
        BY <1>2, <3>1, <4>1 DEF Holds, AllLaid, N
      <4>3. f[n] = f[n - 1] + Bytes(w[n]) /\ f[n] <= f[N] /\ f[n] \in Nat /\ f[n - 1] \in Nat
        BY <1>2, <4>1 DEF Starts, N
      <4>4. Bytes(w[n]) \in Nat
        BY <1>1, <4>1, AskedIs
      <4>5. ASSUME NEW k \in Buf + f[n - 1] .. Buf + f[n - 1] + Bytes(w[n]) - 1
            PROVE  t.mem[k] = s.mem[k]
        <5>1. PICK from \in Nat, upto \in Nat, pos \in Nat, cap \in Nat :
                /\ from = f[n - 1] /\ upto = f[n] /\ pos = s.span.pos /\ cap = s.span.cap
          BY <1>6, <4>3
        <5>2. from + Bytes(w[n]) = upto /\ upto <= pos /\ pos <= cap
          BY <1>7, <3>1, <4>3, <5>1
        <5>3. k \in 2 + from .. 2 + from + Bytes(w[n]) - 1
          BY <1>6, <4>5, <5>1
        <5>4. k \in 0 .. 2 + cap + 2 /\ k < 2 + pos
          BY ONLY <4>4, <5>2, <5>3, from \in Nat, upto \in Nat, pos \in Nat, cap \in Nat
        <5>5. k \in DOMAIN s.mem /\ k \notin at .. at + b - 1
          BY <1>4, <1>5, <1>6, <5>1, <5>4
        <5> QED BY <1>11, <3>1, <5>5
      <4>6. Laid(t.mem, Buf + f[n - 1], w[n])
        BY <4>2, <4>5 DEF Laid
      <4> QED BY <1>1, <1>3, <4>1, <4>6
    <3> QED BY <3>2, <3>3
  <2> QED BY <1>1, <2>1, <2>2, <2>3 DEF Holds, AllLaid
<1> QED BY <1>1, <1>3, <1>12, <1>13 DEF Appended, v

(* A number in a field.                                                    *)
ZerosOf(src) ==
  CHOOSE n \in 0 .. Len(src) : /\ \A k \in 1 .. n : src[k] = 0
                               /\ n < Len(src) => src[n + 1] # 0

KeptOf(src) ==
  LET value == SelectInSeq(src, LAMBDA b : b # 0)
  IN  IF value = 0 THEN <<>> ELSE SubSeq(src, value, Len(src))

\* What is kept of a number is what follows its z zeros.
Trims(src, kept, z) ==
  /\ z \in 0 .. Len(src) /\ kept \in Seq(0 .. 255) /\ Len(kept) = Len(src) - z
  /\ \A i \in 1 .. Len(kept) : kept[i] = src[z + i]

LEMMA SeqsWithin == ASSUME NEW S, NEW T, S \subseteq T PROVE Seq(S) \subseteq Seq(T)
OBVIOUS

\* A function on the first numbers is a sequence of as many.
LEMMA FunctionSeq == ASSUME NEW S, NEW k \in Nat, NEW f \in [1 .. k -> S] PROVE f \in Seq(S) /\ Len(f) = k
OBVIOUS

LEMMA SubSeqIs ==
  ASSUME NEW S, NEW s \in Seq(S), NEW m \in 1 .. Len(s)
  PROVE  /\ SubSeq(s, m, Len(s)) \in Seq(S) /\ Len(SubSeq(s, m, Len(s))) = Len(s) - m + 1
         /\ \A i \in 1 .. Len(s) - m + 1 : SubSeq(s, m, Len(s))[i] = s[m + i - 1]
<1> DEFINE n == Len(s)
<1>1. n \in Nat /\ m \in 1 .. n /\ s \in Seq(S)
  OBVIOUS
<1>2. \A i \in m .. n : s[i] \in S
  BY ElementOf
<1>3. SubSeq(s, m, n) = [i \in 1 .. n - m + 1 |-> s[i + m - 1]]
  OBVIOUS
<1> HIDE DEF n
<1>4. \A i \in 1 .. n - m + 1 : i + m - 1 \in m .. n /\ i + m - 1 = m + i - 1
  BY <1>1
<1>5. [i \in 1 .. n - m + 1 |-> s[i + m - 1]] \in [1 .. n - m + 1 -> S]
  BY <1>2, <1>4
<1>6. n - m + 1 \in Nat
  BY <1>1
<1>7. SubSeq(s, m, n) \in [1 .. n - m + 1 -> S]
  BY ONLY <1>3, <1>5, Zenon
<1>8. SubSeq(s, m, n) \in Seq(S) /\ Len(SubSeq(s, m, n)) = n - m + 1
  BY ONLY <1>6, <1>7, FunctionSeq, Zenon
<1>9. \A i \in 1 .. n - m + 1 : SubSeq(s, m, n)[i] = s[m + i - 1]
  BY ONLY <1>3, <1>4
<1> QED BY ONLY <1>8, <1>9, Zenon DEF n

LEMMA NumberTrims == ASSUME NEW src \in Seq(0 .. 255) PROVE Trims(src, KeptOf(src), ZerosOf(src))
<1> DEFINE n == Len(src)
           I == {i \in 1 .. n : src[i] # 0}
           Zeros1(z) == (\A k \in 1 .. z : src[k] = 0) /\ (z < n => src[z + 1] # 0)
           value == SelectInSeq(src, LAMBDA b : b # 0)
<1>1. n \in Nat
  OBVIOUS
<1>2. value = IF I # {} THEN Min(I) ELSE 0
  BY DEF SelectInSeq
<1> HIDE DEF n
<1>3. \A y, z \in 0 .. n : Zeros1(y) /\ Zeros1(z) => y = z
  <2> SUFFICES ASSUME NEW y \in 0 .. n, NEW z \in 0 .. n, Zeros1(y), Zeros1(z), y < z PROVE FALSE
    BY <1>1
  <2>1. y + 1 \in 1 .. z /\ y < n
    BY <1>1
  <2> QED BY <2>1
<1>4. ZerosOf(src) = CHOOSE z \in 0 .. n : Zeros1(z)
  BY DEF ZerosOf, n
<1>5. CASE I = {}
  <2>1. value = 0 /\ KeptOf(src) = <<>>
    BY <1>2, <1>5 DEF KeptOf
  <2>2. Zeros1(n) /\ n \in 0 .. n
    BY <1>1, <1>5
  <2> HIDE DEF Zeros1
  <2>3. ZerosOf(src) = n
    BY <1>3, <1>4, <2>2
  <2>4. <<>> \in Seq(0 .. 255) /\ Len(<<>>) = 0 /\ 1 .. 0 = {}
    OBVIOUS
  <2>5. n - n = 0
    BY <1>1
  <2> QED BY <2>1, <2>2, <2>3, <2>4, <2>5 DEF Trims, n
<1>6. CASE I # {}
  <2>1. I \in SUBSET Nat
    BY <1>1
  <2>2. \E x \in I : \A y \in I : x <= y
    BY <1>6, <2>1, LittleV!LeastOf
  <2>3. Min(I) \in I /\ \A y \in I : Min(I) <= y
    BY <2>2 DEF Min
  <2>4. PICK m \in 1 .. n : m = value /\ src[m] # 0 /\ \A y \in I : m <= y
    BY <1>2, <1>6, <2>3
  <2>5. PICK z \in 0 .. n : z = m - 1 /\ z + 1 = m /\ z < n
    BY <1>1
  <2>6. Zeros1(z)
    <3>1. \A k \in 1 .. z : k \in 1 .. n /\ ~(m <= k)
      BY <1>1, <2>5
    <3> QED BY <2>4, <2>5, <3>1
  <2> HIDE DEF Zeros1
  <2>7. ZerosOf(src) = z
    BY <1>3, <1>4, <2>6
  <2>8. m # 0
    OBVIOUS
  <2>9. KeptOf(src) = SubSeq(src, m, Len(src))
    BY <2>4, <2>8 DEF KeptOf
  <2>10. /\ KeptOf(src) \in Seq(0 .. 255) /\ Len(KeptOf(src)) = n - m + 1
         /\ \A i \in 1 .. n - m + 1 : KeptOf(src)[i] = src[m + i - 1]
    BY <2>9, SubSeqIs DEF n
  <2>11. n - m + 1 = n - z /\ \A i \in 1 .. n - z : m + i - 1 = z + i
    BY <1>1, <2>5
  <2> QED BY <2>7, <2>10, <2>11 DEF Trims, n
<1> QED BY <1>5, <1>6

MemoryOf(s, view) == [k \in 1 .. view.len |-> s.mem[view.buf + k - 1]]

MeantIn(s, src) ==
  IF Len(KeptOf(src)) > s.span.cap THEN s.span.overflow
  ELSE MemoryOf(s, Produced(s.span)) = [k \in 1 .. s.span.cap - Len(KeptOf(src)) |-> 0] \o KeptOf(src)

\* A field of zeros and then of the bytes kept.
LEMMA FieldIs ==
  ASSUME NEW cap \in Nat, NEW kept \in Seq(0 .. 255), Len(kept) <= cap,
         NEW M \in [1 .. cap -> 0 .. 255],
         \A k \in 1 .. cap : M[k] = IF k <= cap - Len(kept) THEN 0 ELSE kept[k - (cap - Len(kept))]
  PROVE  M = [k \in 1 .. cap - Len(kept) |-> 0] \o kept
<1> DEFINE n == Len(kept)
           Z == [k \in 1 .. cap - n |-> 0]
<1>1. n \in Nat /\ n <= cap /\ cap - n \in Nat
  OBVIOUS
<1> HIDE DEF n
<1>2. Z \in Seq(0 .. 255) /\ Len(Z) = cap - n /\ \A k \in 1 .. cap - n : Z[k] = 0
  <2>1. Z \in [1 .. cap - n -> 0 .. 255]
    OBVIOUS
  <2> QED BY <1>1, <2>1
<1> HIDE DEF Z
<1>3. /\ Z \o kept \in Seq(0 .. 255) /\ Len(Z \o kept) = cap
      /\ \A k \in 1 .. cap : (Z \o kept)[k] = IF k <= cap - n THEN Z[k] ELSE kept[k - (cap - n)]
  BY <1>1, <1>2 DEF n
<1>4. M \in Seq(0 .. 255) /\ Len(M) = cap
  OBVIOUS
<1>5. \A k \in 1 .. cap : M[k] = (Z \o kept)[k]
  <2> SUFFICES ASSUME NEW k \in 1 .. cap PROVE M[k] = (Z \o kept)[k]
    OBVIOUS
  <2>1. M[k] = IF k <= cap - n THEN 0 ELSE kept[k - (cap - n)]
    BY DEF n
  <2>2. (Z \o kept)[k] = IF k <= cap - n THEN Z[k] ELSE kept[k - (cap - n)]
    BY <1>3
  <2>3. k <= cap - n => Z[k] = 0
    BY <1>1, <1>2
  <2> QED BY ONLY <2>1, <2>2, <2>3
<1>6. Seq(0 .. 255) \subseteq Seq(Int)
  <2>1. 0 .. 255 \subseteq Int
    OBVIOUS
  <2> QED BY ONLY <2>1, SeqsWithin
<1>7. M = Z \o kept
  BY ONLY <1>3, <1>4, <1>5, <1>6, SameSeq
<1> QED BY <1>7 DEF Z, n

Meant(s, w) == \E src \in Seq(0 .. 255) : w = <<[kind |-> "mpint", src |-> src]>> /\ MeantIn(s, src)

\* Either the span holds its appends, or a number fills the field.
SpanIs(s, w) == Shaped(s) /\ (Appended(s, w) \/ Meant(s, w))

LEMMA CursorMoved ==
  ASSUME NEW sp \in [buf : {Buf}, cap : Nat, pos : Nat, overflow : BOOLEAN], NEW pos \in Nat
  PROVE  /\ [sp EXCEPT !.pos = pos] \in [buf : {Buf}, cap : Nat, pos : Nat, overflow : BOOLEAN]
         /\ [sp EXCEPT !.pos = pos].buf = Buf /\ [sp EXCEPT !.pos = pos].cap = sp.cap
         /\ [sp EXCEPT !.pos = pos].pos = pos /\ [sp EXCEPT !.pos = pos].overflow = sp.overflow
OBVIOUS

LEMMA CursorOver ==
  ASSUME NEW sp \in [buf : {Buf}, cap : Nat, pos : Nat, overflow : BOOLEAN]
  PROVE  /\ [sp EXCEPT !.overflow = TRUE] \in [buf : {Buf}, cap : Nat, pos : Nat, overflow : BOOLEAN]
         /\ [sp EXCEPT !.overflow = TRUE].cap = sp.cap /\ [sp EXCEPT !.overflow = TRUE].overflow
OBVIOUS

LEMMA SpanFrom ==
  ASSUME NEW sp \in [buf : {Buf}, cap : Nat, pos : Nat, overflow : BOOLEAN],
         NEW C \in SUBSET Int, NEW m \in [C -> 0 .. 255]
  PROVE  [span |-> sp, mem |-> m] \in Spans
<1> DEFINE M == UNION {[C1 -> 0 .. 255] : C1 \in SUBSET Int}
<1>1. m \in M
  OBVIOUS
<1> HIDE DEF M
<1>2. [span |-> sp, mem |-> m] \in [span : [buf : {Buf}, cap : Nat, pos : Nat, overflow : BOOLEAN], mem : M]
  BY <1>1
<1> QED BY <1>2, Zenon DEF M, Spans

LEMMA NumberPut ==
  ASSUME NEW s, Shaped(s), s.span.pos = 0, ~s.span.overflow, NEW src \in Seq(0 .. 255)
  PROVE  Shaped(MpintFixed(s, src)) /\ MeantIn(MpintFixed(s, src), src)
<1> DEFINE t == MpintFixed(s, src)
           z == ZerosOf(src)
           n == Len(src)
           cap == s.span.cap
           bytes == n - z
           fill == cap - bytes
           kept == KeptOf(src)
           D == DOMAIN s.mem
           InField(k) == k - s.span.buf \in 0 .. cap - 1
           mem1 == [k \in D |-> CASE ~InField(k) -> s.mem[k]
                                  [] InField(k) /\ k - s.span.buf < fill -> 0
                                  [] OTHER -> src[k - s.span.buf - fill + z + 1]]
<1>1. /\ s \in Spans /\ D = 0 .. Buf + cap + 2 /\ cap \in Nat /\ s.span.buf = 2 /\ Buf = 2
      /\ s.mem \in [D -> 0 .. 255]
      /\ \A k \in D : k \notin Buf .. Buf + cap - 1 => s.mem[k] = 255
      /\ s.span \in [buf : {Buf}, cap : Nat, pos : Nat, overflow : BOOLEAN]
  BY SpansAre DEF Shaped, Buf, Spans
<1>2. /\ z \in 0 .. n /\ n \in Nat /\ kept \in Seq(0 .. 255) /\ Len(kept) = bytes
      /\ \A i \in 1 .. bytes : kept[i] = src[z + i]
  BY NumberTrims DEF Trims
<1>3. t = IF s.span.buf = Null \/ bytes > cap THEN [span |-> [s.span EXCEPT !.overflow = TRUE], mem |-> s.mem]
          ELSE [span |-> [s.span EXCEPT !.pos = cap], mem |-> mem1]
  BY Zenon DEF MpintFixed, ZerosOf
<1>4. s.span.buf # Null
  BY <1>1 DEF Null
<1> HIDE DEF t, z, n, cap, kept, D
<1>5. bytes \in Nat
  BY <1>2
<1> HIDE DEF bytes
<1>6. CASE bytes > cap
  <2>1. t.span = [s.span EXCEPT !.overflow = TRUE] /\ t.mem = s.mem
    BY <1>3, <1>6
  <2>2. PICK sp : sp = s.span
    OBVIOUS
  <2>3. /\ t.span \in [buf : {Buf}, cap : Nat, pos : Nat, overflow : BOOLEAN]
        /\ t.span.cap = cap /\ t.span.overflow
    BY ONLY <1>1, <2>1, CursorOver DEF cap
  <2>4. D \in SUBSET Int
    BY <1>1
  <2>5. t \in Spans
    <3>1. t = [span |-> t.span, mem |-> t.mem]
      BY <1>3, <1>4, <1>6, <2>1
    <3> HIDE DEF mem1
    <3> QED BY <1>1, <2>1, <2>3, <2>4, <3>1, Zenon DEF Spans
  <2>6. Shaped(t)
    BY <1>1, <2>1, <2>3, <2>5 DEF Shaped, D
  <2>7. MeantIn(t, src)
    BY <1>2, <1>6, <2>3 DEF MeantIn, kept
  <2> QED BY <2>6, <2>7 DEF t
<1>7. CASE ~(bytes > cap)
  <2>1. t.span = [s.span EXCEPT !.pos = cap] /\ t.mem = mem1 /\ t = [span |-> t.span, mem |-> mem1]
    <3> HIDE DEF mem1
    <3> QED BY <1>3, <1>4, <1>7
  <2>2. /\ t.span \in [buf : {Buf}, cap : Nat, pos : Nat, overflow : BOOLEAN]
        /\ t.span.cap = cap /\ t.span.overflow = s.span.overflow /\ t.span.pos = cap /\ t.span.buf = 2
    <3>1. s.span \in [buf : {Buf}, cap : Nat, pos : Nat, overflow : BOOLEAN] /\ cap \in Nat
      BY <1>1
    <3>2. t.span = [s.span EXCEPT !.pos = cap] /\ Buf = 2
      BY <1>1, <2>1
    <3> QED BY ONLY <3>1, <3>2, CursorMoved DEF cap
  <2>3. D \in SUBSET Int /\ fill \in Nat /\ fill = cap - bytes
    BY <1>1, <1>5, <1>7
  <2> HIDE DEF fill
  <2>4. ASSUME NEW k \in D, k \notin Buf .. Buf + cap - 1 PROVE mem1[k] = 255
    <3>1. ~InField(k)
      BY <1>1, <2>3, <2>4
    <3> HIDE DEF InField
    <3>2. mem1[k] = s.mem[k]
      BY <3>1
    <3> QED BY <1>1, <2>4, <3>2
  <2>5. ASSUME NEW k \in 1 .. cap
        PROVE  mem1[2 + k - 1] = IF k <= cap - bytes THEN 0 ELSE kept[k - (cap - bytes)]
    <3>1. PICK a \in D : a = 2 + k - 1 /\ a - s.span.buf = k - 1
      <4>1. 2 + k - 1 \in D /\ (2 + k - 1) - s.span.buf = k - 1
        BY <1>1
      <4> QED BY <4>1
    <3>2. InField(a)
      BY <1>1, <3>1
    <3> HIDE DEF InField
    <3>3. mem1[a] = IF k - 1 < fill THEN 0 ELSE src[k - 1 - fill + z + 1]
      <4>1. CASE k - 1 < fill
        <5>1. mem1[a] = 0
          BY <3>1, <3>2, <4>1
        <5> QED BY <4>1, <5>1
      <4>2. CASE ~(k - 1 < fill)
        <5>1. mem1[a] = src[a - s.span.buf - fill + z + 1]
          BY <3>1, <3>2, <4>2, Zenon
        <5> QED BY <3>1, <4>2, <5>1
      <4> QED BY <4>1, <4>2
    <3>4. k - 1 < fill <=> k <= cap - bytes
      BY <1>1, <2>3
    <3>5. ~(k - 1 < fill) => kept[k - (cap - bytes)] = src[k - 1 - fill + z + 1]
      <4> SUFFICES ASSUME ~(k - 1 < fill) PROVE kept[k - (cap - bytes)] = src[k - 1 - fill + z + 1]
        OBVIOUS
      <4>1. PICK i \in 1 .. bytes : i = k - (cap - bytes) /\ z + i = k - 1 - fill + z + 1
        <5>1. k - (cap - bytes) \in 1 .. bytes /\ z + (k - (cap - bytes)) = k - 1 - fill + z + 1
          BY <1>1, <1>2, <1>5, <2>3
        <5> QED BY <5>1
      <4> QED BY <1>2, <4>1
    <3> HIDE DEF mem1
    <3> QED BY ONLY <3>1, <3>3, <3>4, <3>5
  <2>6. ASSUME NEW k \in D PROVE mem1[k] \in 0 .. 255
    <3> HIDE DEF mem1
    <3>1. CASE k \in Buf .. Buf + cap - 1
      <4>1. PICK j \in 1 .. cap : k = 2 + j - 1
        <5>1. k - 1 \in 1 .. cap /\ k = 2 + (k - 1) - 1
          BY <1>1, <2>3, <3>1
        <5> QED BY <5>1
      <4>2. CASE j <= cap - bytes
        <5>1. mem1[2 + j - 1] = 0
          BY <2>5, <4>2
        <5> QED BY <4>1, <5>1
      <4>3. CASE ~(j <= cap - bytes)
        <5>1. PICK i \in 1 .. Len(kept) : i = j - (cap - bytes)
          <6>1. j - (cap - bytes) \in 1 .. bytes
            BY <1>1, <1>5, <4>3
          <6> QED BY <1>2, <6>1
        <5>2. kept[i] \in 0 .. 255
          BY ONLY <1>2, ElementOf, i \in 1 .. Len(kept)
        <5>3. mem1[k] = kept[i]
          BY <2>5, <4>1, <4>3, <5>1
        <5> QED BY ONLY <5>2, <5>3
      <4> QED BY <4>2, <4>3
    <3>2. CASE k \notin Buf .. Buf + cap - 1
      BY <2>4, <3>2
    <3> QED BY <3>1, <3>2
  <2>7. DOMAIN mem1 = D /\ mem1 \in [D -> 0 .. 255]
    <3>1. mem1 = [k \in D |-> mem1[k]]
      BY Zenon
    <3> HIDE DEF mem1
    <3>2. [k \in D |-> mem1[k]] \in [D -> 0 .. 255]
      BY <2>6
    <3> QED BY <3>1, <3>2
  <2> HIDE DEF mem1
  <2>8. t \in Spans
    <3>1. mem1 \in [D -> 0 .. 255] /\ D \in SUBSET Int
      BY <2>3, <2>7
    <3>2. t.span \in [buf : {Buf}, cap : Nat, pos : Nat, overflow : BOOLEAN]
      BY <2>2
    <3>3. t = [span |-> t.span, mem |-> mem1]
      BY <2>1
    <3> QED BY ONLY <3>1, <3>2, <3>3, SpanFrom
  <2>9. Shaped(t)
    BY <1>1, <2>1, <2>2, <2>4, <2>7, <2>8 DEF Shaped
  <2>10. MeantIn(t, src)
    <3> DEFINE M == MemoryOf(t, Produced(t.span))
    <3>1. Produced(t.span).len = cap /\ Produced(t.span).buf = 2
      BY <1>1, <2>2 DEF Produced, View
    <3>2. M = [k \in 1 .. cap |-> mem1[2 + k - 1]]
      BY <2>1, <3>1 DEF MemoryOf
    <3>3. \A k \in 1 .. cap : 2 + k - 1 \in D
      BY <1>1
    <3> HIDE DEF M
    <3>4. M \in [1 .. cap -> 0 .. 255]
      BY <2>6, <3>2, <3>3
    <3>5. \A k \in 1 .. cap : M[k] = IF k <= cap - Len(kept) THEN 0 ELSE kept[k - (cap - Len(kept))]
      BY <1>2, <2>5, <3>2
    <3>6. cap \in Nat /\ kept \in Seq(0 .. 255) /\ Len(kept) <= cap
      BY <1>1, <1>2, <1>5, <1>7
    <3>7. M = [k \in 1 .. cap - Len(kept) |-> 0] \o kept
      BY ONLY <3>4, <3>5, <3>6, FieldIs
    <3>8. ~(Len(kept) > t.span.cap) /\ t.span.cap = cap
      BY <1>2, <1>7, <2>2
    <3> QED BY <3>7, <3>8 DEF MeantIn, M, kept
  <2> QED BY <2>9, <2>10 DEF t
<1> QED BY <1>6, <1>7

(* The steps of a span.                                                    *)
LEMMA EmptyHolds ==
  ASSUME NEW s \in Spans, s.span.pos = 0, ~s.span.overflow
  PROVE  Appended(s, <<>>)
<1> DEFINE f == [n \in 0 .. 0 |-> 0]
           w == <<>>
<1>1. Len(w) = 0 /\ w \in Seq(Asked)
  OBVIOUS
<1>2. f \in [0 .. 0 -> Nat] /\ f[0] = 0 /\ \A n \in 0 .. 0 : f[n] <= f[0]
  OBVIOUS
<1>3. \A n \in 1 .. 0 : FALSE
  OBVIOUS
<1> HIDE DEF f, w
<1>4. Starts(f, w)
  BY <1>1, <1>2, <1>3 DEF Starts
<1>5. Holds(s, w, f)
  <2>1. s.span.cap \in Nat
    BY SpansAre
  <2>2. ~(s.span.pos > s.span.cap)
    BY <2>1
  <2> QED BY <1>1, <1>2, <1>3, <2>2 DEF Holds, AllLaid
<1> QED BY <1>1, <1>4, <1>5 DEF Appended, w

LEMMA SpanStarts == ASSUME FluxInit PROVE SpanIs(span, wrote)
<1>1. PICK c \in SpanCaps : span = [span |-> From(Buf, c), mem |-> [k \in 0 .. Buf + c + 2 |-> 255]]
  BY DEF FluxInit
<1>2. c \in Nat /\ wrote = <<>>
  BY <1>1, CapsAssumption DEF FluxInit
<1> DEFINE sp == From(Buf, c)
           C == 0 .. Buf + c + 2
           m == [k \in C |-> 255]
<1>3. /\ sp \in [buf : {Buf}, cap : Nat, pos : Nat, overflow : BOOLEAN]
      /\ sp.cap = c /\ sp.pos = 0 /\ ~sp.overflow
  BY <1>2 DEF From
<1>4. C \in SUBSET Int /\ m \in [C -> 0 .. 255] /\ DOMAIN m = C /\ \A k \in C : m[k] = 255
  BY DEF Buf
<1>5. span = [span |-> sp, mem |-> m]
  BY <1>1
<1> HIDE DEF sp, m
<1>6. span.span = sp /\ span.mem = m
  BY <1>5
<1>7. span \in Spans
  BY ONLY <1>3, <1>4, <1>5, SpanFrom
<1>8. Shaped(span)
  BY <1>3, <1>4, <1>6, <1>7 DEF Shaped
<1>9. Appended(span, wrote)
  BY <1>2, <1>3, <1>6, <1>7, EmptyHolds
<1> QED BY <1>8, <1>9 DEF SpanIs

LEMMA SpanResets ==
  ASSUME NEW s, Shaped(s)
  PROVE  SpanIs([s EXCEPT !.span = Reset(@)], <<>>)
<1> DEFINE t == [s EXCEPT !.span = Reset(@)]
<1>1. /\ s \in Spans /\ DOMAIN s.mem = 0 .. Buf + s.span.cap + 2
      /\ \A k \in DOMAIN s.mem : k \notin Buf .. Buf + s.span.cap - 1 => s.mem[k] = 255
  BY DEF Shaped
<1>2. /\ s.span \in [buf : {Buf}, cap : Nat, pos : Nat, overflow : BOOLEAN]
      /\ DOMAIN s.mem \in SUBSET Int /\ s.mem \in [DOMAIN s.mem -> 0 .. 255]
      /\ s = [span |-> s.span, mem |-> s.mem]
  BY <1>1, SpansAre DEF Spans
<1>3. PICK sp \in [buf : {Buf}, cap : Nat, pos : Nat, overflow : BOOLEAN] : sp = s.span
  BY <1>2
<1>4. /\ Reset(sp) \in [buf : {Buf}, cap : Nat, pos : Nat, overflow : BOOLEAN]
      /\ Reset(sp).cap = sp.cap /\ Reset(sp).pos = 0 /\ ~Reset(sp).overflow
  BY DEF Reset
<1>5. t = [span |-> Reset(sp), mem |-> s.mem]
  <2>1. t = [s EXCEPT !.span = Reset(sp)]
    BY <1>3
  <2>2. PICK m : m = s.mem
    OBVIOUS
  <2>3. s = [span |-> sp, mem |-> m]
    BY <1>2, <1>3, <2>2
  <2> HIDE DEF t
  <2>4. t = [[span |-> sp, mem |-> m] EXCEPT !.span = Reset(sp)]
    BY ONLY <2>1, <2>3
  <2>5. t = [span |-> Reset(sp), mem |-> m]
    BY ONLY <2>4
  <2> QED BY <2>2, <2>5
<1> HIDE DEF t
<1>6. t.span = Reset(sp) /\ t.mem = s.mem
  BY <1>5
<1>7. t \in Spans
  BY ONLY <1>2, <1>4, <1>5, SpanFrom
<1>8. Shaped(t)
  <2>1. t.span.cap = s.span.cap
    BY <1>3, <1>4, <1>6
  <2>2. /\ DOMAIN t.mem = 0 .. Buf + t.span.cap + 2
        /\ \A k \in DOMAIN t.mem : k \notin Buf .. Buf + t.span.cap - 1 => t.mem[k] = 255
    <3>1. PICK m, c : m = s.mem /\ c = s.span.cap
      OBVIOUS
    <3>2. t.mem = m /\ t.span.cap = c
      BY <1>6, <2>1, <3>1
    <3>3. DOMAIN m = 0 .. Buf + c + 2 /\ \A k \in DOMAIN m : k \notin Buf .. Buf + c - 1 => m[k] = 255
      BY ONLY <1>1, <3>1
    <3> QED BY ONLY <3>2, <3>3
  <2> QED BY ONLY <1>7, <2>2, Zenon DEF Shaped
<1>9. Appended(t, <<>>)
  BY <1>4, <1>6, <1>7, EmptyHolds
<1> QED BY <1>8, <1>9 DEF SpanIs, t

\* An append to a span that is no number's field.
LEMMA SpanWrites ==
  ASSUME SpanIs(span, wrote), NEW item \in Asked, Wrote(item), Appends(span, span', item),
         span' = [span |-> span'.span, mem |-> span'.mem]
  PROVE  SpanIs(span, wrote)'
<1>1. ~Numbered /\ wrote' = Append(wrote, item)
  BY DEF Wrote
<1>2. Shaped(span) /\ Appended(span, wrote)
  <2>1. ASSUME Meant(span, wrote) PROVE Numbered
    <3>1. PICK src : wrote = <<[kind |-> "mpint", src |-> src]>>
      BY <2>1 DEF Meant
    <3>2. wrote[1].kind = "mpint" /\ wrote # <<>>
      BY <3>1
    <3> QED BY <3>2 DEF Numbered
  <2> QED BY <1>1, <2>1 DEF SpanIs
<1>3. Shaped(span') /\ Appended(span', Append(wrote, item))
  BY ONLY <1>2, item \in Asked, Appends(span, span', item), AppendKept,
          span' = [span |-> span'.span, mem |-> span'.mem]
<1> QED BY <1>1, <1>3 DEF SpanIs

LEMMA SpanNumbers ==
  ASSUME SpanIs(span, wrote), NEW src \in Seq(0 .. 255), PutNumber(src)
  PROVE  SpanIs(span, wrote)'
<1>1. /\ wrote = <<>> /\ span.span.pos = 0 /\ span' = MpintFixed(span, src)
      /\ wrote' = <<[kind |-> "mpint", src |-> src]>>
  BY Zenon DEF PutNumber
<1>2. Shaped(span)
  BY DEF SpanIs
<1>3. ~span.span.overflow
  <2>1. ~Meant(span, wrote)
    <3>1. ASSUME NEW x PROVE <<x>> # <<>>
      OBVIOUS
    <3> QED BY <1>1, <3>1 DEF Meant
  <2>2. PICK f : Holds(span, wrote, f)
    BY <2>1 DEF SpanIs, Appended
  <2>3. span.span.cap \in Nat
    BY <1>2, SpansAre DEF Shaped
  <2>4. span.span.overflow <=> 0 > span.span.cap
    BY <1>1, <2>2 DEF Holds
  <2> QED BY <2>3, <2>4
<1>4. Shaped(span') /\ MeantIn(span', src)
  BY <1>1, <1>2, <1>3, NumberPut
<1> QED BY <1>1, <1>4 DEF SpanIs, Meant

SpanInv == SpanIs(span, wrote)

LEMMA SpanInvKept == ASSUME SpanInv, [SpanNext \/ BitNext]_fluxVars PROVE SpanInv'
<1>1. CASE UNCHANGED <<span, wrote>>
  BY <1>1 DEF SpanInv
<1>2. CASE BitNext
  BY <1>1, <1>2, BitStepSpan
<1>3. CASE UNCHANGED fluxVars
  BY <1>1, <1>3 DEF fluxVars
<1>4. span \in Spans
  BY DEF SpanInv, SpanIs, Shaped
<1>5. CASE PutByte
  <2> DEFINE item == [kind |-> "raw", src |-> <<200>>]
  <2>1. <<200>> \in Seq(0 .. 255) /\ 200 \in 0 .. 255
    OBVIOUS
  <2>2. item \in Asked
    BY <2>1 DEF Asked
  <2>3. Wrote(item) /\ span' = Put(span, 200)
    BY <1>5, Zenon DEF PutByte
  <2>4. Appends(span, span', item)
    BY <1>4, <2>1, <2>3, PutAppends
  <2>5. span' = [span |-> span'.span, mem |-> span'.mem]
    BY <2>3 DEF Put, Append1
  <2> HIDE DEF item
  <2> QED BY <2>2, <2>3, <2>4, <2>5, SpanWrites DEF SpanInv
<1>6. CASE PutRaw(<<1, 2, 3>>)
  <2> DEFINE item == [kind |-> "raw", src |-> <<1, 2, 3>>]
  <2>1. <<1, 2, 3>> \in Seq(0 .. 255)
    OBVIOUS
  <2>2. item \in Asked
    BY <2>1 DEF Asked
  <2>3. Wrote(item) /\ span' = Raw(span, <<1, 2, 3>>)
    BY <1>6, Zenon DEF PutRaw
  <2>4. Appends(span, span', item)
    BY <1>4, <2>1, <2>3, RawAppends
  <2>5. span' = [span |-> span'.span, mem |-> span'.mem]
    BY <2>3 DEF Raw, Append1
  <2> HIDE DEF item
  <2> QED BY <2>2, <2>3, <2>4, <2>5, SpanWrites DEF SpanInv
<1>7. ASSUME NEW value \in SUBSET ValueBits, NEW width \in {4, 7, 8}, PutWide(value, width)
      PROVE  SpanInv'
  <2> DEFINE item == [kind |-> "be", width |-> width, value |-> value]
  <2>1. value \in SUBSET Wide
    BY DEF ValueBits, Wide
  <2>2. item \in Asked
    BY DEF Asked
  <2>3. Wrote(item) /\ span' = PutBe(span, value, width)
    BY <1>7, Zenon DEF PutWide
  <2>4. Appends(span, span', item)
    BY <1>4, <2>1, <2>3, WideAppends
  <2>5. span' = [span |-> span'.span, mem |-> span'.mem]
    BY <2>3 DEF PutBe, Append1
  <2> HIDE DEF item
  <2> QED BY <2>2, <2>3, <2>4, <2>5, SpanWrites DEF SpanInv
<1>8. CASE PutNumber(<<0, 0, 9, 8>>) \/ PutNumber(<<0>>) \/ PutNumber(<<7, 6, 0, 5, 4, 3>>)
  <2>1. /\ <<0, 0, 9, 8>> \in Seq(0 .. 255) /\ <<0>> \in Seq(0 .. 255)
        /\ <<7, 6, 0, 5, 4, 3>> \in Seq(0 .. 255)
    OBVIOUS
  <2>2. PICK src \in Seq(0 .. 255) : PutNumber(src)
    BY <1>8, <2>1, Zenon
  <2> QED BY <2>2, SpanNumbers DEF SpanInv
<1>9. CASE ResetSpan
  <2>1. span' = [span EXCEPT !.span = Reset(@)] /\ wrote' = <<>>
    BY <1>9, Zenon DEF ResetSpan
  <2>2. Shaped(span)
    BY DEF SpanInv, SpanIs
  <2>3. SpanIs([span EXCEPT !.span = Reset(@)], <<>>)
    BY <2>2, SpanResets
  <2> QED BY <2>1, <2>3, Zenon DEF SpanInv
<1>10. CASE SpanNext
  <2>1. {0, 1} \in SUBSET ValueBits /\ {0, 1, 9, 16} \in SUBSET ValueBits /\ 4 \in {4, 7, 8}
    BY DEF ValueBits
  <2>2. CASE \E width \in {4, 7, 8} : PutWide({0, 1, 9, 16}, width)
    BY <1>7, <2>1, <2>2
  <2>3. CASE PutWide({0, 1}, 4)
    BY <1>7, <2>1, <2>3
  <2> QED BY <1>5, <1>6, <1>8, <1>9, <1>10, <2>2, <2>3, Zenon DEF SpanNext
<1> QED BY <1>2, <1>3, <1>10

(* What is read back.                                                      *)
LEMMA SumsAre ==
  ASSUME wrote \in Seq(Asked), NEW f, Starts(f, wrote)
  PROVE  \A n \in 0 .. Len(wrote) : Sums[n] = f[n]
<1> DEFINE N == Len(wrote)
           Folds(g) == g = [n \in 0 .. N |-> IF n = 0 THEN 0 ELSE g[n - 1] + Bytes(wrote[n])]
           iter == CHOOSE g : Folds(g)
<1>1. N \in Nat
  OBVIOUS
<1>2. /\ f \in [0 .. N -> Nat] /\ f[0] = 0
      /\ \A n \in 1 .. N : f[n] = f[n - 1] + Bytes(wrote[n])
  BY DEF Starts
<1>3. Sums = iter
  BY DEF Sums
<1> HIDE DEF N
<1>4. Folds(f)
  <2> DEFINE Body(n) == IF n = 0 THEN 0 ELSE f[n - 1] + Bytes(wrote[n])
  <2>1. \A n \in 0 .. N : f[n] = Body(n)
    BY <1>1, <1>2
  <2> HIDE DEF Body
  <2>2. f = [n \in 0 .. N |-> f[n]]
    BY <1>2
  <2>3. f = [n \in 0 .. N |-> Body(n)]
    BY <2>1, <2>2
  <2> QED BY <2>3 DEF Body
<1> HIDE DEF Folds
<1>5. Folds(iter)
  BY <1>4
<1> HIDE DEF iter
<1>6. \A n \in 0 .. N : iter[n] = IF n = 0 THEN 0 ELSE iter[n - 1] + Bytes(wrote[n])
  <2> DEFINE Body(n) == IF n = 0 THEN 0 ELSE iter[n - 1] + Bytes(wrote[n])
  <2>1. iter = [n \in 0 .. N |-> Body(n)]
    BY <1>5 DEF Folds
  <2> HIDE DEF Body
  <2>2. \A n \in 0 .. N : iter[n] = Body(n)
    BY <2>1
  <2> QED BY <2>2 DEF Body
<1>7. \A n \in 0 .. N : iter[n] = f[n]
  <2> DEFINE Wrong == {n \in 0 .. N : iter[n] # f[n]}
  <2> SUFFICES ASSUME Wrong # {} PROVE FALSE
    OBVIOUS
  <2>1. Wrong \in SUBSET Nat
    BY <1>1
  <2>2. PICK l \in Wrong : \A m \in Wrong : l <= m
    BY <2>1, LittleV!LeastOf
  <2>3. l \in 0 .. N /\ iter[l] # f[l]
    OBVIOUS
  <2>4. CASE l = 0
    BY <1>2, <1>6, <2>3, <2>4
  <2>5. CASE l # 0
    <3>1. l - 1 \in 0 .. N /\ l \in 1 .. N /\ ~(l <= l - 1)
      BY <1>1, <2>3, <2>5
    <3>2. iter[l - 1] = f[l - 1]
      BY <2>2, <3>1
    <3> HIDE DEF Wrong
    <3>3. iter[l] = iter[l - 1] + Bytes(wrote[l])
      BY <1>6, <2>3, <2>5
    <3>4. f[l] = f[l - 1] + Bytes(wrote[l])
      BY <1>2, <3>1
    <3> QED BY <2>3, <3>2, <3>3, <3>4
  <2> QED BY <2>4, <2>5
<1> QED BY <1>3, <1>7 DEF N

\* The view of what a span of so many bytes holds, read as far as p.
ReadTo(len, p) == [buf |-> Buf, len |-> len, pos |-> p, err |-> FALSE]

LEMMA ReadOn == ASSUME NEW len, NEW p, NEW q PROVE [ReadTo(len, p) EXCEPT !.pos = q] = ReadTo(len, q)
<1>1. ReadTo(len, p) = [buf |-> Buf, len |-> len, pos |-> p, err |-> FALSE]
  BY DEF ReadTo
<1>2. PICK b : b = Buf
  OBVIOUS
<1>3. ASSUME NEW no \in BOOLEAN
      PROVE  [[buf |-> b, len |-> len, pos |-> p, err |-> no] EXCEPT !.pos = q]
               = [buf |-> b, len |-> len, pos |-> q, err |-> no]
  BY ONLY no \in BOOLEAN
<1> QED BY <1>1, <1>2, <1>3 DEF ReadTo

LEMMA ViewTakes ==
  ASSUME NEW len \in Nat, NEW p \in Nat, p <= len, NEW bytes \in Nat
  PROVE  /\ Takes(ReadTo(len, p), bytes) <=> p + bytes <= len
         /\ p + bytes <= len => Taken(ReadTo(len, p), bytes) = ReadTo(len, p + bytes)
<1>1. /\ ReadTo(len, p).buf = 2 /\ ~ReadTo(len, p).err /\ ReadTo(len, p).pos = p
      /\ ReadTo(len, p).len = len
  BY DEF ReadTo, Buf
<1>2. Takes(ReadTo(len, p), bytes) <=> p + bytes <= len
  BY <1>1 DEF Takes, Null
<1>3. ASSUME p + bytes <= len PROVE Taken(ReadTo(len, p), bytes) = ReadTo(len, p + bytes)
  <2>1. Taken(ReadTo(len, p), bytes) = [ReadTo(len, p) EXCEPT !.pos = @ + bytes]
    BY <1>2, <1>3, Zenon DEF Taken
  <2>2. [ReadTo(len, p) EXCEPT !.pos = @ + bytes] = [ReadTo(len, p) EXCEPT !.pos = p + bytes]
    BY <1>1
  <2>3. [ReadTo(len, p) EXCEPT !.pos = p + bytes] = ReadTo(len, p + bytes)
    BY ReadOn
  <2> QED BY <2>1, <2>2, <2>3
<1> QED BY <1>2, <1>3

LEMMA ViewsAre ==
  ASSUME Shaped(span), wrote \in Seq(Asked), NEW f, Starts(f, wrote), Holds(span, wrote, f),
         ~span.span.overflow
  PROVE  \A n \in 0 .. Len(wrote) : Views[n] = ReadTo(span.span.pos, f[n])
<1> DEFINE N == Len(wrote)
           len == span.span.pos
           Step(v, n) == Taken(v, Bytes(wrote[n]))
           Folds(g) == g = [n \in 0 .. N |-> IF n = 0 THEN Produced(span.span) ELSE Step(g[n - 1], n)]
           iter == CHOOSE g : Folds(g)
           At(n) == ReadTo(len, f[n])
<1>1. N \in Nat /\ \A n \in 1 .. N : wrote[n] \in Asked
  OBVIOUS
<1>2. /\ f \in [0 .. N -> Nat] /\ f[0] = 0
      /\ \A n \in 1 .. N : f[n] = f[n - 1] + Bytes(wrote[n])
      /\ \A n \in 0 .. N : f[n] <= f[N]
  BY DEF Starts
<1>3. len = f[N] /\ len \in Nat /\ span.span.buf = Buf
  BY SpansAre DEF Holds, Shaped, Buf
<1>4. Views = iter
  BY DEF Views
<1>5. Produced(span.span) = At(0)
  <2>1. Produced(span.span) = [buf |-> Buf, len |-> len, pos |-> 0, err |-> FALSE]
    <3>1. (IF len < len THEN len ELSE len) = len /\ ~(len > len)
      BY <1>3
    <3> QED BY <1>3, <3>1, Zenon DEF Produced, View
  <2> QED BY <1>2, <2>1 DEF ReadTo
<1>6. ASSUME NEW n \in 1 .. N PROVE Step(At(n - 1), n) = At(n)
  <2>1. n - 1 \in 0 .. N /\ n \in 0 .. N
    BY <1>1
  <2>2. f[n - 1] \in Nat /\ f[n - 1] <= len /\ f[n] <= len /\ f[n] = f[n - 1] + Bytes(wrote[n])
    BY <1>2, <1>3, <2>1
  <2>3. Bytes(wrote[n]) \in Nat
    BY <1>1, AskedIs
  <2> HIDE DEF len
  <2> QED BY <1>3, <2>2, <2>3, ViewTakes
<1> HIDE DEF N, Step, At
<1>7. Folds([n \in 0 .. N |-> At(n)])
  <2> DEFINE g == [n \in 0 .. N |-> At(n)]
             Body(n) == IF n = 0 THEN Produced(span.span) ELSE Step(g[n - 1], n)
  <2>1. \A n \in 0 .. N : g[n] = At(n)
    OBVIOUS
  <2> HIDE DEF g
  <2>2. ASSUME NEW n \in 0 .. N PROVE At(n) = Body(n)
    <3>1. CASE n = 0
      BY <1>5, <3>1
    <3>2. CASE n # 0
      <4>1. n \in 1 .. N /\ n - 1 \in 0 .. N
        BY <1>1, <3>2
      <4> QED BY <1>6, <2>1, <3>2, <4>1
    <3> QED BY <3>1, <3>2
  <2> HIDE DEF Body
  <2>3. [n \in 0 .. N |-> At(n)] = [n \in 0 .. N |-> Body(n)]
    BY <2>2
  <2> QED BY <2>3 DEF g, Body
<1> HIDE DEF Folds
<1>8. Folds(iter)
  BY <1>7
<1> HIDE DEF iter
<1>9. \A n \in 0 .. N : iter[n] = IF n = 0 THEN Produced(span.span) ELSE Step(iter[n - 1], n)
  <2> DEFINE Body(n) == IF n = 0 THEN Produced(span.span) ELSE Step(iter[n - 1], n)
  <2>1. iter = [n \in 0 .. N |-> Body(n)]
    BY <1>8 DEF Folds
  <2> HIDE DEF Body
  <2>2. \A n \in 0 .. N : iter[n] = Body(n)
    BY <2>1
  <2> QED BY <2>2 DEF Body
<1>10. \A n \in 0 .. N : iter[n] = At(n)
  <2> DEFINE Wrong == {n \in 0 .. N : iter[n] # At(n)}
  <2> SUFFICES ASSUME Wrong # {} PROVE FALSE
    OBVIOUS
  <2>1. Wrong \in SUBSET Nat
    BY <1>1
  <2>2. PICK l \in Wrong : \A m \in Wrong : l <= m
    BY <2>1, LittleV!LeastOf
  <2>3. l \in 0 .. N /\ iter[l] # At(l)
    OBVIOUS
  <2>4. CASE l = 0
    BY <1>5, <1>9, <2>3, <2>4
  <2>5. CASE l # 0
    <3>1. l - 1 \in 0 .. N /\ l \in 1 .. N /\ ~(l <= l - 1)
      BY <1>1, <2>3, <2>5
    <3>2. iter[l - 1] = At(l - 1)
      BY <2>2, <3>1
    <3> HIDE DEF Wrong
    <3>3. iter[l] = Step(iter[l - 1], l)
      BY <1>9, <2>3, <2>5
    <3> QED BY <1>6, <2>3, <3>1, <3>2, <3>3
  <2> QED BY <2>4, <2>5
<1> QED BY <1>4, <1>10 DEF N, At

LEMMA PartOf ==
  ASSUME NEW S, NEW s \in Seq(S), NEW m \in Nat, NEW n \in Nat, m <= n, n <= Len(s)
  PROVE  /\ SubSeq(s, m + 1, n) \in Seq(S) /\ Len(SubSeq(s, m + 1, n)) = n - m
         /\ \A i \in 1 .. n - m : SubSeq(s, m + 1, n)[i] = s[m + i]
<1> DEFINE len == Len(s)
           sub == SubSeq(s, m + 1, n)
<1>1. len \in Nat /\ n <= len /\ s \in Seq(S)
  OBVIOUS
<1>2. \A i \in 1 .. len : s[i] \in S
  BY ElementOf
<1>3. sub = [i \in 1 .. n - (m + 1) + 1 |-> s[i + (m + 1) - 1]]
  OBVIOUS
<1> HIDE DEF len, sub
<1>4. n - (m + 1) + 1 = n - m /\ n - m \in Nat
  OBVIOUS
<1>5. \A i \in 1 .. n - m : i + (m + 1) - 1 = m + i /\ m + i \in 1 .. len
  BY <1>1
<1>6. sub = [i \in 1 .. n - m |-> s[m + i]]
  BY <1>3, <1>4, <1>5
<1>7. [i \in 1 .. n - m |-> s[m + i]] \in [1 .. n - m -> S]
  BY <1>2, <1>5
<1> QED BY <1>4, <1>6, <1>7 DEF sub

SameBytesSeq(s, t) == s \in Seq(0 .. 255) /\ t \in Seq(0 .. 255) /\ Len(s) = Len(t) /\ \A k \in 1 .. Len(s) : s[k] = t[k]

LEMMA SameRuns == ASSUME NEW s, NEW t, SameBytesSeq(s, t) PROVE s = t
<1>1. Seq(0 .. 255) \subseteq Seq(Int)
  <2>1. 0 .. 255 \subseteq Int
    OBVIOUS
  <2> QED BY ONLY <2>1, SeqsWithin
<1> QED BY <1>1, SameSeq DEF SameBytesSeq

\* What a view of the span reads.
Shown(view) ==
  /\ Memory(view) \in Seq(0 .. 255) /\ Len(Memory(view)) = view.len
  /\ \A k \in 1 .. view.len : Memory(view)[k] = span.mem[view.buf + k - 1]

LEMMA ViewReads ==
  ASSUME Shaped(span), NEW view, view.len \in Nat, view.buf \in Int,
         \A k \in 1 .. view.len : view.buf + k - 1 \in DOMAIN span.mem
  PROVE  Shown(view)
<1>1. span.mem \in [DOMAIN span.mem -> 0 .. 255]
  BY SpansAre DEF Shaped
<1>2. \A k \in 1 .. view.len : span.mem[view.buf + k - 1] \in 0 .. 255
  BY <1>1
<1>3. Memory(view) = [k \in 1 .. view.len |-> span.mem[view.buf + k - 1]]
  BY DEF Memory
<1>4. [k \in 1 .. view.len |-> span.mem[view.buf + k - 1]] \in [1 .. view.len -> 0 .. 255]
  BY <1>2
<1> DEFINE len == view.len
           M == Memory(view)
           Byte1(k) == span.mem[view.buf + k - 1]
<1>5. len \in Nat /\ M = [k \in 1 .. len |-> Byte1(k)] /\ M \in [1 .. len -> 0 .. 255]
  BY <1>3, <1>4
<1> HIDE DEF len, M, Byte1
<1>6. M \in Seq(0 .. 255) /\ Len(M) = len /\ \A k \in 1 .. len : M[k] = Byte1(k)
  BY <1>5
<1> QED BY <1>6 DEF Shown, len, M, Byte1

\* A span with room for all its appends, which begin and end where f says.
Fits(f) ==
  /\ Shaped(span) /\ wrote \in Seq(Asked)
  /\ Starts(f, wrote) /\ Holds(span, wrote, f) /\ ~span.span.overflow

\* Where append n stands.
Stands(f, n) ==
  /\ n \in 1 .. Len(wrote) /\ wrote[n] \in Asked
  /\ f[n - 1] \in Nat /\ f[n] \in Nat /\ f[n] = f[n - 1] + Bytes(wrote[n]) /\ f[n] <= span.span.pos
  /\ Sums[n - 1] = f[n - 1] /\ Sums[n] = f[n]
  /\ Views[n - 1] = ReadTo(span.span.pos, f[n - 1])
  /\ Laid(span.mem, Buf + f[n - 1], wrote[n])

LEMMA FitsStands ==
  ASSUME NEW f, Fits(f)
  PROVE  /\ span.span.pos \in Nat /\ span.span.cap \in Nat /\ span.span.pos <= span.span.cap
         /\ span.span.buf = 2 /\ Buf = 2 /\ DOMAIN span.mem = 0 .. Buf + span.span.cap + 2
         /\ Sums[Len(wrote)] = span.span.pos
         /\ Views[Len(wrote)] = ReadTo(span.span.pos, span.span.pos)
         /\ \A n \in 1 .. Len(wrote) : Stands(f, n)
<1> DEFINE N == Len(wrote)
<1>1. N \in Nat /\ N \in 0 .. N /\ \A n \in 1 .. N : n - 1 \in 0 .. N /\ n \in 0 .. N
  BY DEF Fits
<1>2. \A n \in 0 .. N : Sums[n] = f[n] /\ Views[n] = ReadTo(span.span.pos, f[n])
  BY SumsAre, ViewsAre DEF Fits
<1>3. /\ f \in [0 .. N -> Nat] /\ \A n \in 1 .. N : f[n] = f[n - 1] + Bytes(wrote[n])
      /\ \A n \in 0 .. N : f[n] <= f[N]
  BY DEF Fits, Starts
<1>4. /\ span.span.pos = f[N] /\ ~(span.span.pos > span.span.cap)
      /\ \A n \in 1 .. N : Laid(span.mem, Buf + f[n - 1], wrote[n])
  BY DEF Fits, Holds, AllLaid
<1>5. \A n \in 1 .. N : wrote[n] \in Asked
  BY ElementOf DEF Fits
<1>6. span.span.pos \in Nat /\ span.span.cap \in Nat /\ span.span.buf = 2 /\ Buf = 2
      /\ DOMAIN span.mem = 0 .. Buf + span.span.cap + 2
  BY SpansAre DEF Fits, Shaped, Buf
<1> HIDE DEF N
<1>7. ASSUME NEW n \in 1 .. N PROVE Stands(f, n)
  <2>1. n - 1 \in 0 .. N /\ n \in 0 .. N
    BY <1>1
  <2>2. f[n - 1] \in Nat /\ f[n] \in Nat /\ f[n] <= span.span.pos
    BY <1>3, <1>4, <2>1
  <2> QED BY <1>2, <1>3, <1>4, <1>5, <2>1, <2>2 DEF Stands, N
<1> QED BY <1>1, <1>2, <1>4, <1>6, <1>7 DEF N

\* What the span produced, as a run of bytes.
LEMMA WholeReads ==
  ASSUME NEW f, Fits(f)
  PROVE  /\ Memory(Produced(span.span)) \in Seq(0 .. 255)
         /\ Len(Memory(Produced(span.span))) = span.span.pos
         /\ \A k \in 1 .. span.span.pos : Memory(Produced(span.span))[k] = span.mem[Buf + k - 1]
<1> DEFINE pos == span.span.pos
           view == Produced(span.span)
<1>1. /\ pos \in Nat /\ span.span.cap \in Nat /\ pos <= span.span.cap
      /\ span.span.buf = 2 /\ Buf = 2 /\ DOMAIN span.mem = 0 .. Buf + span.span.cap + 2
  BY FitsStands
<1>2. view.buf = 2 /\ view.len = pos
  BY <1>1 DEF Produced, View
<1> HIDE DEF view
<1>3. \A k \in 1 .. pos : 2 + k - 1 \in DOMAIN span.mem
  BY <1>1
<1>4. Shown(view)
  BY <1>1, <1>2, <1>3, ViewReads DEF Fits
<1> QED BY <1>1, <1>2, <1>4 DEF Shown, view

\* A width appended is the width taken where it stands.
LEMMA WidthTaken ==
  ASSUME NEW f, Fits(f), NEW n, Stands(f, n), wrote[n].kind = "be"
  PROVE  TakeBe(span.mem, ReadTo(span.span.pos, f[n - 1]), wrote[n].width)
           = [view |-> ReadTo(span.span.pos, f[n]), ok |-> TRUE,
              value |-> Kept(wrote[n].value, wrote[n].width)]
<1> DEFINE pos == span.span.pos
           from == f[n - 1]
           width == wrote[n].width
           V == wrote[n].value
           view == ReadTo(pos, from)
           at == Buf + from
<1>1. /\ width \in {4, 7, 8} /\ V \in SUBSET Wide /\ Bytes(wrote[n]) = width
      /\ wrote[n].kind = "be"
  BY AskedIs DEF Stands
<1>2. from \in Nat /\ f[n] = from + width /\ f[n] <= pos /\ pos \in Nat
  BY <1>1, FitsStands DEF Stands
<1>3. \A k \in at .. at + width - 1 : span.mem[k] = BeByte(V, width, k - at)
  BY <1>1 DEF Stands, Laid, ByteIs
<1>4. width \in Nat /\ from <= pos /\ from + width <= pos
  BY <1>1, <1>2
<1> HIDE DEF pos, from, width, V
<1>5. Takes(view, width) /\ Taken(view, width) = ReadTo(pos, f[n])
  BY <1>2, <1>4, ViewTakes
<1>6. view.buf = Buf /\ view.pos = from
  BY DEF ReadTo
<1>7. at \in Int
  BY <1>2 DEF Buf
<1>8. E!Rev(Gathered(span.mem, at, Pieces(width)), width) = Kept(V, width)
  BY <1>1, <1>3, <1>7, TakenIs
<1> HIDE DEF view
<1>9. TakeBe(span.mem, view, width)
        = [view |-> Taken(view, width), ok |-> Takes(view, width),
           value |-> IF Takes(view, width)
                     THEN E!Rev(Gathered(span.mem, view.buf + view.pos, Pieces(width)), width) ELSE {}]
  BY Zenon DEF TakeBe
<1>10. Takes(view, width) = TRUE
  <2>1. Takes(view, width) \in BOOLEAN
    BY DEF Takes
  <2> QED BY <1>5, <2>1
<1>11. TakeBe(span.mem, view, width) = [view |-> ReadTo(pos, f[n]), ok |-> TRUE, value |-> Kept(V, width)]
  <2>1. view.buf + view.pos = at
    BY <1>6
  <2> QED BY ONLY <1>5, <1>8, <1>9, <1>10, <2>1
<1> QED BY <1>11 DEF pos, from, width, V, view

LEMMA RunIs ==
  ASSUME NEW f, Fits(f), NEW n, Stands(f, n), wrote[n].kind # "be"
  PROVE  SubSeq(Memory(Produced(span.span)), Sums[n - 1] + 1, Sums[n]) = wrote[n].src
<1> DEFINE pos == span.span.pos
           M == Memory(Produced(span.span))
           from == f[n - 1]
           to == f[n]
           src == wrote[n].src
           sub == SubSeq(M, from + 1, to)
<1>1. src \in Seq(0 .. 255) /\ Bytes(wrote[n]) = Len(src)
  BY AskedIs DEF Stands
<1>2. from \in Nat /\ to \in Nat /\ to = from + Len(src) /\ to <= pos
  BY <1>1 DEF Stands
<1>3. M \in Seq(0 .. 255) /\ Len(M) = pos /\ \A k \in 1 .. pos : M[k] = span.mem[Buf + k - 1]
  BY WholeReads
<1>4. \A k \in Buf + from .. Buf + from + Len(src) - 1 : span.mem[k] = src[k - (Buf + from) + 1]
  BY <1>1 DEF Stands, Laid, ByteIs
<1>5. Sums[n - 1] = from /\ Sums[n] = to
  BY DEF Stands
<1>6. pos \in Nat /\ Buf = 2 /\ Len(src) \in Nat
  BY <1>1, FitsStands
<1> HIDE DEF pos, M, from, to, src
<1>7. from <= to /\ to - from = Len(src)
  BY <1>2, <1>6
<1>8. sub \in Seq(0 .. 255) /\ Len(sub) = to - from /\ \A i \in 1 .. to - from : sub[i] = M[from + i]
  BY <1>2, <1>3, <1>7, PartOf
<1> HIDE DEF sub
<1>9. ASSUME NEW i \in 1 .. Len(src) PROVE sub[i] = src[i]
  <2>1. PICK k \in 1 .. pos : k = from + i
    <3>1. from + i \in 1 .. pos
      BY <1>2, <1>6
    <3> QED BY <3>1
  <2>2. PICK a \in 2 + from .. 2 + from + Len(src) - 1 : a = 2 + k - 1 /\ a - (2 + from) + 1 = i
    <3>1. 2 + k - 1 \in 2 + from .. 2 + from + Len(src) - 1 /\ (2 + k - 1) - (2 + from) + 1 = i
      BY <1>2, <1>6, <2>1
    <3> QED BY <3>1
  <2>3. sub[i] = M[k]
    BY <1>7, <1>8, <2>1
  <2>4. M[k] = span.mem[a]
    BY <1>3, <1>6, <2>2
  <2>5. span.mem[a] = src[i]
    BY <1>4, <1>6, <2>2
  <2> QED BY <2>3, <2>4, <2>5
<1>10. SameBytesSeq(sub, src)
  BY <1>1, <1>7, <1>8, <1>9 DEF SameBytesSeq
<1>11. sub = src
  BY <1>10, SameRuns
<1> QED BY <1>5, <1>11 DEF sub, M, src

LEMMA AppendMirrors ==
  ASSUME NEW f, Fits(f), NEW n, Stands(f, n)
  PROVE  Mirrors(n)
<1> DEFINE view == Views[n - 1]
           got == TakeBe(span.mem, view, wrote[n].width)
<1>1. view = ReadTo(span.span.pos, f[n - 1])
  BY DEF Stands
<1>2. ASSUME wrote[n].kind = "be"
      PROVE  got.ok /\ got.value = wrote[n].value \cap 0 .. 8 * wrote[n].width - 1
  <2>1. got = [view |-> ReadTo(span.span.pos, f[n]), ok |-> TRUE,
               value |-> Kept(wrote[n].value, wrote[n].width)]
    BY <1>1, <1>2, WidthTaken
  <2> HIDE DEF got
  <2> QED BY <2>1 DEF Kept
<1>3. ASSUME wrote[n].kind # "be" PROVE Takes(view, Len(wrote[n].src))
  <2>1. Bytes(wrote[n]) = Len(wrote[n].src) /\ Bytes(wrote[n]) \in Nat
    BY <1>3, AskedIs DEF Stands
  <2>2. span.span.pos \in Nat /\ f[n - 1] \in Nat /\ f[n - 1] + Bytes(wrote[n]) <= span.span.pos
    BY FitsStands DEF Stands
  <2>3. f[n - 1] <= span.span.pos
    BY <2>1, <2>2
  <2>4. PICK pos \in Nat, p \in Nat, b \in Nat : pos = span.span.pos /\ p = f[n - 1] /\ b = Bytes(wrote[n])
    BY <2>1, <2>2
  <2>5. Takes(ReadTo(pos, p), b)
    BY <2>2, <2>3, <2>4, ViewTakes
  <2> HIDE DEF view
  <2> QED BY <1>1, <2>1, <2>4, <2>5
<1>4. wrote[n].kind # "be" =>
        SubSeq(Memory(Produced(span.span)), Sums[n - 1] + 1, Sums[n]) = wrote[n].src
  BY RunIs
<1> HIDE DEF view
<1> QED BY <1>2, <1>3, <1>4, Zenon DEF Mirrors, view, got

(* A run of bytes after its length.                                        *)
\* A view that failed at p.
Stopped(len, p) == [ReadTo(len, p) EXCEPT !.err = TRUE]

\* RdStr of a length of four that stands in the span, by the length and where it ends.
RunRead(mem, pos, was, from, bytes) ==
  IF from + bytes <= pos
  THEN [view |-> ReadTo(pos, from + bytes), ok |-> TRUE, blob |-> [k \in 1 .. bytes |-> mem[Buf + from + k - 1]]]
  ELSE [view |-> Stopped(pos, was), ok |-> FALSE, blob |-> <<>>]

LEMMA StoppedIs ==
  ASSUME NEW len, NEW p
  PROVE  Stopped(len, p) = [buf |-> Buf, len |-> len, pos |-> p, err |-> TRUE]
<1>1. PICK b : b = Buf
  OBVIOUS
<1>2. ASSUME NEW no \in BOOLEAN, NEW yes \in BOOLEAN
      PROVE  [[buf |-> b, len |-> len, pos |-> p, err |-> no] EXCEPT !.err = yes]
               = [buf |-> b, len |-> len, pos |-> p, err |-> yes]
  BY ONLY no \in BOOLEAN, yes \in BOOLEAN
<1> QED BY <1>1, <1>2 DEF ReadTo, Stopped

LEMMA StoppedBack ==
  ASSUME NEW len, NEW p, NEW q, NEW r, r = Stopped(len, p)
  PROVE  [r EXCEPT !.pos = q] = Stopped(len, q)
<1>1. PICK b : b = Buf
  OBVIOUS
<1>2. ASSUME NEW yes \in BOOLEAN
      PROVE  [[buf |-> b, len |-> len, pos |-> p, err |-> yes] EXCEPT !.pos = q]
               = [buf |-> b, len |-> len, pos |-> q, err |-> yes]
  BY ONLY yes \in BOOLEAN
<1>3. r = [buf |-> b, len |-> len, pos |-> p, err |-> TRUE]
  BY <1>1, StoppedIs
<1>4. [r EXCEPT !.pos = q] = [buf |-> b, len |-> len, pos |-> q, err |-> TRUE]
  BY ONLY <1>2, <1>3
<1> QED BY <1>1, <1>4, StoppedIs

LEMMA RunTaken ==
  ASSUME NEW f, Fits(f), NEW n, Stands(f, n), wrote[n].kind = "be", wrote[n].width = 4
  PROVE  RdStr(span.mem, Views[n - 1])
           = RunRead(span.mem, span.span.pos, f[n - 1], f[n], E!NumberOf(wrote[n].value))
<1> DEFINE mem == span.mem
           pos == span.span.pos
           was == f[n - 1]
           from == f[n]
           V == wrote[n].value
           bytes == E!NumberOf(V)
           view == Views[n - 1]
           length == TakeBe(mem, view, 4)
           asked == IF length.value \subseteq 0 .. 29 THEN E!NumberOf(length.value) ELSE 2^30
           run == Taken(length.view, asked)
<1>1. V \in SUBSET ValueBits
  BY AskedIs DEF Stands
<1>2. bytes \in Nat /\ V \subseteq 0 .. 29
  BY <1>1, LengthIs
<1>3. was \in Nat /\ from \in Nat /\ from <= pos /\ pos \in Nat /\ view = ReadTo(pos, was)
  BY FitsStands DEF Stands
<1>4. Kept(V, 4) = V
  <2>1. 0 .. 29 \subseteq 0 .. 8 * 4 - 1
    OBVIOUS
  <2> QED BY <1>2, <2>1 DEF Kept
<1>5. length = [view |-> ReadTo(pos, from), ok |-> TRUE, value |-> V]
  BY <1>3, <1>4, WidthTaken
<1> HIDE DEF bytes
<1>6. RdStr(mem, view) =
        CASE ~length.ok -> [view |-> length.view, ok |-> FALSE, blob |-> <<>>]
          [] length.ok /\ ~Takes(length.view, asked) ->
               [view |-> [run EXCEPT !.pos = view.pos], ok |-> FALSE, blob |-> <<>>]
          [] OTHER -> [view |-> run, ok |-> TRUE,
                       blob |-> [k \in 1 .. asked |-> mem[view.buf + length.view.pos + k - 1]]]
  BY Zenon DEF RdStr
<1> HIDE DEF length, view
<1>7. length.view = ReadTo(pos, from) /\ length.ok /\ length.value = V
  BY <1>5
<1>8. asked = bytes
  BY <1>2, <1>7 DEF bytes
<1>9. view.buf = Buf /\ view.pos = was /\ length.view.pos = from
  BY <1>3, <1>7 DEF ReadTo
<1> HIDE DEF asked, mem, pos, from, was, V
<1>10. CASE from + bytes <= pos
  <2>1. Takes(length.view, asked) /\ run = ReadTo(pos, from + bytes)
    <3>1. pos \in Nat /\ from \in Nat /\ from <= pos /\ bytes \in Nat
      BY ONLY <1>2, <1>3, Zenon
    <3>2. /\ Takes(ReadTo(pos, from), bytes) <=> from + bytes <= pos
          /\ from + bytes <= pos => Taken(ReadTo(pos, from), bytes) = ReadTo(pos, from + bytes)
      BY ONLY <3>1, ViewTakes, Zenon
    <3>3. length.view = ReadTo(pos, from) /\ asked = bytes
      BY ONLY <1>7, <1>8, Zenon
    <3>4. Takes(length.view, asked) /\ Taken(length.view, asked) = ReadTo(pos, from + bytes)
      BY ONLY <1>10, <3>2, <3>3
    <3> QED BY ONLY <3>4
  <2>2. RdStr(mem, view) = [view |-> run, ok |-> TRUE,
                            blob |-> [k \in 1 .. asked |-> mem[view.buf + length.view.pos + k - 1]]]
    BY <1>6, <1>7, <2>1, Zenon
  <2>3. RdStr(mem, view) = [view |-> ReadTo(pos, from + bytes), ok |-> TRUE,
                            blob |-> [k \in 1 .. bytes |-> mem[Buf + from + k - 1]]]
    BY ONLY <1>8, <1>9, <2>1, <2>2
  <2> QED BY <1>10, <2>3 DEF RunRead, mem, pos, from, was, V, bytes, view
<1>11. CASE ~(from + bytes <= pos)
  <2>1. ~Takes(length.view, asked)
    BY <1>2, <1>3, <1>7, <1>8, <1>11, ViewTakes
  <2>2. RdStr(mem, view) = [view |-> [run EXCEPT !.pos = view.pos], ok |-> FALSE, blob |-> <<>>]
    BY <1>6, <1>7, <2>1, Zenon
  <2>3. run = Stopped(pos, from)
    BY <1>7, <2>1, Zenon DEF Taken, Stopped
  <2>4. [run EXCEPT !.pos = view.pos] = Stopped(pos, was)
    <3>1. [run EXCEPT !.pos = view.pos] = [run EXCEPT !.pos = was]
      BY <1>9
    <3> HIDE DEF run
    <3>2. PICK r : r = run
      OBVIOUS
    <3>3. [r EXCEPT !.pos = was] = Stopped(pos, was)
      BY ONLY <2>3, <3>2, StoppedBack
    <3> QED BY ONLY <3>1, <3>2, <3>3, Zenon
  <2> QED BY <1>11, <2>2, <2>4 DEF RunRead, mem, pos, from, was, V, bytes, view
<1> QED BY <1>10, <1>11

LEMMA AppendRuns ==
  ASSUME NEW f, Fits(f), NEW n, Stands(f, n)
  PROVE  RunsRead(n)
<1> SUFFICES ASSUME wrote[n].kind = "be", wrote[n].width = 4
             PROVE  RunsRead(n)
  BY Zenon DEF RunsRead
<1> DEFINE M == Memory(Produced(span.span))
           pos == span.span.pos
           was == f[n - 1]
           from == f[n]
           bytes == E!NumberOf(wrote[n].value)
           got == RdStr(span.mem, Views[n - 1])
           to == from + bytes
           blob == [k \in 1 .. bytes |-> span.mem[Buf + from + k - 1]]
           sub == SubSeq(M, from + 1, to)
<1>1. bytes \in Nat /\ Bytes(wrote[n]) = 4
  BY AskedIs, LengthIs DEF Stands
<1>2. was \in Nat /\ from \in Nat /\ from = was + 4 /\ pos \in Nat /\ Buf = 2
  BY <1>1, FitsStands DEF Stands
<1>3. Sums[n - 1] + 4 = from /\ Sums[Len(wrote)] = pos /\ Views[n - 1] = ReadTo(pos, was)
  BY <1>2, FitsStands DEF Stands
<1>4. got = RunRead(span.mem, pos, was, from, bytes)
  BY RunTaken
<1>5. M \in Seq(0 .. 255) /\ Len(M) = pos /\ \A k \in 1 .. pos : M[k] = span.mem[Buf + k - 1]
  BY WholeReads
<1> HIDE DEF got, bytes, pos, was, from, M
<1>6. CASE to <= pos
  <2>1. got = [view |-> ReadTo(pos, to), ok |-> TRUE, blob |-> blob]
    BY <1>4, <1>6 DEF RunRead
  <2> HIDE DEF blob
  <2>2. got.ok = TRUE /\ got.view = ReadTo(pos, to) /\ got.blob = blob
    BY <2>1
  <2>3. got.view = [Views[n - 1] EXCEPT !.pos = to]
    BY <1>3, <2>2, ReadOn
  <2>4. from <= to /\ to \in Nat /\ to - from = bytes
    BY <1>1, <1>2
  <2>5. sub \in Seq(0 .. 255) /\ Len(sub) = to - from /\ \A i \in 1 .. to - from : sub[i] = M[from + i]
    <3>1. PICK y \in Nat : y = to
      BY <2>4
    <3>2. from <= y /\ y <= Len(M)
      BY <1>5, <1>6, <2>4, <3>1
    <3>3. /\ SubSeq(M, from + 1, y) \in Seq(0 .. 255) /\ Len(SubSeq(M, from + 1, y)) = y - from
          /\ \A i \in 1 .. y - from : SubSeq(M, from + 1, y)[i] = M[from + i]
      BY ONLY <1>2, <1>5, <3>1, <3>2, PartOf, y \in Nat
    <3> QED BY ONLY <3>1, <3>3 DEF sub
  <2> HIDE DEF sub
  <2>6. \A i \in 1 .. bytes : from + i \in 1 .. pos /\ Buf + (from + i) - 1 = Buf + from + i - 1
    BY <1>1, <1>2, <1>6
  <2>7. \A i \in 1 .. bytes : sub[i] = span.mem[Buf + from + i - 1]
    BY <1>5, <2>4, <2>5, <2>6
  <2>8. sub = blob
    <3>1. sub = [i \in 1 .. bytes |-> sub[i]]
      BY <2>4, <2>5
    <3> QED BY <2>7, <3>1 DEF blob
  <2> QED BY <1>3, <1>6, <2>2, <2>3, <2>8, Zenon DEF RunsRead, got, bytes, sub, M
<1>7. CASE ~(to <= pos)
  <2>1. got = [view |-> Stopped(pos, was), ok |-> FALSE, blob |-> <<>>]
    BY <1>4, <1>7 DEF RunRead
  <2>2. got.ok = FALSE /\ got.view = [Views[n - 1] EXCEPT !.err = TRUE]
    BY <1>3, <2>1 DEF Stopped
  <2>3. got.ok = (to <= pos) /\ ~got.ok
    <3>1. (to <= pos) = FALSE
      BY <1>7
    <3> QED BY <2>2, <3>1, Zenon
  <2> QED BY <1>3, <2>2, <2>3, Zenon DEF RunsRead, got, bytes
<1> QED BY <1>6, <1>7

(* A span in two parts, and all that is said of one.                       *)
LEMMA JoinIs ==
  ASSUME NEW S, NEW s \in Seq(S), NEW t \in Seq(S)
  PROVE  /\ s \o t \in Seq(S) /\ Len(s \o t) = Len(s) + Len(t)
         /\ \A k \in 1 .. Len(s) + Len(t) : (s \o t)[k] = IF k <= Len(s) THEN s[k] ELSE t[k - Len(s)]
OBVIOUS

LEMMA SpanParts ==
  ASSUME NEW f, Fits(f)
  PROVE  Parted
<1> DEFINE sp == span.span
           pos == sp.pos
           cap == sp.cap
           M == Memory(Produced(sp))
<1>1. /\ pos \in Nat /\ cap \in Nat /\ pos <= cap /\ sp.buf = 2 /\ Buf = 2
      /\ DOMAIN span.mem = 0 .. Buf + cap + 2 /\ Shaped(span)
  BY FitsStands DEF Fits
<1>2. M \in Seq(0 .. 255) /\ Len(M) = pos /\ \A k \in 1 .. pos : M[k] = span.mem[2 + k - 1]
  BY <1>1, WholeReads
<1>3. sp \in [buf : {Buf}, cap : Nat, pos : Nat, overflow : BOOLEAN]
  BY <1>1 DEF Shaped, Spans
<1> HIDE DEF sp, M
<1>4. ASSUME NEW n \in 0 .. cap
      PROVE  Memory(Produced(First(sp, n))) \o Memory(Produced(After(sp, n))) = M
  <2> DEFINE low == Produced(First(sp, n))
             high == Produced(After(sp, n))
  <2>1. PICK a \in Nat, b \in Nat : /\ a = (IF pos < n THEN pos ELSE n)
                                    /\ b = (IF pos > n THEN pos - n ELSE 0)
    BY <1>1
  <2>2. a <= n /\ a + b = pos /\ (b # 0 => a = n)
    BY <1>1, <2>1
  <2>3. low.buf = 2 /\ low.len = a
    <3>1. First(sp, n) = [sp EXCEPT !.cap = n, !.pos = IF @ < n THEN @ ELSE n]
      BY <1>1, <1>4 DEF First
    <3>2. First(sp, n).buf = 2 /\ First(sp, n).pos = a
      BY <1>1, <1>3, <2>1, <3>1
    <3>3. (IF a < a THEN a ELSE a) = a
      OBVIOUS
    <3> QED BY <3>2, <3>3 DEF Produced, View
  <2>4. high.buf = 2 + n /\ high.len = b
    <3>1. After(sp, n).buf = 2 + n /\ After(sp, n).pos = b
      BY <1>1, <1>4, <2>1 DEF After, Null
    <3>2. (IF b < b THEN b ELSE b) = b
      OBVIOUS
    <3> QED BY <3>1, <3>2 DEF Produced, View
  <2> HIDE DEF low, high
  <2>5. Shown(low)
    <3>1. \A k \in 1 .. a : 2 + k - 1 \in DOMAIN span.mem
      BY <1>1, <2>2
    <3> QED BY <1>1, <2>3, <3>1, ViewReads
  <2>6. Shown(high)
    <3>1. \A k \in 1 .. b : 2 + n + k - 1 \in DOMAIN span.mem
      BY <1>1, <2>2
    <3>2. 2 + n \in Int
      BY <1>1
    <3> QED BY <1>1, <2>4, <3>1, <3>2, ViewReads
  <2> DEFINE L == Memory(low)
             H == Memory(high)
  <2>7. L \in Seq(0 .. 255) /\ Len(L) = a /\ \A k \in 1 .. a : L[k] = span.mem[2 + k - 1]
    BY <2>3, <2>5 DEF Shown
  <2>8. H \in Seq(0 .. 255) /\ Len(H) = b /\ \A k \in 1 .. b : H[k] = span.mem[2 + n + k - 1]
    BY <2>4, <2>6 DEF Shown
  <2> HIDE DEF L, H
  <2>9. L \o H \in Seq(0 .. 255) /\ Len(L \o H) = a + b
        /\ \A k \in 1 .. a + b : (L \o H)[k] = IF k <= a THEN L[k] ELSE H[k - a]
    <3>1. /\ L \o H \in Seq(0 .. 255) /\ Len(L \o H) = Len(L) + Len(H)
          /\ \A k \in 1 .. Len(L) + Len(H) : (L \o H)[k] = IF k <= Len(L) THEN L[k] ELSE H[k - Len(L)]
      BY ONLY <2>7, <2>8, JoinIs
    <3>2. Len(L) = a /\ Len(H) = b
      BY <2>7, <2>8
    <3> QED BY ONLY <3>1, <3>2, Zenon
  <2>10. ASSUME NEW k \in 1 .. pos PROVE (L \o H)[k] = M[k]
    <3>1. k \in 1 .. a + b
      BY <2>2
    <3>2. M[k] = span.mem[2 + k - 1]
      BY <1>2
    <3>3. CASE k <= a
      <4>1. k \in 1 .. a
        BY <3>3
      <4> QED BY <2>7, <2>9, <3>1, <3>2, <3>3, <4>1
    <3>4. CASE ~(k <= a)
      <4>1. PICK i \in 1 .. b : i = k - a /\ 2 + n + i - 1 = 2 + k - 1
        <5>1. k - a \in 1 .. b /\ b # 0
          BY <3>1, <3>4
        <5>2. 2 + n + (k - a) - 1 = 2 + k - 1
          BY <2>2, <5>1
        <5> QED BY <5>1, <5>2
      <4> QED BY <2>8, <2>9, <3>1, <3>2, <3>4, <4>1
    <3> QED BY <3>3, <3>4
  <2>11. SameBytesSeq(L \o H, M)
    BY <1>2, <2>2, <2>9, <2>10 DEF SameBytesSeq
  <2>12. L \o H = M
    BY <2>11, SameRuns
  <2> QED BY <2>12 DEF L, H, low, high
<1> QED BY <1>4 DEF Parted, sp, M

LEMMA SpanMirrors == ASSUME SpanInv PROVE SpansMirror
<1>1. span \in Spans /\ Shaped(span)
  BY DEF SpanInv, SpanIs, Shaped
<1>2. CASE Meant(span, wrote)
  <2>1. PICK src \in Seq(0 .. 255) : wrote = <<[kind |-> "mpint", src |-> src]>> /\ MeantIn(span, src)
    BY <1>2 DEF Meant
  <2>2. wrote # <<>> /\ wrote[1].kind = "mpint" /\ wrote[1].src = src
    BY <2>1
  <2>3. Numbered
    BY <2>2 DEF Numbered
  <2>4. NumberMeant(src)
    BY <2>1, Zenon DEF NumberMeant, MeantIn, KeptOf, Memory, MemoryOf
  <2> QED BY <2>2, <2>3, <2>4, Zenon DEF SpansMirror
<1>3. CASE Appended(span, wrote)
  <2>1. PICK f : Starts(f, wrote) /\ Holds(span, wrote, f)
    BY <1>3 DEF Appended
  <2>2. wrote \in Seq(Asked)
    BY <1>3 DEF Appended
  <2>3. ~Numbered
    <3>1. ASSUME wrote # <<>> PROVE wrote[1].kind # "mpint"
      <4>1. 1 \in 1 .. Len(wrote)
        BY <2>2, <3>1
      <4>2. wrote[1] \in Asked
        BY ONLY <2>2, <4>1, ElementOf
      <4> QED BY <4>2, AskedIs
    <3> QED BY <3>1 DEF Numbered
  <2>4. Sums[Len(wrote)] = span.span.pos
    <3>1. Len(wrote) \in 0 .. Len(wrote)
      BY <2>2
    <3> QED BY <2>1, <2>2, <3>1, SumsAre DEF Holds
  <2>5. span.span.overflow = (Sums[Len(wrote)] > span.span.cap)
    <3>1. span.span.overflow \in BOOLEAN /\ span.span.cap \in Nat /\ span.span.pos \in Nat
      BY <1>1, SpansAre
    <3>2. span.span.overflow <=> span.span.pos > span.span.cap
      BY <2>1 DEF Holds
    <3> QED BY <2>4, <3>1, <3>2
  <2>6. ASSUME ~span.span.overflow
        PROVE  /\ \A n \in 1 .. Len(wrote) : Mirrors(n) /\ RunsRead(n)
               /\ ~Takes(Views[Len(wrote)], 1)
               /\ Parted
    <3>1. Fits(f)
      BY <1>1, <2>1, <2>2, <2>6 DEF Fits
    <3>2. \A n \in 1 .. Len(wrote) : Mirrors(n) /\ RunsRead(n)
      BY <3>1, FitsStands, AppendMirrors, AppendRuns
    <3>3. ~Takes(Views[Len(wrote)], 1)
      <4>1. PICK pos \in Nat : pos = span.span.pos /\ Views[Len(wrote)] = ReadTo(pos, pos)
        BY <3>1, FitsStands
      <4>2. ~(pos + 1 <= pos) /\ pos <= pos /\ 1 \in Nat
        OBVIOUS
      <4> QED BY <4>1, <4>2, ViewTakes
    <3>4. Parted
      BY <3>1, SpanParts
    <3> QED BY <3>2, <3>3, <3>4
  <2>7. span.span.overflow => ~Takes(Produced(span.span), 1)
    BY DEF Takes, Produced, View
  <2> QED BY <2>3, <2>4, <2>5, <2>6, <2>7, Zenon DEF SpansMirror
<1> QED BY <1>2, <1>3 DEF SpanInv, SpanIs

\* spatium.c, octetus_introitus_exitus.c and bitorum_introitus_exitus.c: in whatever order the
\* appends of SpanNext and the puts of BitNext come, as many as they may be, and for a span and a
\* writer of any size, what is read back is what was asked, in order; the cursor counts all that
\* was asked, what does not fit changes nothing and fails every read until a reset, and no byte
\* outside either is touched.
THEOREM ReadsMirrorWritesHolds == FluxSpec => []ReadsMirrorWrites
<1>1. FluxInit => SpanInv
  BY SpanStarts DEF SpanInv
<1>2. SpanInv /\ [SpanNext \/ BitNext]_fluxVars => SpanInv'
  BY SpanInvKept
<1>3. SpanInv /\ BitsMirror => ReadsMirrorWrites
  <2> SUFFICES ASSUME SpanInv, BitsMirror PROVE ReadsMirrorWrites
    OBVIOUS
  <2>1. \A k \in DOMAIN span.mem : k \notin Buf .. Buf + span.span.cap - 1 => span.mem[k] = 255
    BY DEF SpanInv, SpanIs, Shaped
  <2> QED BY <2>1, SpanMirrors, Zenon DEF ReadsMirrorWrites
<1> QED BY <1>1, <1>2, <1>3, BitsMirrorHolds, PTL DEF FluxSpec
=============================================================================
