------------------------------ MODULE VerbumScrutor ------------------------------
(***************************************************************************)
(* verbum_scrutor: tests over the bytes of one word, each byte a lane.  A  *)
(* lane mask has the high bit of every lane that matched.  The operators   *)
(* are the backends of verbum_scrutor.c, word for word; LaneWanted and     *)
(* MaskWanted say what each is for, byte by byte, and share no arithmetic  *)
(* with them.                                                              *)
(***************************************************************************)
EXTENDS Integers, Sequences, FiniteSets

CONSTANTS Lanes, BigEndian

LanesAssumption == Lanes \in {2, 4, 8} /\ BigEndian \in BOOLEAN

INSTANCE VerbaBitorum WITH WordBits <- 8 * Lanes

LaneIndexes == 0 .. Lanes - 1

\* The lane of the byte at offset m: the earlier byte is the lower lane of a little endian word.
LaneAt(m) == IF BigEndian THEN Lanes - 1 - m ELSE m

InLanes(lanes, bits) == {8 * l + b : l \in lanes, b \in bits}

Broadcast(byte) == InLanes(LaneIndexes, BitsOf(byte))

High == Broadcast(128)
Low7 == Broadcast(127)

\* The word whose lane l has bytes[l + 1].
Word(bytes) == UNION {InLanes({l}, BitsOf(bytes[l + 1])) : l \in LaneIndexes}
-----------------------------------------------------------------------------
(* The lane view. *)

Ge(w, byte) == (w \cap High) \cup (Minus(w \cup High, Broadcast(byte)) \cap High)

Le(w, byte) == Not(w) \cap Minus(Broadcast(byte) \cup High, w \ High) \cap High

Sub7(w, byte) == Minus(w \cup High, Broadcast(byte)) \cap Low7

\* Mutant: the borrow of a zero lane marks a one in the lane above it.
HasZeroCarried(w) == Minus(w, Broadcast(1)) \cap Not(w) \cap High

HasZero(w) == Not(Plus(w \cap Low7, Low7) \cup w) \cap High

Alpha(w) ==
  LET folded == w \cup Broadcast(32)
  IN  Ge(folded \cap Low7, 97) \cap Le(folded \cap Low7, 122) \cap Not(folded)

XorCase(w, val, ci) ==
  IF ci THEN Xor(w, val) \ ShiftDown(Alpha(w), 2) ELSE Xor(w, val)

Eq(w, byte, ci) == HasZero(XorCase(w, Broadcast(byte), ci))

FamEq(w, byte, fam) ==
  HasZero(Xor(w \cap Broadcast(fam), Broadcast(byte) \cap Broadcast(fam)))

AnyUpper(w) == FamEq(w, 64, 96)
AnyDigit(w) == FamEq(w, 48, 240)

FoldLower(w) == w \cup ShiftDown(Alpha(w), 2)

\* Multiplying by one in every lane sums the word's shifts by whole lanes.
LaneCount(mask) ==
  LET Sum[l \in LaneIndexes] ==
        LET shifted == ShiftUp(ShiftDown(mask, 7), 8 * l)
        IN  IF l = 0 THEN shifted ELSE Plus(Sum[l - 1], shifted)
  IN  NumberOf(ShiftDown(Sum[Lanes - 1], 8 * Lanes - 8))

BelowLo(mask) == Minus(mask, {0}) \cap Not(mask) \cap High

Smear(mask) ==
  LET Smeared[shift \in {8, 16, 32, 64}] ==
        LET s == IF shift = 8 THEN mask ELSE Smeared[shift \div 2]
        IN  IF shift < 8 * Lanes THEN s \cup ShiftDown(s, shift) ELSE s
  IN  Smeared[64]

\* Counting the lanes below; the count of trailing zeros answers the same.
LaneLo(mask) == LaneCount(BelowLo(mask))

LaneHi(mask) == IF mask = {} THEN Lanes ELSE LaneCount(Smear(mask)) - 1
-----------------------------------------------------------------------------
(* The mask view. *)

Spread(mask) == Plus(mask, Minus(mask, ShiftDown(mask, 7)))

DropLo(mask) == mask \cap Minus(mask, {0})

DropHi(mask) == mask \ Xor(Smear(mask), ShiftDown(Smear(mask), 8))

BytesBelow(bytes) ==
  CASE bytes = 0 -> {}
    [] bytes >= Lanes -> Positions
    [] OTHER -> IF BigEndian THEN ShiftUp(Positions, (Lanes - bytes) * 8)
                ELSE ShiftDown(Positions, (Lanes - bytes) * 8)

LanesBelow(bytes) == BytesBelow(bytes) \cap High

TailMask(bytes, wi) ==
  IF wi * Lanes >= bytes THEN {} ELSE LanesBelow(bytes - wi * Lanes)

LanesBefore(mask) ==
  IF BigEndian THEN Not(Smear(mask)) \cap High ELSE BelowLo(mask)

\* One pass per doubling; pass p has covered 2^p lanes or all that is wanted.
Run(mask, bytes) ==
  LET Covered(p) == IF 2^p < bytes THEN 2^p ELSE bytes
      Starts[p \in 0 .. 3] ==
        IF p = 0 THEN mask
        ELSE LET step == 8 * (Covered(p) - Covered(p - 1))
                 s == Starts[p - 1]
             IN  s \cap (IF BigEndian THEN ShiftUp(s, step) ELSE ShiftDown(s, step))
  IN  CASE bytes > Lanes -> {}
        [] bytes <= 1 -> mask
        [] OTHER -> Starts[3]

RunEdge(bytes) ==
  IF bytes <= 1 \/ bytes > Lanes THEN {} ELSE High \ LanesBelow(Lanes - bytes + 1)

Words(bytes) == bytes \div Lanes + IF bytes % Lanes # 0 THEN 1 ELSE 0
-----------------------------------------------------------------------------
(* What the entries answer, and what they are asked for. *)

Lower(b) == IF b \in 65 .. 90 THEN b + 32 ELSE b

\* ge, le and sub7 are for bytes under 128 and answer nothing here above it.
LaneAnswer(bytes, byte, ci) ==
  LET w == Word(bytes)
      If128(x) == IF byte < 128 THEN x ELSE {}
  IN [ge |-> If128(Ge(w, byte)), le |-> If128(Le(w, byte)), sub7 |-> If128(Sub7(w, byte)),
      zero |-> HasZero(w), alpha |-> Alpha(w), eq |-> Eq(w, byte, ci),
      upper |-> AnyUpper(w), digit |-> AnyDigit(w), lower |-> FoldLower(w)]

\* Every lane is answered from its own byte alone, whatever the lanes beside it hold.
LaneWanted(bytes, byte, ci) ==
  LET Where(Holds(_)) == {8 * l + 7 : l \in {k \in LaneIndexes : Holds(bytes[k + 1])}}
      If128(x) == IF byte < 128 THEN x ELSE {}
  IN [ge |-> If128(Where(LAMBDA b : b >= byte)), le |-> If128(Where(LAMBDA b : b <= byte)),
      sub7 |-> If128(Word([l \in 1 .. Lanes |-> (bytes[l] - byte) % 128])),
      zero |-> Where(LAMBDA b : b = 0),
      alpha |-> Where(LAMBDA b : Lower(b) \in 97 .. 122),
      eq |-> Where(LAMBDA b : b = byte \/ (ci /\ Lower(b) = Lower(byte))),
      upper |-> Where(LAMBDA b : b % 128 \in 64 .. 95),
      digit |-> Where(LAMBDA b : b \in 48 .. 63),
      lower |-> Word([l \in 1 .. Lanes |-> Lower(bytes[l])])]

MaskAnswer(lanes, n, wi) ==
  LET mask == InLanes(lanes, {7})
  IN [count |-> LaneCount(mask), lo |-> LaneLo(mask), hi |-> LaneHi(mask),
      spread |-> Spread(mask), dropLo |-> DropLo(mask), dropHi |-> DropHi(mask),
      below |-> BytesBelow(n), lanesBelow |-> LanesBelow(n), tail |-> TailMask(n, wi),
      before |-> LanesBefore(mask), run |-> Run(mask, n), edge |-> RunEdge(n),
      words |-> Words(n)]

\* Offsets count bytes in memory order, so a run and a tail mean the same in either byte order.
MaskWanted(lanes, n, wi) ==
  LET At(offsets) == {LaneAt(m) : m \in offsets \cap LaneIndexes}
      Bits(ls) == InLanes(ls, {7})
      offsets == {m \in LaneIndexes : LaneAt(m) \in lanes}
      Runs(m) == \A k \in m .. (m + n - 1) : k \in offsets
      lowest == {l \in lanes : \A k \in lanes : l <= k}
      highest == {l \in lanes : \A k \in lanes : l >= k}
      Pick(ls) == IF ls = {} THEN Lanes ELSE CHOOSE l \in ls : TRUE
  IN [count |-> Cardinality(lanes), lo |-> Pick(lowest), hi |-> Pick(highest),
      spread |-> InLanes(lanes, 0 .. 7), dropLo |-> Bits(lanes \ lowest),
      dropHi |-> Bits(lanes \ highest),
      below |-> InLanes(At(0 .. n - 1), 0 .. 7), lanesBelow |-> Bits(At(0 .. n - 1)),
      tail |-> Bits(At({m - wi * Lanes : m \in wi * Lanes .. n - 1})),
      before |-> Bits(At({m \in LaneIndexes : \A k \in offsets : m < k})),
      run |-> Bits(At({m \in offsets : Runs(m) /\ n <= Lanes})),
      edge |-> Bits(At({m \in LaneIndexes : n \in 2 .. Lanes /\ m + n > Lanes})),
      words |-> Cardinality({m \div Lanes : m \in 0 .. n - 1})]
=============================================================================
