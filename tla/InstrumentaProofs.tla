--------------------------- MODULE InstrumentaProofs ---------------------------
(***************************************************************************)
(* The tools of MCInstrumenta, proved.  What VerborumProofs says of every  *)
(* word, memory and region is carried to the calls of MCPura, so that      *)
(* LanesAlone and BytesMoved hold at every answer; and what FluxusProofs   *)
(* says of a span and a bit writer holds whichever tool is at work.        *)
(***************************************************************************)
EXTENDS MCInstrumenta, FluxusProofs

BigV == INSTANCE VerborumProofs WITH Lanes <- 4, BigEndian <- TRUE, WordBytes <- 2

LEMMA LittleLanesSame ==
  /\ \A bytes, byte, ci : LittleV!LaneAnswer(bytes, byte, ci) = Little!LaneAnswer(bytes, byte, ci)
  /\ \A bytes, byte, ci : LittleV!LaneWanted(bytes, byte, ci) = Little!LaneWanted(bytes, byte, ci)
<1>1. LittleV!LaneIndexes = Little!LaneIndexes
  BY DEF LittleV!LaneIndexes, Little!LaneIndexes
<1>2. \A lanes, b : LittleV!InLanes(lanes, b) = Little!InLanes(lanes, b)
  BY DEF LittleV!InLanes, Little!InLanes
<1>3. \A n : LittleV!BitsOf(n) = Little!BitsOf(n)
  BY DEF LittleV!BitsOf, Little!BitsOf
<1>4. \A bytes : LittleV!Word(bytes) = Little!Word(bytes)
  BY <1>1, <1>2, <1>3 DEF LittleV!Word, Little!Word
<1>5. \A byte : LittleV!Broadcast(byte) = Little!Broadcast(byte)
  BY <1>2, <1>1, <1>3 DEF LittleV!Broadcast, Little!Broadcast
<1>6. LittleV!High = Little!High
  BY <1>5 DEF LittleV!High, Little!High
<1>7. LittleV!Positions = Little!Positions
  BY DEF LittleV!Positions, Little!Positions
<1>8. \A x, y : LittleV!Xor(x, y) = Little!Xor(x, y)
  BY DEF LittleV!Xor, Little!Xor
<1>9. \A x, y : LittleV!Minus(x, y) = Little!Minus(x, y)
  BY <1>7, <1>8 DEF LittleV!Minus, Little!Minus
<1>10. \A w, byte : LittleV!Ge(w, byte) = Little!Ge(w, byte)
  BY <1>6, <1>5, <1>9 DEF LittleV!Ge, Little!Ge
<1>11. \A x : LittleV!Not(x) = Little!Not(x)
  BY <1>7 DEF LittleV!Not, Little!Not
<1>12. \A w, byte : LittleV!Le(w, byte) = Little!Le(w, byte)
  BY <1>11, <1>9, <1>5, <1>6 DEF LittleV!Le, Little!Le
<1>13. LittleV!Low7 = Little!Low7
  BY <1>5 DEF LittleV!Low7, Little!Low7
<1>14. \A w, byte : LittleV!Sub7(w, byte) = Little!Sub7(w, byte)
  BY <1>9, <1>6, <1>5, <1>13 DEF LittleV!Sub7, Little!Sub7
<1>15. \A x, y : LittleV!Plus(x, y) = Little!Plus(x, y)
  BY <1>7, <1>8 DEF LittleV!Plus, Little!Plus
<1>16. \A w : LittleV!HasZero(w) = Little!HasZero(w)
  BY <1>11, <1>15, <1>13, <1>6 DEF LittleV!HasZero, Little!HasZero
<1>17. \A w : LittleV!Alpha(w) = Little!Alpha(w)
  BY <1>5, <1>10, <1>12, <1>13, <1>11 DEF LittleV!Alpha, Little!Alpha
<1>18. \A x, n : LittleV!ShiftDown(x, n) = Little!ShiftDown(x, n)
  BY <1>7 DEF LittleV!ShiftDown, Little!ShiftDown
<1>19. \A w, val, ci : LittleV!XorCase(w, val, ci) = Little!XorCase(w, val, ci)
  BY <1>8, <1>18, <1>17 DEF LittleV!XorCase, Little!XorCase
<1>20. \A w, byte, ci : LittleV!Eq(w, byte, ci) = Little!Eq(w, byte, ci)
  BY <1>16, <1>19, <1>5 DEF LittleV!Eq, Little!Eq
<1>21. \A w, byte, fam : LittleV!FamEq(w, byte, fam) = Little!FamEq(w, byte, fam)
  BY <1>16, <1>8, <1>5 DEF LittleV!FamEq, Little!FamEq
<1>22. \A w : LittleV!AnyUpper(w) = Little!AnyUpper(w)
  BY <1>21 DEF LittleV!AnyUpper, Little!AnyUpper
<1>23. \A w : LittleV!AnyDigit(w) = Little!AnyDigit(w)
  BY <1>21 DEF LittleV!AnyDigit, Little!AnyDigit
<1>24. \A w : LittleV!FoldLower(w) = Little!FoldLower(w)
  BY <1>18, <1>17 DEF LittleV!FoldLower, Little!FoldLower
<1>25. \A bytes, byte, ci : LittleV!LaneAnswer(bytes, byte, ci) = Little!LaneAnswer(bytes, byte, ci)
  BY <1>4, <1>10, <1>12, <1>14, <1>16, <1>17, <1>20, <1>22, <1>23, <1>24 DEF LittleV!LaneAnswer,
  Little!LaneAnswer
<1>26. \A b : LittleV!Lower(b) = Little!Lower(b)
  BY DEF LittleV!Lower, Little!Lower
<1>27. \A bytes, byte, ci : LittleV!LaneWanted(bytes, byte, ci) = Little!LaneWanted(bytes, byte, ci)
  <2>1. ASSUME NEW bytes, NEW byte, NEW ci PROVE LittleV!LaneWanted(bytes, byte, ci) = Little!LaneWanted(bytes, byte, ci)
    BY DEF LittleV!LaneWanted, LittleV!LaneIndexes, LittleV!Word, LittleV!InLanes,
    LittleV!BitsOf, LittleV!Lower, Little!LaneWanted, Little!LaneIndexes, Little!Word,
    Little!InLanes, Little!BitsOf, Little!Lower
  <2> QED BY <2>1
<1> QED BY <1>25, <1>27

LEMMA LittleMasksSame ==
  /\ \A lanes, n, wi : LittleV!MaskAnswer(lanes, n, wi) = Little!MaskAnswer(lanes, n, wi)
  /\ \A lanes, n, wi : LittleV!MaskWanted(lanes, n, wi) = Little!MaskWanted(lanes, n, wi)
<1>1. \A lanes, b : LittleV!InLanes(lanes, b) = Little!InLanes(lanes, b)
  BY DEF LittleV!InLanes, Little!InLanes
<1>2. LittleV!LaneIndexes = Little!LaneIndexes
  BY DEF LittleV!LaneIndexes, Little!LaneIndexes
<1>3. LittleV!Positions = Little!Positions
  BY DEF LittleV!Positions, Little!Positions
<1>4. \A x, n : LittleV!ShiftUp(x, n) = Little!ShiftUp(x, n)
  BY <1>3 DEF LittleV!ShiftUp, Little!ShiftUp
<1>5. \A x, n : LittleV!ShiftDown(x, n) = Little!ShiftDown(x, n)
  BY <1>3 DEF LittleV!ShiftDown, Little!ShiftDown
<1>6. \A x, y : LittleV!Xor(x, y) = Little!Xor(x, y)
  BY DEF LittleV!Xor, Little!Xor
<1>7. \A x, y : LittleV!Plus(x, y) = Little!Plus(x, y)
  BY <1>3, <1>6 DEF LittleV!Plus, Little!Plus
<1>8. \A x : LittleV!NumberOf(x) = Little!NumberOf(x)
  BY DEF LittleV!NumberOf, LittleV!MapThenSumSet, LittleV!MapThenFoldSet, Little!NumberOf,
  Little!MapThenSumSet, Little!MapThenFoldSet
<1>9. \A mask : LittleV!LaneCount(mask) = Little!LaneCount(mask)
  <2>1. ASSUME NEW mask PROVE LittleV!LaneCount(mask) = Little!LaneCount(mask)
    BY <1>8 DEF LittleV!LaneCount, LittleV!LaneIndexes, LittleV!ShiftUp, LittleV!Positions,
    LittleV!ShiftDown, LittleV!Plus, LittleV!Xor, Little!LaneCount, Little!LaneIndexes,
    Little!ShiftUp, Little!Positions, Little!ShiftDown, Little!Plus, Little!Xor
  <2> QED BY <2>1
<1>10. \A x, y : LittleV!Minus(x, y) = Little!Minus(x, y)
  BY <1>3, <1>6 DEF LittleV!Minus, Little!Minus
<1>11. \A x : LittleV!Not(x) = Little!Not(x)
  BY <1>3 DEF LittleV!Not, Little!Not
<1>12. \A n : LittleV!BitsOf(n) = Little!BitsOf(n)
  BY DEF LittleV!BitsOf, Little!BitsOf
<1>13. \A byte : LittleV!Broadcast(byte) = Little!Broadcast(byte)
  BY <1>1, <1>2, <1>12 DEF LittleV!Broadcast, Little!Broadcast
<1>14. LittleV!High = Little!High
  BY <1>13 DEF LittleV!High, Little!High
<1>15. \A mask : LittleV!BelowLo(mask) = Little!BelowLo(mask)
  BY <1>10, <1>11, <1>14 DEF LittleV!BelowLo, Little!BelowLo
<1>16. \A mask : LittleV!LaneLo(mask) = Little!LaneLo(mask)
  BY <1>9, <1>15 DEF LittleV!LaneLo, Little!LaneLo
<1>17. \A mask : LittleV!Smear(mask) = Little!Smear(mask)
  <2>1. ASSUME NEW mask PROVE LittleV!Smear(mask) = Little!Smear(mask)
    BY DEF LittleV!Smear, LittleV!ShiftDown, LittleV!Positions, Little!Smear, Little!ShiftDown,
    Little!Positions
  <2> QED BY <2>1
<1>18. \A mask : LittleV!LaneHi(mask) = Little!LaneHi(mask)
  BY <1>9, <1>17 DEF LittleV!LaneHi, Little!LaneHi
<1>19. \A mask : LittleV!Spread(mask) = Little!Spread(mask)
  BY <1>7, <1>10, <1>5 DEF LittleV!Spread, Little!Spread
<1>20. \A mask : LittleV!DropLo(mask) = Little!DropLo(mask)
  BY <1>10 DEF LittleV!DropLo, Little!DropLo
<1>21. \A mask : LittleV!DropHi(mask) = Little!DropHi(mask)
  BY <1>6, <1>17, <1>5 DEF LittleV!DropHi, Little!DropHi
<1>22. \A bytes : LittleV!BytesBelow(bytes) = Little!BytesBelow(bytes)
  BY <1>3, <1>4, <1>5 DEF LittleV!BytesBelow, Little!BytesBelow
<1>23. \A bytes : LittleV!LanesBelow(bytes) = Little!LanesBelow(bytes)
  BY <1>22, <1>14 DEF LittleV!LanesBelow, Little!LanesBelow
<1>24. \A bytes, wi : LittleV!TailMask(bytes, wi) = Little!TailMask(bytes, wi)
  BY <1>23 DEF LittleV!TailMask, Little!TailMask
<1>25. \A mask : LittleV!LanesBefore(mask) = Little!LanesBefore(mask)
  BY <1>11, <1>17, <1>14, <1>15 DEF LittleV!LanesBefore, Little!LanesBefore
<1>26. \A mask, bytes : LittleV!Run(mask, bytes) = Little!Run(mask, bytes)
  <2>1. ASSUME NEW mask, NEW bytes PROVE LittleV!Run(mask, bytes) = Little!Run(mask, bytes)
    BY DEF LittleV!Run, LittleV!ShiftUp, LittleV!Positions, LittleV!ShiftDown, Little!Run,
    Little!ShiftUp, Little!Positions, Little!ShiftDown
  <2> QED BY <2>1
<1>27. \A bytes : LittleV!RunEdge(bytes) = Little!RunEdge(bytes)
  BY <1>14, <1>23 DEF LittleV!RunEdge, Little!RunEdge
<1>28. \A bytes : LittleV!Words(bytes) = Little!Words(bytes)
  BY DEF LittleV!Words, Little!Words
<1>29. \A lanes, n, wi : LittleV!MaskAnswer(lanes, n, wi) = Little!MaskAnswer(lanes, n, wi)
  BY <1>1, <1>9, <1>16, <1>18, <1>19, <1>20, <1>21, <1>22, <1>23, <1>24, <1>25, <1>26, <1>27,
  <1>28 DEF LittleV!MaskAnswer, Little!MaskAnswer
<1>30. \A m : LittleV!LaneAt(m) = Little!LaneAt(m)
  BY DEF LittleV!LaneAt, Little!LaneAt
<1>31. \A lanes, n, wi : LittleV!MaskWanted(lanes, n, wi) = Little!MaskWanted(lanes, n, wi)
  <2>1. ASSUME NEW lanes, NEW n, NEW wi PROVE LittleV!MaskWanted(lanes, n, wi) = Little!MaskWanted(lanes, n, wi)
    BY DEF LittleV!MaskWanted, LittleV!Cardinality, LittleV!LaneIndexes, LittleV!InLanes,
    LittleV!LaneAt, Little!MaskWanted, Little!Cardinality, Little!LaneIndexes, Little!InLanes,
    Little!LaneAt
  <2> QED BY <2>1
<1> QED BY <1>29, <1>31

LEMMA BigMasksSame ==
  /\ \A lanes, n, wi : BigV!MaskAnswer(lanes, n, wi) = Big!MaskAnswer(lanes, n, wi)
  /\ \A lanes, n, wi : BigV!MaskWanted(lanes, n, wi) = Big!MaskWanted(lanes, n, wi)
<1>1. \A lanes, b : BigV!InLanes(lanes, b) = Big!InLanes(lanes, b)
  BY DEF BigV!InLanes, Big!InLanes
<1>2. BigV!LaneIndexes = Big!LaneIndexes
  BY DEF BigV!LaneIndexes, Big!LaneIndexes
<1>3. BigV!Positions = Big!Positions
  BY DEF BigV!Positions, Big!Positions
<1>4. \A x, n : BigV!ShiftUp(x, n) = Big!ShiftUp(x, n)
  BY <1>3 DEF BigV!ShiftUp, Big!ShiftUp
<1>5. \A x, n : BigV!ShiftDown(x, n) = Big!ShiftDown(x, n)
  BY <1>3 DEF BigV!ShiftDown, Big!ShiftDown
<1>6. \A x, y : BigV!Xor(x, y) = Big!Xor(x, y)
  BY DEF BigV!Xor, Big!Xor
<1>7. \A x, y : BigV!Plus(x, y) = Big!Plus(x, y)
  BY <1>3, <1>6 DEF BigV!Plus, Big!Plus
<1>8. \A x : BigV!NumberOf(x) = Big!NumberOf(x)
  BY DEF BigV!NumberOf, BigV!MapThenSumSet, BigV!MapThenFoldSet, Big!NumberOf, Big!MapThenSumSet,
  Big!MapThenFoldSet
<1>9. \A mask : BigV!LaneCount(mask) = Big!LaneCount(mask)
  <2>1. ASSUME NEW mask PROVE BigV!LaneCount(mask) = Big!LaneCount(mask)
    BY <1>8 DEF BigV!LaneCount, BigV!LaneIndexes, BigV!ShiftUp, BigV!Positions, BigV!ShiftDown,
    BigV!Plus, BigV!Xor, Big!LaneCount, Big!LaneIndexes, Big!ShiftUp, Big!Positions,
    Big!ShiftDown, Big!Plus, Big!Xor
  <2> QED BY <2>1
<1>10. \A x, y : BigV!Minus(x, y) = Big!Minus(x, y)
  BY <1>3, <1>6 DEF BigV!Minus, Big!Minus
<1>11. \A x : BigV!Not(x) = Big!Not(x)
  BY <1>3 DEF BigV!Not, Big!Not
<1>12. \A n : BigV!BitsOf(n) = Big!BitsOf(n)
  BY DEF BigV!BitsOf, Big!BitsOf
<1>13. \A byte : BigV!Broadcast(byte) = Big!Broadcast(byte)
  BY <1>1, <1>2, <1>12 DEF BigV!Broadcast, Big!Broadcast
<1>14. BigV!High = Big!High
  BY <1>13 DEF BigV!High, Big!High
<1>15. \A mask : BigV!BelowLo(mask) = Big!BelowLo(mask)
  BY <1>10, <1>11, <1>14 DEF BigV!BelowLo, Big!BelowLo
<1>16. \A mask : BigV!LaneLo(mask) = Big!LaneLo(mask)
  BY <1>9, <1>15 DEF BigV!LaneLo, Big!LaneLo
<1>17. \A mask : BigV!Smear(mask) = Big!Smear(mask)
  <2>1. ASSUME NEW mask PROVE BigV!Smear(mask) = Big!Smear(mask)
    BY DEF BigV!Smear, BigV!ShiftDown, BigV!Positions, Big!Smear, Big!ShiftDown, Big!Positions
  <2> QED BY <2>1
<1>18. \A mask : BigV!LaneHi(mask) = Big!LaneHi(mask)
  BY <1>9, <1>17 DEF BigV!LaneHi, Big!LaneHi
<1>19. \A mask : BigV!Spread(mask) = Big!Spread(mask)
  BY <1>7, <1>10, <1>5 DEF BigV!Spread, Big!Spread
<1>20. \A mask : BigV!DropLo(mask) = Big!DropLo(mask)
  BY <1>10 DEF BigV!DropLo, Big!DropLo
<1>21. \A mask : BigV!DropHi(mask) = Big!DropHi(mask)
  BY <1>6, <1>17, <1>5 DEF BigV!DropHi, Big!DropHi
<1>22. \A bytes : BigV!BytesBelow(bytes) = Big!BytesBelow(bytes)
  BY <1>3, <1>4, <1>5 DEF BigV!BytesBelow, Big!BytesBelow
<1>23. \A bytes : BigV!LanesBelow(bytes) = Big!LanesBelow(bytes)
  BY <1>22, <1>14 DEF BigV!LanesBelow, Big!LanesBelow
<1>24. \A bytes, wi : BigV!TailMask(bytes, wi) = Big!TailMask(bytes, wi)
  BY <1>23 DEF BigV!TailMask, Big!TailMask
<1>25. \A mask : BigV!LanesBefore(mask) = Big!LanesBefore(mask)
  BY <1>11, <1>17, <1>14, <1>15 DEF BigV!LanesBefore, Big!LanesBefore
<1>26. \A mask, bytes : BigV!Run(mask, bytes) = Big!Run(mask, bytes)
  <2>1. ASSUME NEW mask, NEW bytes PROVE BigV!Run(mask, bytes) = Big!Run(mask, bytes)
    BY DEF BigV!Run, BigV!ShiftUp, BigV!Positions, BigV!ShiftDown, Big!Run, Big!ShiftUp,
    Big!Positions, Big!ShiftDown
  <2> QED BY <2>1
<1>27. \A bytes : BigV!RunEdge(bytes) = Big!RunEdge(bytes)
  BY <1>14, <1>23 DEF BigV!RunEdge, Big!RunEdge
<1>28. \A bytes : BigV!Words(bytes) = Big!Words(bytes)
  BY DEF BigV!Words, Big!Words
<1>29. \A lanes, n, wi : BigV!MaskAnswer(lanes, n, wi) = Big!MaskAnswer(lanes, n, wi)
  BY <1>1, <1>9, <1>16, <1>18, <1>19, <1>20, <1>21, <1>22, <1>23, <1>24, <1>25, <1>26, <1>27,
  <1>28 DEF BigV!MaskAnswer, Big!MaskAnswer
<1>30. \A m : BigV!LaneAt(m) = Big!LaneAt(m)
  BY DEF BigV!LaneAt, Big!LaneAt
<1>31. \A lanes, n, wi : BigV!MaskWanted(lanes, n, wi) = Big!MaskWanted(lanes, n, wi)
  <2>1. ASSUME NEW lanes, NEW n, NEW wi PROVE BigV!MaskWanted(lanes, n, wi) = Big!MaskWanted(lanes, n, wi)
    BY DEF BigV!MaskWanted, BigV!Cardinality, BigV!LaneIndexes, BigV!InLanes, BigV!LaneAt,
    Big!MaskWanted, Big!Cardinality, Big!LaneIndexes, Big!InLanes, Big!LaneAt
  <2> QED BY <2>1
<1> QED BY <1>29, <1>31

LEMMA MovesSame ==
  /\ \A mem, dst, src, bytes : LittleV!Cpy(mem, dst, src, bytes) = Mem!Cpy(mem, dst, src, bytes)
  /\ \A mem, dst, src, bytes : LittleV!MoveUp(mem, dst, src, bytes) = Mem!MoveUp(mem, dst, src, bytes)
  /\ \A mem, dst, src, bytes : LittleV!Read(mem, dst, src, bytes) = Mem!Read(mem, dst, src, bytes)
  /\ \A mem, dst, src, bytes : LittleV!MoveWanted(mem, dst, src, bytes) = Mem!MoveWanted(mem, dst, src, bytes)
<1>1. \A from, to : LittleV!Singles(from, to) = Mem!Singles(from, to)
  BY DEF LittleV!Singles, Mem!Singles
<1>2. \A from, count : LittleV!WholeWords(from, count) = Mem!WholeWords(from, count)
  BY DEF LittleV!WholeWords, Mem!WholeWords
<1>3. \A s : LittleV!Reverse(s) = Mem!Reverse(s)
  BY DEF LittleV!Reverse, Mem!Reverse
<1>4. ASSUME NEW mem, NEW dst, NEW src, NEW pieces
      PROVE  LittleV!Copied(mem, dst, src, pieces) = Mem!Copied(mem, dst, src, pieces)
  BY DEF LittleV!Copied, Mem!Copied
<1>5. \A mem, dst, src, bytes : LittleV!Cpy(mem, dst, src, bytes) = Mem!Cpy(mem, dst, src, bytes)
  BY <1>1, <1>2, <1>4 DEF LittleV!Cpy, Mem!Cpy
<1>6. \A mem, dst, src, bytes : LittleV!MoveUp(mem, dst, src, bytes) = Mem!MoveUp(mem, dst, src, bytes)
  <2>1. ASSUME NEW mem, NEW dst, NEW src, NEW bytes 
        PROVE  LittleV!MoveUp(mem, dst, src, bytes) = Mem!MoveUp(mem, dst, src, bytes)
    BY <1>1, <1>2, <1>3, <1>4 DEF LittleV!MoveUp, Mem!MoveUp
  <2> QED BY <2>1
<1>7. \A mem, dst, src, bytes : LittleV!Read(mem, dst, src, bytes) = Mem!Read(mem, dst, src, bytes)
  BY <1>1, <1>2, <1>4 DEF LittleV!Read, Mem!Read
<1>8. \A mem, dst, src, bytes : LittleV!MoveWanted(mem, dst, src, bytes) = Mem!MoveWanted(mem, dst, src, bytes)
  BY DEF LittleV!MoveWanted, Mem!MoveWanted
<1> QED BY <1>5, <1>6, <1>7, <1>8

LEMMA ScansSame ==
  /\ \A mem, src, other, bytes : LittleV!Cmp(mem, src, other, bytes) = Mem!Cmp(mem, src, other, bytes)
  /\ \A mem, src, val, bytes : LittleV!Chr(mem, src, val, bytes) = Mem!Chr(mem, src, val, bytes)
  /\ \A mem, src, other, bytes, got : LittleV!CmpWanted(mem, src, other, bytes, got) <=> Mem!CmpWanted(mem, src, other, bytes, got)
  /\ \A mem, src, val, bytes : LittleV!ChrWanted(mem, src, val, bytes) = Mem!ChrWanted(mem, src, val, bytes)
<1>1. ASSUME NEW mem, NEW src, NEW other, NEW bytes
      PROVE  LittleV!Cmp(mem, src, other, bytes) = Mem!Cmp(mem, src, other, bytes)
  BY DEF LittleV!Cmp, Mem!Cmp, LittleV!Hit, Mem!Hit, LittleV!FullWords, Mem!FullWords, LittleV!Rest, Mem!Rest, LittleV!Min, Mem!Min
<1>2. ASSUME NEW mem, NEW src, NEW val, NEW bytes
      PROVE  LittleV!Chr(mem, src, val, bytes) = Mem!Chr(mem, src, val, bytes)
  BY DEF LittleV!Chr, Mem!Chr, LittleV!Hit, Mem!Hit, LittleV!FullWords, Mem!FullWords, LittleV!Rest, Mem!Rest, LittleV!Min, Mem!Min
<1>3. ASSUME NEW mem, NEW src, NEW other, NEW bytes, NEW got
      PROVE  LittleV!CmpWanted(mem, src, other, bytes, got) <=> Mem!CmpWanted(mem, src, other, bytes, got)
  BY DEF LittleV!CmpWanted, Mem!CmpWanted, LittleV!Max, Mem!Max
<1>4. ASSUME NEW mem, NEW src, NEW val, NEW bytes
      PROVE  LittleV!ChrWanted(mem, src, val, bytes) = Mem!ChrWanted(mem, src, val, bytes)
  BY DEF LittleV!ChrWanted, Mem!ChrWanted, LittleV!Min, Mem!Min
<1> QED BY <1>1, <1>2, <1>3, <1>4

-----------------------------------------------------------------------------
(* The calls, and what stands between a call and its answer.               *)

LEMMA ToolsApart ==
  /\ \A c \in LaneCalls : c.tool = "lanes"
  /\ \A c \in MaskCalls : c.tool = "masks"
  /\ \A c \in StringCalls : c.tool = "strings"
  /\ \A c \in FindCalls : c.tool = "finds"
  /\ \A c \in NumberCalls : c.tool = "numbers"
  /\ \A c \in PrintCalls : c.tool = "prints"
  /\ \A c \in MoveCalls : c.tool = "moves"
  /\ \A c \in EndCalls : c.tool = "ends"
  /\ \A c \in RoundCalls : c.tool = "rounds"
<1>1. \A c \in LaneCalls : c.tool = "lanes"
  BY DEF LaneCalls
<1>2. \A c \in MaskCalls : c.tool = "masks"
  BY DEF MaskCalls
<1>3. \A c \in StringCalls : c.tool = "strings"
  BY DEF StringCalls
<1>4. \A c \in FindCalls : c.tool = "finds"
  BY DEF FindCalls
<1>5. \A c \in NumberCalls : c.tool = "numbers"
  BY DEF NumberCalls
<1>6. \A c \in PrintCalls : c.tool = "prints"
  BY DEF PrintCalls
<1>7. \A c \in MoveCalls : c.tool = "moves"
  BY DEF MoveCalls
<1>8. \A c \in EndCalls : c.tool = "ends"
  BY DEF EndCalls
<1>9. \A c \in RoundCalls : c.tool = "rounds"
  BY DEF RoundCalls
<1> QED BY <1>1, <1>2, <1>3, <1>4, <1>5, <1>6, <1>7, <1>8, <1>9

(* A call is one of its tool's, and only a call is answered.               *)
CallInv ==
  /\ call = <<>> => answer = <<>>
  /\ call # <<>> =>
       /\ call.tool = "lanes" => call \in LaneCalls
       /\ call.tool = "masks" => call \in MaskCalls
       /\ call.tool = "moves" => call \in MoveCalls
       /\ call.tool = "ends" => call \in EndCalls

\* A step asks a new call, or answers the call there is as its tool does.
LEMMA StepIs ==
  ASSUME PuraNext
  PROVE  \/ \E batch \in {LaneCalls, MaskCalls, StringCalls, FindCalls, NumberCalls, PrintCalls,
                         MoveCalls, EndCalls, RoundCalls} : Ask(batch)
         \/ AnswerLanes \/ AnswerMasks \/ AnswerMove \/ AnswerEnds
         \/ /\ call' = call /\ call # <<>>
            /\ call.tool \in {"strings", "finds", "numbers", "prints", "rounds"}
<1>1. CASE AnswerStrings
  BY <1>1 DEF AnswerStrings, Is, Answer
<1>2. CASE AnswerFind
  BY <1>2 DEF AnswerFind, Is, Answer
<1>3. CASE AnswerNumber
  BY <1>3 DEF AnswerNumber, Is, Answer
<1>4. CASE AnswerPrint
  BY <1>4 DEF AnswerPrint, Is, Answer
<1>5. CASE AnswerRound
  BY <1>5 DEF AnswerRound, Is, Answer
<1> QED BY <1>1, <1>2, <1>3, <1>4, <1>5 DEF PuraNext

LEMMA CallInvKept == ASSUME CallInv, [PuraNext]_puraVars PROVE CallInv'
<1>1. CASE UNCHANGED puraVars
  BY <1>1 DEF CallInv, puraVars
<1>2. ASSUME NEW batch \in {LaneCalls, MaskCalls, StringCalls, FindCalls, NumberCalls, PrintCalls,
                           MoveCalls, EndCalls, RoundCalls}, Ask(batch)
      PROVE  CallInv'
  <2>1. call' \in batch /\ call = <<>> /\ answer' = <<>>
    BY <1>2 DEF Ask, CallInv
  <2>2. call'.tool \in {"lanes", "masks", "moves", "ends"} =>
          \/ call'.tool = "lanes" /\ call' \in LaneCalls
          \/ call'.tool = "masks" /\ call' \in MaskCalls
          \/ call'.tool = "moves" /\ call' \in MoveCalls
          \/ call'.tool = "ends" /\ call' \in EndCalls
    BY <2>1, ToolsApart
  <2> QED BY <2>1, <2>2 DEF CallInv
<1>3. CASE AnswerLanes \/ AnswerMasks \/ AnswerMove \/ AnswerEnds
  <2>1. call' = call /\ call # <<>>
    BY <1>3 DEF AnswerLanes, AnswerMasks, AnswerMove, AnswerEnds, Is, Answer
  <2> QED BY <2>1 DEF CallInv
<1>4. ASSUME call' = call, call # <<>> PROVE CallInv'
  BY <1>4 DEF CallInv
<1> QED BY <1>1, <1>2, <1>3, <1>4, StepIs

LEMMA PuraOnly == Spec => PuraInit /\ [][PuraNext]_puraVars
<1>1. Init => PuraInit
  BY DEF Init
<1>2. [Next]_vars => [PuraNext]_puraVars
  BY DEF Next, PuraStep, LineaStep, NumerosStep, SpatiumStep, BitorumStep, vars
<1> QED BY <1>1, <1>2, PTL DEF Spec

LEMMA CallsOnly == Spec => []CallInv
<1>1. PuraInit => CallInv
  BY DEF PuraInit, CallInv
<1>2. CallInv /\ [PuraNext]_puraVars => CallInv'
  BY CallInvKept
<1> QED BY <1>1, <1>2, PuraOnly, PTL
-----------------------------------------------------------------------------
(* verbum_scrutor.                                                         *)

LEMMA SpacedIs ==
  ASSUME NEW c \in LaneCalls
  PROVE  Spaced(c) \in LittleV!Bytes /\ c.byte \in LittleV!Byte /\ c.ci \in BOOLEAN
<1>1. /\ c.left \in LaneBytes /\ c.right \in LaneBytes /\ c.byte \in Probes /\ c.ci \in BOOLEAN
  BY DEF LaneCalls
<1>2. /\ c.left \in 0 .. 255 /\ c.right \in 0 .. 255 /\ c.byte \in 0 .. 255
  BY <1>1 DEF LaneBytes, Probes
<1> DEFINE left == c.left
           right == c.right
<1>3. left \in 0 .. 255 /\ right \in 0 .. 255 /\ Spaced(c) = <<left, right, right, left>>
  BY <1>2 DEF Spaced
<1> HIDE DEF left, right
<1>4. <<left, right, right, left>> \in [1 .. 4 -> 0 .. 255]
  BY <1>3
<1> QED BY <1>1, <1>2, <1>3, <1>4 DEF LittleV!Bytes, LittleV!Byte

\* The answer to a call about a word is what the bytes of the word alone say.
LEMMA LanesStep ==
  ASSUME CallInv, AnswerLanes
  PROVE  answer' = <<Little!LaneWanted(Spaced(call), call.byte, call.ci)>>
<1>1. call \in LaneCalls
  BY DEF CallInv, AnswerLanes, Is
<1>2. answer' = <<Little!LaneAnswer(Spaced(call), call.byte, call.ci)>>
  BY DEF AnswerLanes, Answer
<1>3. LittleV!LanesAssumption
  BY DEF LittleV!LanesAssumption
<1>4. LittleV!LaneAnswer(Spaced(call), call.byte, call.ci)
        = LittleV!LaneWanted(Spaced(call), call.byte, call.ci)
  BY <1>1, <1>3, SpacedIs, LittleV!LanesAnswered
<1> QED BY <1>2, <1>4, LittleLanesSame

\* The answer to a call about a mask is what the lanes of the mask alone say, in either order.
LEMMA MasksStep ==
  ASSUME CallInv, AnswerMasks
  PROVE  answer' = <<IF call.big THEN Big!MaskWanted(call.lanes, call.n, call.wi)
                     ELSE Little!MaskWanted(call.lanes, call.n, call.wi)>>
<1>1. call \in MaskCalls
  BY DEF CallInv, AnswerMasks, Is
<1>2. call.lanes \in SUBSET (0 .. 3) /\ call.n \in Nat /\ call.wi \in Nat
  BY <1>1 DEF MaskCalls
<1>3. call.lanes \in SUBSET LittleV!LaneIndexes /\ call.lanes \in SUBSET BigV!LaneIndexes
  BY <1>2 DEF LittleV!LaneIndexes, BigV!LaneIndexes
<1>4. LittleV!LanesAssumption /\ BigV!LanesAssumption
  BY DEF LittleV!LanesAssumption, BigV!LanesAssumption
<1>5. Little!MaskAnswer(call.lanes, call.n, call.wi) = Little!MaskWanted(call.lanes, call.n, call.wi)
  BY <1>2, <1>3, <1>4, LittleV!MasksAnswered, LittleMasksSame
<1>6. Big!MaskAnswer(call.lanes, call.n, call.wi) = Big!MaskWanted(call.lanes, call.n, call.wi)
  BY <1>2, <1>3, <1>4, BigV!MasksAnswered, BigMasksSame
<1> QED BY <1>5, <1>6 DEF AnswerMasks, Answer

\* verbum_scrutor.c: at every answer the lanes of a word were answered from their own bytes.
THEOREM LanesAloneAlways == Spec => []LanesAlone
<1>1. PuraInit => LanesAlone
  BY DEF PuraInit, LanesAlone, Answered
<1>2. ASSUME CallInv, LanesAlone, [PuraNext]_puraVars
      PROVE  LanesAlone'
  <2>1. CASE UNCHANGED puraVars
    BY <1>2, <2>1 DEF LanesAlone, Answered, puraVars
  <2>2. ASSUME NEW batch, Ask(batch) PROVE LanesAlone'
    BY <1>2, <2>2 DEF Ask, CallInv, LanesAlone, Answered
  <2>3. CASE AnswerLanes
    <3>1. call' = call /\ call.tool = "lanes"
      BY <2>3 DEF AnswerLanes, Is, Answer
    <3> QED BY <1>2, <2>3, <3>1, LanesStep DEF LanesAlone, Answered
  <2>4. CASE AnswerMasks
    <3>1. call' = call /\ call.tool = "masks"
      BY <2>4 DEF AnswerMasks, Is, Answer
    <3> QED BY <1>2, <2>4, <3>1, MasksStep DEF LanesAlone, Answered
  <2>5. CASE AnswerMove \/ AnswerEnds
    BY <2>5 DEF AnswerMove, AnswerEnds, Is, Answer, LanesAlone, Answered
  <2>6. CASE call' = call /\ call.tool \in {"strings", "finds", "numbers", "prints", "rounds"}
    BY <2>6 DEF LanesAlone, Answered
  <2> QED BY <1>2, <2>1, <2>2, <2>3, <2>4, <2>5, <2>6, StepIs
<1> QED BY <1>1, <1>2, CallsOnly, PuraOnly, PTL

-----------------------------------------------------------------------------
(* The calls of BytesMoved.                                                *)

LEMMA EndianSame ==
  /\ \A mem, at, value, width : Rev!WrLe(mem, at, value, width) = E!WrLe(mem, at, value, width)
  /\ \A mem, at, value, width : Rev!WrBe(mem, at, value, width) = E!WrBe(mem, at, value, width)
  /\ \A mem, at, width : Rev!RdLe(mem, at, width) = E!RdLe(mem, at, width)
  /\ \A mem, at, width : Rev!RdBe(mem, at, width) = E!RdBe(mem, at, width)
<1>1. Rev!Positions = E!Positions
  BY DEF Rev!Positions, E!Positions
<1>2. \A x, n : Rev!ShiftUp(x, n) = E!ShiftUp(x, n)
  BY <1>1 DEF Rev!ShiftUp, E!ShiftUp
<1>3. \A x, n : Rev!ShiftDown(x, n) = E!ShiftDown(x, n)
  BY <1>1 DEF Rev!ShiftDown, E!ShiftDown
<1>4. \A n : Rev!BitsOf(n) = E!BitsOf(n)
  BY DEF Rev!BitsOf, E!BitsOf
<1>5. \A x : Rev!NumberOf(x) = E!NumberOf(x)
  <2>1. ASSUME NEW x PROVE Rev!NumberOf(x) = E!NumberOf(x)
    BY DEF Rev!NumberOf, E!NumberOf, Rev!MapThenSumSet, E!MapThenSumSet,
      Rev!MapThenFoldSet, E!MapThenFoldSet
  <2> QED BY <2>1
<1>6. \A value, k : Rev!ByteAt(value, k) = E!ByteAt(value, k)
  BY <1>3, <1>5 DEF Rev!ByteAt, E!ByteAt
<1>7. \A mem, at, value, width : Rev!Stored(mem, at, value, width) = E!Stored(mem, at, value, width)
  BY <1>6 DEF Rev!Stored, E!Stored
<1>8. \A mem, at, width : Rev!Loaded(mem, at, width) = E!Loaded(mem, at, width)
  BY <1>2, <1>4 DEF Rev!Loaded, E!Loaded
<1>9. \A size : Rev!Evens(size) = E!Evens(size)
  BY <1>1 DEF Rev!Evens, E!Evens
<1>10. \A value, size : Rev!Swapped(value, size) = E!Swapped(value, size)
  BY <1>2, <1>3, <1>9 DEF Rev!Swapped, E!Swapped
<1>11. \A value, width : Rev!Rev(value, width) = E!Rev(value, width)
  BY <1>3, <1>10 DEF Rev!Rev, E!Rev
<1>12. \A width : Rev!WidthOf(width) = E!WidthOf(width)
  BY DEF Rev!WidthOf, E!WidthOf
<1>13. \A mem, at, value, width : Rev!WrLe(mem, at, value, width) = E!WrLe(mem, at, value, width)
  BY <1>7, <1>12 DEF Rev!WrLe, E!WrLe
<1>14. \A mem, at, value, width : Rev!WrBe(mem, at, value, width) = E!WrBe(mem, at, value, width)
  BY <1>7, <1>11, <1>12 DEF Rev!WrBe, E!WrBe
<1>15. \A mem, at, width : Rev!RdLe(mem, at, width) = E!RdLe(mem, at, width)
  BY <1>8, <1>12 DEF Rev!RdLe, E!RdLe
<1>16. \A mem, at, width : Rev!RdBe(mem, at, width) = E!RdBe(mem, at, width)
  BY <1>8, <1>11, <1>12 DEF Rev!RdBe, E!RdBe
<1> QED BY <1>13, <1>14, <1>15, <1>16

\* The powers of the bits of one byte, summed as numbers.
LEMMA SumOfByte ==
  ASSUME NEW k \in Nat, NEW C \in SUBSET (8 * k .. 8 * k + 7)
  PROVE  MapThenSumSet(LAMBDA i : 2^(i - 8 * k), C) = LittleV!Total({b \in 0 .. 7 : 8 * k + b \in C})
<1> DEFINE Low(A) == {b \in 0 .. 7 : 8 * k + b \in A}
           Pick(A) == CHOOSE x \in A : TRUE
           Worth(i) == 2^(i - 8 * k)
           Folds(g) == g = [A \in SUBSET C |-> IF A = {} THEN 0 ELSE Worth(Pick(A)) + g[A \ {Pick(A)}]]
           iter == CHOOSE g : Folds(g)
<1>1. LittleV!Total(Low({})) = 0
  <2>1. Low({}) = {}
    OBVIOUS
  <2> QED BY <2>1 DEF LittleV!Total, LittleV!One
<1>2. \A A \in SUBSET C : A # {} =>
        /\ Pick(A) \in A /\ A \ {Pick(A)} \in SUBSET C
        /\ LittleV!Total(Low(A)) = Worth(Pick(A)) + LittleV!Total(Low(A \ {Pick(A)}))
  <2> SUFFICES ASSUME NEW A \in SUBSET C, A # {}
               PROVE  /\ Pick(A) \in A /\ A \ {Pick(A)} \in SUBSET C
                      /\ LittleV!Total(Low(A)) = Worth(Pick(A)) + LittleV!Total(Low(A \ {Pick(A)}))
    OBVIOUS
  <2>1. PICK x : x = Pick(A)
    OBVIOUS
  <2>2. x \in A
    BY <2>1
  <2> HIDE DEF Pick
  <2>3. PICK b \in 0 .. 7 : x = 8 * k + b
    <3>1. x \in 8 * k .. 8 * k + 7
      BY <2>2
    <3>2. x - 8 * k \in 0 .. 7 /\ x = 8 * k + (x - 8 * k)
      BY <3>1
    <3> QED BY <3>2
  <2>4. Low(A \ {x}) = Low(A) \ {b}
    <3>1. \A c \in 0 .. 7 : 8 * k + c = x <=> c = b
      BY <2>3
    <3> QED BY <3>1
  <2>5. b \in Low(A) /\ Low(A) \in SUBSET (0 .. 7)
    BY <2>2, <2>3
  <2> HIDE DEF Low
  <2>6. LittleV!Total(Low(A)) = 2^b + LittleV!Total(Low(A) \ {b})
    BY <2>5, LittleV!TotalStep
  <2>7. Worth(x) = 2^b
    <3>1. x - 8 * k = b
      BY <2>3
    <3> QED BY <3>1
  <2> HIDE DEF Worth
  <2> QED BY <2>1, <2>2, <2>4, <2>6, <2>7
<1> HIDE DEF Pick, Low, Worth
<1>3. Folds([A \in SUBSET C |-> LittleV!Total(Low(A))])
  <2> DEFINE g == [A \in SUBSET C |-> LittleV!Total(Low(A))]
             Body(A) == IF A = {} THEN 0 ELSE Worth(Pick(A)) + g[A \ {Pick(A)}]
  <2>1. \A A \in SUBSET C : g[A] = LittleV!Total(Low(A))
    OBVIOUS
  <2> HIDE DEF g
  <2>2. \A A \in SUBSET C : LittleV!Total(Low(A)) = Body(A)
    BY <1>1, <1>2, <2>1
  <2> HIDE DEF Body
  <2>3. [A \in SUBSET C |-> LittleV!Total(Low(A))] = [A \in SUBSET C |-> Body(A)]
    BY <2>2
  <2> QED BY <2>3 DEF g, Body
<1> HIDE DEF Folds
<1>4. Folds(iter)
  BY <1>3
<1> HIDE DEF iter
<1>5. \A A \in SUBSET C : iter[A] = IF A = {} THEN 0 ELSE Worth(Pick(A)) + iter[A \ {Pick(A)}]
  BY <1>4 DEF Folds
<1>6. iter[C] = LittleV!Total(Low(C))
  <2> DEFINE Wrong == {A \in SUBSET C : iter[A] # LittleV!Total(Low(A))}
  <2> SUFFICES ASSUME Wrong # {} PROVE FALSE
    OBVIOUS
  <2>6. PICK lo \in Int, hi \in Int : lo = 8 * k /\ hi = 8 * k + 7
    OBVIOUS
  <2>0. LittleV!IsFiniteSet(8 * k .. 8 * k + 7)
    BY <2>6, LittleV!FS_Interval
  <2>1. LittleV!IsFiniteSet(C) /\ Wrong \in SUBSET SUBSET C
    BY <2>0, LittleV!FS_Subset
  <2>2. PICK A \in Wrong : \A x \in A : A \ {x} \notin Wrong
    BY <2>1, LittleV!SmallestSet
  <2>3. A \in SUBSET C /\ iter[A] # LittleV!Total(Low(A))
    OBVIOUS
  <2>4. CASE A = {}
    BY <1>1, <1>5, <2>3, <2>4
  <2>5. CASE A # {}
    <3>1. /\ Pick(A) \in A /\ A \ {Pick(A)} \in SUBSET C
          /\ LittleV!Total(Low(A)) = Worth(Pick(A)) + LittleV!Total(Low(A \ {Pick(A)}))
      BY <1>2, <2>3, <2>5
    <3>2. iter[A \ {Pick(A)}] = LittleV!Total(Low(A \ {Pick(A)}))
      BY <2>2, <3>1
    <3>3. iter[A] = Worth(Pick(A)) + iter[A \ {Pick(A)}]
      BY <1>5, <2>3, <2>5
    <3> HIDE DEF Wrong
    <3> QED BY <2>3, <3>1, <3>2, <3>3
  <2> QED BY <2>4, <2>5
<1>7. MapThenSumSet(LAMBDA i : 2^(i - 8 * k), C) = iter[C]
  BY DEF MapThenSumSet, MapThenFoldSet, iter, Folds, Pick, Worth
<1> QED BY <1>6, <1>7 DEF Low

\* A call about a memory is one that fits in it, and a move that its entry is for.
LEMMA MoveCallIs ==
  ASSUME NEW c \in MoveCalls
  PROVE  /\ c.dst \in 0 .. 7 /\ c.src \in 0 .. 7 /\ c.bytes \in 0 .. 11
         /\ c.kind \in {"down", "up", "read", "set", "cmp", "chr"}
         /\ c.kind = "down" => c.dst <= c.src \/ Mem!Apart(c.dst, c.src, c.bytes)
         /\ c.kind = "up" => c.dst >= c.src
         /\ c.kind = "read" => Mem!Apart(c.dst, c.src, c.bytes)
<1> DEFINE Moves(kinds, vals) ==
             [tool : {"moves"}, kind : kinds, dst : 0 .. 7, src : 0 .. 7, bytes : 0 .. 11, val : vals]
           RoomFor(d) ==
             CASE d.kind = "down" -> d.dst <= d.src \/ Mem!Apart(d.dst, d.src, d.bytes)
               [] d.kind = "up" -> d.dst >= d.src
               [] d.kind = "read" -> Mem!Apart(d.dst, d.src, d.bytes)
               [] OTHER -> TRUE
<1>1. MoveCalls = {d \in Moves({"down", "up", "read"}, {0}) : RoomFor(d)}
                    \cup Moves({"set", "cmp", "chr"}, {1, 2})
  BY DEF MoveCalls
<1>2. /\ c.dst \in 0 .. 7 /\ c.src \in 0 .. 7 /\ c.bytes \in 0 .. 11
      /\ c.kind \in {"down", "up", "read", "set", "cmp", "chr"}
      /\ c.kind \in {"down", "up", "read"} => RoomFor(c)
  <2>1. CASE c \in Moves({"down", "up", "read"}, {0}) /\ RoomFor(c)
    <3> HIDE DEF RoomFor
    <3> QED BY <2>1
  <2>2. CASE c \in Moves({"set", "cmp", "chr"}, {1, 2})
    <3> HIDE DEF RoomFor
    <3> QED BY <2>2
  <2> HIDE DEF Moves, RoomFor
  <2> QED BY <1>1, <2>1, <2>2
<1>3. ASSUME c.kind = "down" PROVE c.dst <= c.src \/ Mem!Apart(c.dst, c.src, c.bytes)
  <2>1. c.kind # "up" /\ c.kind # "read" /\ RoomFor(c)
    BY <1>2, <1>3
  <2> QED BY <1>3, <2>1, Zenon
<1>4. ASSUME c.kind = "up" PROVE c.dst >= c.src
  <2>1. c.kind # "down" /\ c.kind # "read" /\ RoomFor(c)
    BY <1>2, <1>4
  <2> QED BY <1>4, <2>1, Zenon
<1>5. ASSUME c.kind = "read" PROVE Mem!Apart(c.dst, c.src, c.bytes)
  <2>1. c.kind # "down" /\ c.kind # "up" /\ RoomFor(c)
    BY <1>2, <1>5
  <2> QED BY <1>5, <2>1, Zenon
<1> HIDE DEF RoomFor, Moves
<1> QED BY <1>2, <1>3, <1>4, <1>5

LEMMA PlacesAre ==
  ASSUME NEW at \in 0 .. 7, NEW bytes \in 0 .. 11
  PROVE  LittleV!IsMemory(Places) /\ LittleV!Within(Places, at, bytes)
<1>1. DOMAIN Places = 0 .. 19
  BY DEF Places
<1>2. Places = [k \in DOMAIN Places |-> Places[k]]
  BY DEF Places
<1> QED BY <1>1, <1>2 DEF LittleV!IsMemory, LittleV!Within

\* What BytesMoved asks of the answer to a call about a memory.
MovedRight(c, got) ==
  /\ c.kind \in {"down", "up", "read"} => got = Mem!MoveWanted(Places, c.dst, c.src, c.bytes)
  /\ c.kind = "set" =>
       \A k \in 0 .. 19 : got[k] = IF k \in c.dst .. c.dst + c.bytes - 1 THEN c.val ELSE k
  /\ c.kind = "cmp" => Mem!CmpWanted(Few, c.src, c.dst, c.bytes, got)
  /\ c.kind = "chr" => got = Mem!ChrWanted(Few, c.src, c.val, c.bytes)

LEMMA MovedIsRight ==
  ASSUME NEW c \in MoveCalls
  PROVE  MovedRight(c, Moved(c))
<1>1. /\ c.dst \in 0 .. 7 /\ c.src \in 0 .. 7 /\ c.bytes \in 0 .. 11
      /\ c.kind \in {"down", "up", "read", "set", "cmp", "chr"}
      /\ c.kind = "down" => c.dst <= c.src \/ Mem!Apart(c.dst, c.src, c.bytes)
      /\ c.kind = "up" => c.dst >= c.src
      /\ c.kind = "read" => Mem!Apart(c.dst, c.src, c.bytes)
  BY MoveCallIs
<1>2. LittleV!WordBytesAssumption
  BY DEF LittleV!WordBytesAssumption
<1>3. c.dst \in Nat /\ c.src \in Nat /\ c.bytes \in Nat
  BY <1>1
<1>4. \A dst, src, bytes : LittleV!Apart(dst, src, bytes) <=> Mem!Apart(dst, src, bytes)
  BY DEF LittleV!Apart, Mem!Apart
<1>5. LittleV!IsMemory(Places) /\ LittleV!Within(Places, c.src, c.bytes)
  BY <1>1, PlacesAre
<1>6. CASE c.kind = "down"
  <2>1. Moved(c) = Mem!Cpy(Places, c.dst, c.src, c.bytes)
    <3>1. /\ c.kind # "up" /\ c.kind # "read" /\ c.kind # "set" /\ c.kind # "cmp" /\ c.kind # "chr"
      BY <1>6
    <3> QED BY <1>6, <3>1, Zenon DEF Moved
  <2>2. LittleV!Cpy(Places, c.dst, c.src, c.bytes) = LittleV!MoveWanted(Places, c.dst, c.src, c.bytes)
    BY <1>1, <1>2, <1>3, <1>4, <1>5, <1>6, LittleV!CpyMoves
  <2> QED BY <1>6, <2>1, <2>2, MovesSame DEF MovedRight
<1>7. CASE c.kind = "up"
  <2>1. Moved(c) = Mem!MoveUp(Places, c.dst, c.src, c.bytes)
    <3>1. /\ c.kind # "down" /\ c.kind # "read" /\ c.kind # "set" /\ c.kind # "cmp" /\ c.kind # "chr"
      BY <1>7
    <3> QED BY <1>7, <3>1, Zenon DEF Moved
  <2>2. c.src <= c.dst
    BY <1>1, <1>3, <1>7
  <2>3. LittleV!MoveUp(Places, c.dst, c.src, c.bytes) = LittleV!MoveWanted(Places, c.dst, c.src, c.bytes)
    BY <1>2, <1>3, <1>5, <2>2, LittleV!MoveUpMoves
  <2> QED BY <1>7, <2>1, <2>3, MovesSame DEF MovedRight
<1>8. CASE c.kind = "read"
  <2>1. Moved(c) = Mem!Read(Places, c.dst, c.src, c.bytes)
    <3>1. /\ c.kind # "down" /\ c.kind # "up" /\ c.kind # "set" /\ c.kind # "cmp" /\ c.kind # "chr"
      BY <1>8
    <3> QED BY <1>8, <3>1, Zenon DEF Moved
  <2>2. LittleV!Read(Places, c.dst, c.src, c.bytes) = LittleV!MoveWanted(Places, c.dst, c.src, c.bytes)
    BY <1>1, <1>2, <1>3, <1>4, <1>5, <1>8, LittleV!ReadMoves
  <2> QED BY <1>8, <2>1, <2>2, MovesSame DEF MovedRight
<1>9. CASE c.kind = "set"
  <2>1. Moved(c) = Mem!Set(Places, c.dst, c.val, c.bytes)
    <3>1. /\ c.kind # "down" /\ c.kind # "up" /\ c.kind # "read" /\ c.kind # "cmp" /\ c.kind # "chr"
      BY <1>9
    <3> QED BY <1>9, <3>1, Zenon DEF Moved
  <2> QED BY <1>9, <2>1 DEF MovedRight, Mem!Set, Places
<1>10. CASE c.kind = "cmp"
  <2>1. Moved(c) = Mem!Cmp(Few, c.src, c.dst, c.bytes)
    <3>1. /\ c.kind # "down" /\ c.kind # "up" /\ c.kind # "read" /\ c.kind # "set" /\ c.kind # "chr"
      BY <1>10
    <3> QED BY <1>10, <3>1, Zenon DEF Moved
  <2>2. LittleV!CmpWanted(Few, c.src, c.dst, c.bytes, LittleV!Cmp(Few, c.src, c.dst, c.bytes))
    BY <1>2, <1>3, LittleV!CmpFinds
  <2> QED BY <1>10, <2>1, <2>2, ScansSame DEF MovedRight
<1>11. CASE c.kind = "chr"
  <2>1. Moved(c) = Mem!Chr(Few, c.src, c.val, c.bytes)
    <3>1. /\ c.kind # "down" /\ c.kind # "up" /\ c.kind # "read" /\ c.kind # "set" /\ c.kind # "cmp"
      BY <1>11
    <3> QED BY <1>11, <3>1, Zenon DEF Moved
  <2>2. LittleV!Chr(Few, c.src, c.val, c.bytes) = LittleV!ChrWanted(Few, c.src, c.val, c.bytes)
    BY <1>2, <1>3, LittleV!ChrFinds
  <2> QED BY <1>11, <2>1, <2>2, ScansSame DEF MovedRight
<1> QED BY <1>1, <1>6, <1>7, <1>8, <1>9, <1>10, <1>11

\* A byte of a value, summed from its bits, is the byte stored.
LEMMA ByteSummed ==
  ASSUME NEW V \in SUBSET Wide, NEW width \in 0 .. 8, NEW k \in 0 .. width - 1
  PROVE  E!ByteAt(V, k) = MapThenSumSet(LAMBDA i : 2^(i - 8 * k), Kept(V, width) \cap 8 * k .. 8 * k + 7)
<1> DEFINE C == Kept(V, width) \cap 8 * k .. 8 * k + 7
           Low == {b \in 0 .. 7 : 8 * k + b \in C}
<1>1. k \in Nat /\ k \in 0 .. 7 /\ C \in SUBSET (8 * k .. 8 * k + 7)
  OBVIOUS
<1>2. Low = OfByte(V, k)
  <2>1. \A b \in 0 .. 7 : 8 * k + b \in C <=> 8 * k + b \in V
    <3>1. \A b \in 0 .. 7 : 8 * k + b \in 0 .. 8 * width - 1 /\ 8 * k + b \in 8 * k .. 8 * k + 7
      OBVIOUS
    <3> QED BY <3>1 DEF Kept
  <2> QED BY <2>1 DEF OfByte, Has
<1>3. OfByte(V, k) \in SUBSET (0 .. 7)
  BY DEF OfByte
<1> HIDE DEF C
<1>4. MapThenSumSet(LAMBDA i : 2^(i - 8 * k), C) = LittleV!Total(Low)
  BY <1>1, SumOfByte
<1> HIDE DEF Low
<1>5. E!NumberOf(OfByte(V, k)) = LittleV!Total(OfByte(V, k))
  BY <1>3, LittleV!NumberIs, EightNumber
<1>6. E!ByteAt(V, k) = MapThenSumSet(LAMBDA i : 2^(i - 8 * k), C)
  BY <1>1, <1>2, <1>4, <1>5, ByteAtIs
<1> QED BY <1>6 DEF C

\* The byte in place k of a reversal is the byte as far from the other end.
LEMMA ByteReversed ==
  ASSUME NEW V \in SUBSET Wide, NEW width \in 1 .. 8, NEW k \in 0 .. width - 1
  PROVE  E!ByteAt(E!Rev(V, width), k) = E!ByteAt(V, width - 1 - k)
<1>1. /\ E!Rev(V, width) \in SUBSET Wide
      /\ \A j \in 0 .. 7, b \in 0 .. 7 : Has(E!Rev(V, width), j, b) <=> j < width /\ Has(V, width - 1 - j, b)
  BY RevIs
<1>2. k \in 0 .. 7 /\ k < width /\ width - 1 - k \in 0 .. 7
  OBVIOUS
<1>3. OfByte(E!Rev(V, width), k) = OfByte(V, width - 1 - k)
  BY <1>1, <1>2 DEF OfByte
<1> QED BY <1>1, <1>2, <1>3, ByteAtIs

LEMMA EndCallIs ==
  ASSUME NEW c \in EndCalls
  PROVE  c.value \in SUBSET Wide /\ c.width \in {2, 3, 4, 8} /\ c.at \in 0 .. 1
<1>1. /\ c.value \in {{}, {0}, {0, 9, 17, 31}, {7, 8, 63}, 0 .. 63, {3, 12, 40, 54}}
      /\ c.width \in {2, 3, 4, 8} /\ c.at \in 0 .. 1
  BY DEF EndCalls
<1>2. /\ {} \in SUBSET Wide /\ {0} \in SUBSET Wide /\ {0, 9, 17, 31} \in SUBSET Wide
      /\ {7, 8, 63} \in SUBSET Wide /\ 0 .. 63 \in SUBSET Wide /\ {3, 12, 40, 54} \in SUBSET Wide
  BY DEF Wide
<1> QED BY <1>1, <1>2

\* What BytesMoved asks of the answer to a call about an order.
EndsWithin(c, got, width) ==
  LET kept == c.value \cap 0 .. 8 * width - 1
      byte(k) == MapThenSumSet(LAMBDA i : 2^(i - 8 * k), kept \cap 8 * k .. 8 * k + 7)
  IN  /\ got.rd_le = kept
      /\ got.little = [k \in 0 .. 9 |-> IF k - c.at \in 0 .. width - 1 THEN byte(k - c.at) ELSE 9]
      /\ c.width # 3 =>
           /\ got.rd_be = kept
           /\ got.big = [k \in 0 .. 9 |->
                IF k - c.at \in 0 .. width - 1 THEN byte(width - 1 - k + c.at) ELSE 9]

EndsRight(c, got) == EndsWithin(c, got, IF c.width \in {2, 4} THEN c.width ELSE 8)

EndsAnswer(c) ==
  [little |-> E!WrLe(Nines, c.at, c.value, c.width), big |-> E!WrBe(Nines, c.at, c.value, c.width),
   rd_le |-> E!RdLe(E!WrLe(Nines, c.at, c.value, c.width), c.at, c.width),
   rd_be |-> E!RdBe(E!WrBe(Nines, c.at, c.value, c.width), c.at, c.width)]

LEMMA EndsAreRight ==
  ASSUME NEW c \in EndCalls
  PROVE  EndsRight(c, EndsAnswer(c))
<1> DEFINE width == E!WidthOf(c.width)
           kept == Kept(c.value, width)
           byte(k) == MapThenSumSet(LAMBDA i : 2^(i - 8 * k), kept \cap 8 * k .. 8 * k + 7)
<1>1. c.value \in SUBSET Wide /\ c.width \in {2, 3, 4, 8} /\ c.at \in 0 .. 1
  BY EndCallIs
<1>2. /\ width = IF c.width \in {2, 4} THEN c.width ELSE 8
      /\ width \in 1 .. 8 /\ width \in 0 .. 8 /\ (c.width # 3 => width = c.width)
  BY <1>1 DEF E!WidthOf
<1>3. IsPart(Nines, c.at, width)
  <2>1. DOMAIN Nines = 0 .. 9
    BY DEF Nines
  <2> QED BY <1>1, <1>2, <2>1 DEF IsPart
<1>4. c.at \in Int /\ c.width \in Nat
  BY <1>1
<1>5. /\ E!RdLe(E!WrLe(Nines, c.at, c.value, c.width), c.at, c.width) = kept
      /\ c.width # 3 => E!RdBe(E!WrBe(Nines, c.at, c.value, c.width), c.at, c.width) = kept
  BY <1>1, <1>3, <1>4, OrdersKept
<1> HIDE DEF width
<1>6. \A k \in 0 .. width - 1 : E!ByteAt(c.value, k) = byte(k)
  BY <1>1, <1>2, ByteSummed
<1> HIDE DEF kept, byte
<1>7. E!WrLe(Nines, c.at, c.value, c.width)
        = [k \in 0 .. 9 |-> IF k - c.at \in 0 .. width - 1 THEN byte(k - c.at) ELSE 9]
  <2>1. E!WrLe(Nines, c.at, c.value, c.width) =
          [k \in 0 .. 9 |-> IF k \in c.at .. c.at + width - 1 THEN E!ByteAt(c.value, k - c.at) ELSE 9]
    BY DEF E!WrLe, E!Stored, Nines, width
  <2>2. \A k \in 0 .. 9 : k \in c.at .. c.at + width - 1 <=> k - c.at \in 0 .. width - 1
    BY <1>1, <1>2
  <2> QED BY <1>6, <2>1, <2>2
<1>8. ASSUME c.width # 3
      PROVE  E!WrBe(Nines, c.at, c.value, c.width)
        = [k \in 0 .. 9 |-> IF k - c.at \in 0 .. width - 1 THEN byte(width - 1 - k + c.at) ELSE 9]
  <2>1. E!WrBe(Nines, c.at, c.value, c.width) =
          [k \in 0 .. 9 |-> IF k \in c.at .. c.at + width - 1
                            THEN E!ByteAt(E!Rev(c.value, width), k - c.at) ELSE 9]
    BY <1>2, <1>8 DEF E!WrBe, E!Stored, Nines, width
  <2>2. \A k \in 0 .. 9 : k \in c.at .. c.at + width - 1 =>
          /\ k - c.at \in 0 .. width - 1 /\ width - 1 - (k - c.at) \in 0 .. width - 1
          /\ width - 1 - (k - c.at) = width - 1 - k + c.at
    BY <1>1, <1>2
  <2>3. \A k \in 0 .. 9 : k - c.at \in 0 .. width - 1 => k \in c.at .. c.at + width - 1
    BY <1>1, <1>2
  <2>4. \A j \in 0 .. width - 1 : E!ByteAt(E!Rev(c.value, width), j) = E!ByteAt(c.value, width - 1 - j)
    BY <1>1, <1>2, ByteReversed
  <2>5. \A k \in 0 .. 9 : k \in c.at .. c.at + width - 1 =>
          E!ByteAt(E!Rev(c.value, width), k - c.at) = byte(width - 1 - k + c.at)
    <3> SUFFICES ASSUME NEW k \in 0 .. 9, k \in c.at .. c.at + width - 1
                 PROVE  E!ByteAt(E!Rev(c.value, width), k - c.at) = byte(width - 1 - k + c.at)
      OBVIOUS
    <3>1. E!ByteAt(E!Rev(c.value, width), k - c.at) = E!ByteAt(c.value, width - 1 - (k - c.at))
      BY <2>2, <2>4
    <3>2. E!ByteAt(c.value, width - 1 - (k - c.at)) = byte(width - 1 - (k - c.at))
      BY <1>6, <2>2
    <3> QED BY <2>2, <3>1, <3>2
  <2> QED BY <2>1, <2>2, <2>3, <2>5
<1> DEFINE got == EndsAnswer(c)
<1>9. /\ got.little = E!WrLe(Nines, c.at, c.value, c.width)
      /\ got.big = E!WrBe(Nines, c.at, c.value, c.width)
      /\ got.rd_le = E!RdLe(E!WrLe(Nines, c.at, c.value, c.width), c.at, c.width)
      /\ got.rd_be = E!RdBe(E!WrBe(Nines, c.at, c.value, c.width), c.at, c.width)
  BY DEF EndsAnswer
<1> HIDE DEF got
<1>10. /\ got.rd_le = kept
       /\ got.little = [k \in 0 .. 9 |-> IF k - c.at \in 0 .. width - 1 THEN byte(k - c.at) ELSE 9]
       /\ c.width # 3 =>
            /\ got.rd_be = kept
            /\ got.big = [k \in 0 .. 9 |->
                 IF k - c.at \in 0 .. width - 1 THEN byte(width - 1 - k + c.at) ELSE 9]
  BY <1>5, <1>7, <1>8, <1>9
<1>11. EndsWithin(c, got, width)
  BY <1>10, Zenon DEF EndsWithin, kept, byte, Kept
<1>12. EndsRight(c, got)
  BY <1>2, <1>11 DEF EndsRight
<1> QED BY <1>12 DEF got

LEMMA MoveStep ==
  ASSUME CallInv, AnswerMove
  PROVE  MovedRight(call, answer'[1]) /\ call \in MoveCalls
<1>1. call \in MoveCalls
  BY DEF CallInv, AnswerMove, Is
<1>2. answer'[1] = Moved(call)
  BY DEF AnswerMove, Answer
<1> QED BY <1>1, <1>2, MovedIsRight

LEMMA EndsStep ==
  ASSUME CallInv, AnswerEnds
  PROVE  EndsRight(call, answer'[1])
<1>1. call \in EndCalls
  BY DEF CallInv, AnswerEnds, Is
<1>2. answer'[1] = EndsAnswer(call)
  BY EndianSame DEF AnswerEnds, Answer, EndsAnswer
<1> QED BY <1>1, <1>2, EndsAreRight

\* At every answer about a memory or an order.
BytesInv ==
  /\ Answered("moves") => call \in MoveCalls /\ MovedRight(call, answer[1])
  /\ Answered("ends") => EndsRight(call, answer[1])

LEMMA BytesKept == ASSUME CallInv, BytesInv, [PuraNext]_puraVars PROVE BytesInv'
<1>1. CASE UNCHANGED puraVars
  BY <1>1 DEF BytesInv, Answered, puraVars
<1>2. ASSUME NEW batch, Ask(batch) PROVE BytesInv'
  BY <1>2 DEF Ask, CallInv, BytesInv, Answered
<1>3. CASE AnswerMove
  <2>1. call' = call /\ call.tool = "moves"
    BY <1>3 DEF AnswerMove, Is, Answer
  <2> QED BY <1>3, <2>1, MoveStep DEF BytesInv, Answered
<1>4. CASE AnswerEnds
  <2>1. call' = call /\ call.tool = "ends"
    BY <1>4 DEF AnswerEnds, Is, Answer
  <2> QED BY <1>4, <2>1, EndsStep DEF BytesInv, Answered
<1>5. CASE AnswerLanes \/ AnswerMasks
  <2>1. call' = call /\ call.tool \in {"lanes", "masks"}
    BY <1>5 DEF AnswerLanes, AnswerMasks, Is, Answer
  <2> QED BY <2>1 DEF BytesInv, Answered
<1>6. CASE call' = call /\ call.tool \in {"strings", "finds", "numbers", "prints", "rounds"}
  BY <1>6 DEF BytesInv, Answered
<1> QED BY <1>1, <1>2, <1>3, <1>4, <1>5, <1>6, StepIs

LEMMA BytesInvMoved == ASSUME BytesInv PROVE BytesMoved
<1>1. ASSUME Answered("moves")
      PROVE  CASE call.kind \in {"down", "up", "read"} ->
                    answer[1] = Mem!MoveWanted(Places, call.dst, call.src, call.bytes)
               [] call.kind = "set" ->
                    \A k \in 0 .. 19 :
                      answer[1][k] = IF k \in call.dst .. call.dst + call.bytes - 1 THEN call.val ELSE k
               [] call.kind = "cmp" -> Mem!CmpWanted(Few, call.src, call.dst, call.bytes, answer[1])
               [] call.kind = "chr" -> answer[1] = Mem!ChrWanted(Few, call.src, call.val, call.bytes)
  <2>1. MovedRight(call, answer[1]) /\ call.kind \in {"down", "up", "read", "set", "cmp", "chr"}
    BY <1>1, MoveCallIs DEF BytesInv
  <2>2. CASE call.kind \in {"down", "up", "read"}
    <3>1. call.kind # "set" /\ call.kind # "cmp" /\ call.kind # "chr"
      BY <2>2
    <3> QED BY <2>1, <2>2, <3>1, Zenon DEF MovedRight
  <2>3. CASE call.kind = "set"
    <3>1. call.kind \notin {"down", "up", "read"} /\ call.kind # "cmp" /\ call.kind # "chr"
      BY <2>3
    <3> QED BY <2>1, <2>3, <3>1, Zenon DEF MovedRight
  <2>4. CASE call.kind = "cmp"
    <3>1. call.kind \notin {"down", "up", "read"} /\ call.kind # "set" /\ call.kind # "chr"
      BY <2>4
    <3> QED BY <2>1, <2>4, <3>1, Zenon DEF MovedRight
  <2>5. CASE call.kind = "chr"
    <3>1. call.kind \notin {"down", "up", "read"} /\ call.kind # "set" /\ call.kind # "cmp"
      BY <2>5
    <3> QED BY <2>1, <2>5, <3>1, Zenon DEF MovedRight
  <2> QED BY <2>1, <2>2, <2>3, <2>4, <2>5
<1>2. Answered("ends") => EndsRight(call, answer[1])
  BY DEF BytesInv
<1> QED BY <1>1, <1>2, Zenon DEF BytesMoved, EndsRight, EndsWithin

\* memoria_operor.c, proximus_operor.c and endian.c: at every answer a move over itself moved
\* every byte as it was, a scan answered for its extent, and a width read back in its order.
THEOREM BytesMovedAlways == Spec => []BytesMoved
<1>1. PuraInit => BytesInv
  BY DEF PuraInit, BytesInv, Answered
<1>2. CallInv /\ BytesInv /\ [PuraNext]_puraVars => BytesInv'
  BY BytesKept
<1>3. BytesInv => BytesMoved
  BY BytesInvMoved
<1> QED BY <1>1, <1>2, <1>3, CallsOnly, PuraOnly, PTL
-----------------------------------------------------------------------------
(* The span and the bit writer, among the tools.                           *)

LEMMA FluxOnly == Spec => FluxSpec
<1>1. Init => FluxInit
  BY DEF Init
<1>2. [Next]_vars => [SpanNext \/ BitNext]_fluxVars
  BY DEF Next, PuraStep, LineaStep, NumerosStep, SpatiumStep, BitorumStep, vars
<1> QED BY <1>1, <1>2, PTL DEF Spec, FluxSpec

\* Whichever tool is at work, the bits written are the bits asked.
THEOREM BitsMirrorAlways == Spec => []BitsMirror
BY FluxOnly, BitsMirrorHolds, PTL

\* Whichever tool is at work, what is read back is what was written, in order, and what does not
\* fit changes nothing.
THEOREM ReadsMirrorWritesAlways == Spec => []ReadsMirrorWrites
BY FluxOnly, ReadsMirrorWritesHolds, PTL
=============================================================================
