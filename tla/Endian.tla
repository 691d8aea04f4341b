--------------------------------- MODULE Endian ---------------------------------
(***************************************************************************)
(* endian, and the loads and stores of proximus_operor it is built on.  A  *)
(* memory is a function from addresses to bytes, a value the set of its    *)
(* set bits.  The processor stores the low byte first.                     *)
(***************************************************************************)
EXTENDS Integers

INSTANCE VerbaBitorum WITH WordBits <- 64

ByteAt(value, k) == NumberOf(ShiftDown(value, 8 * k) \cap 0 .. 7)

\* proxim.put16, put32 and put64: width bytes at an address.
Stored(mem, at, value, width) ==
  [k \in DOMAIN mem |-> IF k \in at .. at + width - 1 THEN ByteAt(value, k - at) ELSE mem[k]]

\* proxim.load16, load32 and load64.
Loaded(mem, at, width) == UNION {ShiftUp(BitsOf(mem[at + k]), 8 * k) : k \in 0 .. width - 1}

\* The bytes in an even place, by one, of the pieces of a size.
Evens(size) == {i \in Positions : (i \div size) % 2 = 0}

Swapped(value, size) ==
  ShiftUp(value \cap Evens(size), size) \cup (ShiftDown(value, size) \cap Evens(size))

Rev(value, width) == ShiftDown(Swapped(Swapped(Swapped(value, 8), 16), 32), 8 * (8 - width))

\* A width that is none of the three moves eight bytes.
WidthOf(width) == IF width \in {2, 4} THEN width ELSE 8

WrLe(mem, at, value, width) == Stored(mem, at, value, WidthOf(width))
WrBe(mem, at, value, width) == Stored(mem, at, Rev(value, width), WidthOf(width))

RdLe(mem, at, width) == Loaded(mem, at, WidthOf(width))
RdBe(mem, at, width) == Rev(Loaded(mem, at, WidthOf(width)), width)
=============================================================================
