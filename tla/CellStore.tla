------------------------------ MODULE CellStore ------------------------------
(***************************************************************************)
(* What the allocator promises its callers: a set of cells taken, each a   *)
(* run of bytes of the block counted to an owner, no two of which share a  *)
(* byte.  A cell comes in whole, goes out whole, and changes only by       *)
(* growing over bytes no other cell has.                                   *)
(***************************************************************************)
EXTENDS Integers

CONSTANTS
  Bytes,    \* bytes of the block
  Holders   \* the owners a cell may count to

VARIABLE taken   \* the cells taken: records of from, to and owner

IsCell(x) ==
  /\ x.from \in Nat /\ x.to \in Nat /\ x.owner \in Holders
  /\ x.from < x.to /\ x.to <= Bytes

Apart(x, y) == x.to <= y.from \/ y.to <= x.from

ClearOf(x, cells) == \A y \in cells : Apart(x, y)

StoreInit == taken = {}

TakeCell ==
  \E x \in taken' \ taken :
    /\ IsCell(x) /\ ClearOf(x, taken)
    /\ taken' = taken \cup {x}

GiveCell ==
  \E x \in taken : taken' = taken \ {x}

GrowCell ==
  \E x \in taken \ taken', y \in taken' \ taken :
    /\ IsCell(y) /\ y.owner = x.owner
    /\ y.from <= x.from /\ x.to <= y.to
    /\ ClearOf(y, taken \ {x})
    /\ taken' = (taken \ {x}) \cup {y}

StoreNext == TakeCell \/ GiveCell \/ GrowCell

StoreSpec == StoreInit /\ [][StoreNext]_taken
-----------------------------------------------------------------------------
(* What an implementation's users rely on.                                 *)

StoreInv ==
  /\ \A x \in taken : IsCell(x)
  /\ \A x, y \in taken : x # y => Apart(x, y)
=============================================================================
