----------------------------- MODULE CarcerWord -----------------------------
(***************************************************************************)
(* The arithmetic of a cellblock: a request rounded to a payload, a cell's *)
(* end, and the bounds word that carries the persistent end in its low     *)
(* half and the temporary top in its high half.                            *)
(*                                                                         *)
(* A bounds word is the record of its two halves, each 0 .. Half - 1.  The *)
(* one fetch-add of a take acts on the whole word, so an add to the low    *)
(* half carries into the high one, and what leaves the high half is lost.  *)
(***************************************************************************)
EXTENDS Integers

CONSTANTS
  Half,      \* 2^MMGR_CARCER_HALF_BITS, one past what a half of the word holds
  Size,      \* bytes of the cellblock
  Align,     \* MMGR_CARCER_ALIGN
  Hdr,       \* CARCER_HDR: a cell's header and its owner word
  WantMost   \* MMGR_CARCER_WANT_MOST, the most payload one bump may ask

(* MMGR_CARCER_BYTES_MOST is half of a half's reach. *)
BytesMost == Half \div 2

(* The most bytes one bump moves its boundary by. *)
NeedMost == Hdr + WantMost

ASSUME WordAssumption ==
  /\ Half \in Nat /\ Size \in Nat /\ Align \in Nat
  /\ Hdr \in Nat /\ WantMost \in Nat
  /\ Align > 0 /\ Hdr > 0
  /\ 0 < Size /\ Size <= BytesMost
  /\ NeedMost < Half

Halves == 0 .. Half - 1
Word == [end : Halves, top : Halves]

carcer_bounds(end, top) == [end |-> end % Half, top |-> top % Half]

-----------------------------------------------------------------------------
(* The payload a request carries: rounded up to Align, Align for nothing. *)
carcer_want(want) ==
  LET asked == IF want = 0 THEN Align ELSE want
  IN  ((asked + Align - 1) \div Align) * Align

carcer_end_of(off, size) == off + Hdr + size

-----------------------------------------------------------------------------
(* The fetch-add of a bump up.  The carry out of the low half is the        *)
(* hazard the two limits of the bump exist to keep away.                    *)
BumpedUp(word, need) ==
  IF word.end + need < Half
  THEN [word EXCEPT !.end = @ + need]
  ELSE [end |-> word.end + need - Half, top |-> (word.top + 1) % Half]

(* The fetch-add of a bump down: the borrow leaves the word. *)
BumpedDown(word, need) ==
  [word EXCEPT !.top = IF need <= @ THEN @ - need ELSE @ - need + Half]

(* Mutant of FitsUp: a top that a bump down wrapped reads as room. *)
FitsUpPastSize(word, need) == word.end + need <= word.top

(* Whether the old word had room for a bump up of need bytes: the other     *)
(* boundary is read at the same instant, and one past the cellblock's size  *)
(* is a bump down that wrapped.                                             *)
FitsUp(word, need) ==
  /\ word.end + need <= word.top
  /\ word.top <= Size

(* Whether the old word had room for a bump down: the difference is taken   *)
(* at the word's own width, where a wrapped one is far past the size.       *)
FitsDown(word, need) ==
  /\ need <= word.top
  /\ word.top - need >= word.end
  /\ word.top - need <= Size

(* Mutant of Settled: the difference not cut to its half. *)
SettledUncut(word, over) == [end |-> word.end - over.end, top |-> word.top + over.top]

(* The word at rest: each tier's overrun taken back off its boundary. *)
Settled(word, over) == carcer_bounds(word.end - over.end, word.top + over.top)
=============================================================================
