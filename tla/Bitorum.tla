--------------------------------- MODULE Bitorum ---------------------------------
(***************************************************************************)
(* bitorum_introitus_exitus: bits appended to a buffer, the first in the   *)
(* low bit of a byte.  What does not fill a byte waits in the residue.  A  *)
(* value is the set of its set bits.                                       *)
(***************************************************************************)
EXTENDS Integers

INSTANCE VerbaBitorum WITH WordBits <- 64

InitWriter(cap, fill) ==
  [out |-> [k \in 0 .. cap + 1 |-> fill], cap |-> cap, bytes_written |-> 0,
   residue |-> {}, bit_count |-> 0, overflow |-> FALSE]

\* Whole bytes from the residue on, and what is left of the bits as the new residue.
Put(w, val, count) ==
  LET whole == (w.bit_count + count) \div 8
      work == val \cap 0 .. count - 1
      take == 8 - w.bit_count
      first == w.residue \cup (ShiftUp(work \cap 0 .. 7, w.bit_count) \cap 0 .. 7)
      after == ShiftDown(work, take)
      left == IF whole = 0 THEN count ELSE count - take - 8 * (whole - 1)
      rest == IF whole = 0 THEN work ELSE ShiftDown(after, 8 * (whole - 1))
      tail == rest \cap 0 .. left - 1
      held == IF whole = 0 THEN w.bit_count ELSE 0
  IN  CASE w.overflow -> w
        [] ~w.overflow /\ whole > w.cap - w.bytes_written ->
             [w EXCEPT !.overflow = TRUE, !.bit_count = 0, !.residue = {}]
        [] OTHER ->
             [w EXCEPT
               !.out = [k \in DOMAIN @ |->
                          LET index == k - w.bytes_written
                          IN  CASE index \notin 0 .. whole - 1 -> @[k]
                                [] index = 0 /\ whole # 0 -> NumberOf(first)
                                [] OTHER -> NumberOf(ShiftDown(after, 8 * (index - 1)) \cap 0 .. 7)],
               !.residue = (IF whole = 0 THEN @ ELSE {}) \cup ShiftUp(tail, held),
               !.bit_count = held + left,
               !.bytes_written = @ + whole]

Align(w) ==
  CASE w.overflow \/ w.bit_count = 0 -> w
    [] ~w.overflow /\ w.bit_count # 0 /\ w.bytes_written >= w.cap -> [w EXCEPT !.overflow = TRUE]
    [] OTHER -> [w EXCEPT !.out[w.bytes_written] = NumberOf(w.residue), !.bytes_written = @ + 1,
                          !.residue = {}, !.bit_count = 0]
=============================================================================
