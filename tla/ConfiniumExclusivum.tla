-------------------------- MODULE ConfiniumExclusivum --------------------------
(***************************************************************************)
(* confinium_exclusivum_infinitas.c: the ring with its state opaque to the *)
(* consumer, written before memoria_anularis.c and kept beside it.  Its    *)
(* own translation, load by load: a call that reads both cursors takes a   *)
(* step for each, a move is the loop of two passes the file writes, and a  *)
(* segment is reached through the index its call handed out.  The views at *)
(* the end say what the contexts' locals are to a ring of memoria_anularis.*)
(***************************************************************************)
EXTENDS Integers, Sequences

CONSTANTS CapacityMost, Width, Values, Loculi, Holders

VARIABLES
  cap, nsegs, seg, use,  \* as init laid them, and the view this ring's callers work
  buf, head, tail, claim, rel, gratis, pinned, keep,
  filler,   \* the producer: [pc, bytes, h, t, to, n, done, moved, idx, promise]
  drainer,  \* the consumer: [pc, bytes, h, at, from, n, done, dst, seen]
  opener,   \* per context that holds loculi: [pc, mask, idx]
  next,     \* the producer's next byte
  handed    \* what the last finished read or peek copied out

laid == <<cap, nsegs, seg, use>>
loculi == <<gratis, pinned, keep, opener>>
cursors == <<head, tail, claim, rel>>
vars == <<laid, buf, cursors, loculi, filler, drainer, next, handed>>

----------------------------------------------------------------------------
POW2(c) == c = 0 \/ \E k \in 0 .. c : c = 2 ^ k
WRAP(i, c) == i % c

(* How a move of want bytes from at divides at the end of the buffer. *)
ring_run(at, want) ==
  LET n == IF want > cap THEN cap ELSE want
      room == cap - at
  IN  [n |-> n, first |-> IF room < n THEN room ELSE n]

ring_used(h, t) == WRAP(h - t, cap)
ring_free(h, t) == (cap - 1) - ring_used(h, t)

ring_loculus_all == 0 .. Loculi - 1

Filling(promise) ==
  [pc |-> "idle", bytes |-> 0, h |-> 0, t |-> 0, to |-> 0, n |-> 0, done |-> 0,
   moved |-> 0, idx |-> 0, promise |-> promise]
Draining(seen) ==
  [pc |-> "idle", bytes |-> 0, h |-> 0, at |-> 0, from |-> 0, n |-> 0, done |-> 0,
   dst |-> <<>>, seen |-> seen]
Opening == [pc |-> "idle", mask |-> {}, idx |-> 0]

(* mmgr_infin_init over the sizes it accepts; a refused one lays nothing. *)
infin_init ==
  /\ cap \in 1 .. CapacityMost /\ POW2(cap)
  /\ nsegs \in 1 .. cap /\ POW2(nsegs)
  /\ seg = cap \div nsegs
  /\ use \in {"stream", "segments", "loculi"}
  /\ buf = [i \in 0 .. cap - 1 |-> Values]
  /\ head = 0 /\ tail = 0 /\ claim = 0 /\ rel = 0
  /\ gratis = ring_loculus_all /\ pinned = {}
  /\ keep = [i \in ring_loculus_all |-> [buf |-> "null", cap |-> "none", pos |-> 0]]
  /\ filler = Filling(0) /\ drainer = Draining(0)
  /\ opener = [c \in Holders |-> Opening]
  /\ next = 0 /\ handed = <<>>

----------------------------------------------------------------------------
(* The producer. *)

Fills(view, pc, to) ==
  /\ use = view /\ filler.pc = pc
  /\ filler' = to
  /\ UNCHANGED <<laid, tail, rel, loculi, drainer, handed>>

(* The two loads are arguments of one call: either may come first. *)
infin_vacant ==
  /\ \/ Fills("stream", "idle", [filler EXCEPT !.pc = "vacant tail", !.h = head])
     \/ Fills("stream", "idle", [filler EXCEPT !.pc = "vacant head", !.t = tail])
     \/ Fills("stream", "vacant tail", Filling(ring_free(filler.h, tail)))
     \/ Fills("stream", "vacant head", Filling(ring_free(head, filler.t)))
  /\ UNCHANGED <<buf, head, claim, next>>

(* put loads the head, then the tail, and refuses the span whole or moves  *)
(* it: its bytes are not looked at before.                                 *)
infin_put ==
  /\ Fills("stream", "idle", [filler EXCEPT !.pc = "put", !.h = head])
  /\ UNCHANGED <<buf, head, claim, next>>

infin_put_fits(bytes) ==
  /\ Fills("stream", "put",
       IF bytes > ring_free(filler.h, tail) THEN Filling(filler.promise)
       ELSE [filler EXCEPT !.pc = "move_in", !.bytes = bytes, !.to = filler.h,
                           !.n = ring_run(filler.h, bytes).first])
  /\ UNCHANGED <<buf, head, claim, next>>

(* Mutant of ring_move_in: the second pass begins where the first did. *)
ring_move_in_unturned ==
  LET r == ring_run(filler.h, filler.bytes)
      moved == filler.moved + 1
  IN  /\ filler.done < r.n
      /\ Fills("stream", "move_in",
           IF moved < filler.done + filler.n THEN [filler EXCEPT !.moved = moved]
           ELSE [filler EXCEPT !.moved = moved, !.done = moved, !.n = r.n - moved])
      /\ buf' = [buf EXCEPT ![filler.to + (filler.moved - filler.done)]
                              = (next + filler.moved) % Values]
      /\ UNCHANGED <<head, claim, next>>

(* One byte of a pass; the last turns to the next: done += n, to = 0.      *)
ring_move_in ==
  LET r == ring_run(filler.h, filler.bytes)
      moved == filler.moved + 1
  IN  /\ filler.done < r.n
      /\ Fills("stream", "move_in",
           IF moved < filler.done + filler.n THEN [filler EXCEPT !.moved = moved]
           ELSE [filler EXCEPT !.moved = moved, !.done = moved, !.to = 0, !.n = r.n - moved])
      /\ buf' = [buf EXCEPT ![filler.to + (filler.moved - filler.done)]
                              = (next + filler.moved) % Values]
      /\ UNCHANGED <<head, claim, next>>

infin_put_done ==
  LET r == ring_run(filler.h, filler.bytes)
  IN  /\ filler.done >= r.n
      /\ Fills("stream", "move_in",
           Filling(IF filler.bytes < filler.promise THEN filler.promise - filler.bytes ELSE 0))
      /\ head' = WRAP(filler.h + r.n, cap)
      /\ next' = (next + filler.bytes) % Values
      /\ UNCHANGED <<buf, claim>>

(* seg_next loads its own counter, then the other side's, and hands an     *)
(* index out only when fewer segments are in flight than there are.        *)
infin_seg_next ==
  /\ Fills("segments", "idle", [filler EXCEPT !.pc = "seg_next", !.h = claim])
  /\ UNCHANGED <<buf, head, claim, next>>

(* Mutant of infin_seg_next_pick: one segment too many let in flight. *)
infin_seg_next_pick_past ==
  /\ Fills("segments", "seg_next",
       IF (filler.h - rel) % 2 ^ Width <= nsegs
       THEN [filler EXCEPT !.pc = "fill", !.idx = WRAP(filler.h, nsegs)]
       ELSE Filling(filler.promise))
  /\ UNCHANGED <<buf, head, claim, next>>

infin_seg_next_pick ==
  /\ Fills("segments", "seg_next",
       IF (filler.h - rel) % 2 ^ Width < nsegs
       THEN [filler EXCEPT !.pc = "fill", !.idx = WRAP(filler.h, nsegs)]
       ELSE Filling(filler.promise))
  /\ UNCHANGED <<buf, head, claim, next>>

infin_seg_at(idx) == idx * seg

infin_seg_fill ==
  /\ filler.moved < seg
  /\ Fills("segments", "fill", [filler EXCEPT !.moved = @ + 1])
  /\ buf' = [buf EXCEPT ![infin_seg_at(filler.idx) + filler.moved] = (next + filler.moved) % Values]
  /\ UNCHANGED <<head, claim, next>>

infin_seg_publish ==
  /\ filler.moved = seg
  /\ Fills("segments", "fill", Filling(filler.promise))
  /\ claim' = (claim + 1) % 2 ^ Width
  /\ next' = (next + seg) % Values
  /\ UNCHANGED <<buf, head>>

----------------------------------------------------------------------------
(* The consumer. *)

Drains(view, pc, to) ==
  /\ use = view /\ drainer.pc = pc
  /\ drainer' = to
  /\ UNCHANGED <<laid, buf, head, claim, loculi, filler, next>>

infin_available ==
  /\ \/ Drains("stream", "idle", [drainer EXCEPT !.pc = "available head", !.at = tail])
     \/ Drains("stream", "idle", [drainer EXCEPT !.pc = "available tail", !.h = head])
     \/ Drains("stream", "available head", Draining(ring_used(head, drainer.at)))
     \/ Drains("stream", "available tail", Draining(ring_used(drainer.h, tail)))
  /\ UNCHANGED <<tail, rel, handed>>

(* read_byte loads the tail, then the head, and takes a byte when they differ. *)
infin_read_byte ==
  /\ Drains("stream", "idle", [drainer EXCEPT !.pc = "read_byte", !.at = tail])
  /\ UNCHANGED <<tail, rel, handed>>

infin_read_byte_any ==
  /\ Drains("stream", "read_byte",
       IF drainer.at = head THEN Draining(drainer.seen)
       ELSE [drainer EXCEPT !.pc = "byte", !.bytes = 1])
  /\ UNCHANGED <<tail, rel, handed>>

infin_read_byte_copy ==
  /\ drainer.dst = <<>>
  /\ Drains("stream", "byte", [drainer EXCEPT !.dst = <<buf[drainer.at]>>])
  /\ UNCHANGED <<tail, rel, handed>>

Left(bytes) == IF bytes < drainer.seen THEN drainer.seen - bytes ELSE 0

infin_read_byte_done ==
  /\ drainer.dst # <<>>
  /\ Drains("stream", "byte", Draining(Left(1)))
  /\ tail' = WRAP(drainer.at + 1, cap)
  /\ handed' = drainer.dst
  /\ UNCHANGED rel

(* The first pass of a move of want bytes out from at. *)
MoveOutOf(call, at, want) ==
  [drainer EXCEPT !.pc = call, !.at = at, !.bytes = want, !.from = at,
                  !.n = ring_run(at, want).first]

infin_read ==
  /\ Drains("stream", "idle", [drainer EXCEPT !.pc = "read", !.at = tail])
  /\ UNCHANGED <<tail, rel, handed>>

infin_read_have(bytes) ==
  LET have == ring_used(head, drainer.at)
  IN  /\ Drains("stream", "read",
           MoveOutOf("read out", drainer.at, IF have < bytes THEN have ELSE bytes))
      /\ UNCHANGED <<tail, rel, handed>>

(* A caller peeks and consumes within what available told it. *)
infin_peek(off, bytes) ==
  /\ off + bytes <= drainer.seen
  /\ Drains("stream", "idle", MoveOutOf("peek out", WRAP(tail + off, cap), bytes))
  /\ UNCHANGED <<tail, rel, handed>>

ring_move_out(call) ==
  LET r == ring_run(drainer.at, drainer.bytes)
      moved == Len(drainer.dst) + 1
      dst == Append(drainer.dst, buf[drainer.from + (Len(drainer.dst) - drainer.done)])
  IN  /\ drainer.done < r.n
      /\ Drains("stream", call,
           IF moved < drainer.done + drainer.n THEN [drainer EXCEPT !.dst = dst]
           ELSE [drainer EXCEPT !.dst = dst, !.done = moved, !.from = 0, !.n = r.n - moved])
      /\ UNCHANGED <<tail, rel, handed>>

infin_read_done ==
  LET r == ring_run(drainer.at, drainer.bytes)
  IN  /\ drainer.done >= r.n
      /\ Drains("stream", "read out", Draining(Left(drainer.bytes)))
      /\ tail' = WRAP(drainer.at + r.n, cap)
      /\ handed' = drainer.dst
      /\ UNCHANGED rel

infin_peek_done ==
  /\ drainer.done >= ring_run(drainer.at, drainer.bytes).n
  /\ Drains("stream", "peek out", Draining(drainer.seen))
  /\ handed' = drainer.dst
  /\ UNCHANGED <<tail, rel>>

infin_consume(bytes) ==
  /\ bytes <= drainer.seen
  /\ Drains("stream", "idle", Draining(drainer.seen - bytes))
  /\ tail' = WRAP(tail + bytes, cap)
  /\ UNCHANGED <<rel, handed>>

infin_seg_front ==
  /\ Drains("segments", "idle", [drainer EXCEPT !.pc = "seg_front", !.at = rel])
  /\ UNCHANGED <<tail, rel, handed>>

infin_seg_front_pick ==
  /\ Drains("segments", "seg_front",
       IF claim # drainer.at
       THEN [drainer EXCEPT !.pc = "front", !.at = infin_seg_at(WRAP(drainer.at, nsegs))]
       ELSE Draining(drainer.seen))
  /\ UNCHANGED <<tail, rel, handed>>

infin_seg_read ==
  /\ Len(drainer.dst) < seg
  /\ Drains("segments", "front",
       [drainer EXCEPT !.dst = Append(@, buf[drainer.at + Len(@)])])
  /\ UNCHANGED <<tail, rel, handed>>

infin_seg_release ==
  /\ Len(drainer.dst) = seg
  /\ Drains("segments", "front", Draining(drainer.seen))
  /\ rel' = (rel + 1) % 2 ^ Width
  /\ handed' = drainer.dst
  /\ UNCHANGED tail

----------------------------------------------------------------------------
(* The contexts that hold loculi. *)

Opens(c, pc, to) ==
  /\ use = "loculi" /\ opener[c].pc = pc
  /\ opener' = [opener EXCEPT ![c] = to]
  /\ UNCHANGED <<laid, buf, cursors, filler, drainer, next, handed>>

(* gratis & ~pinned & all: either mask may be loaded first. *)
infin_loculus_ready(c) ==
  LET mask == opener[c].mask
  IN  /\ \/ Opens(c, "idle", [opener[c] EXCEPT !.pc = "ready"])
         \/ Opens(c, "ready", [opener[c] EXCEPT !.pc = "ready pinned", !.mask = gratis])
         \/ Opens(c, "ready", [opener[c] EXCEPT !.pc = "ready gratis",
                                                !.mask = ring_loculus_all \ pinned])
         \/ Opens(c, "ready pinned", [opener[c] EXCEPT !.pc = "next",
                                        !.mask = (mask \ pinned) \cap ring_loculus_all])
         \/ Opens(c, "ready gratis", [opener[c] EXCEPT !.pc = "next", !.mask = mask \cap gratis])
      /\ UNCHANGED <<gratis, pinned, keep>>

(* The lowest set bit, or -1 of an empty mask. *)
infin_loculus_next(c) ==
  LET mask == opener[c].mask
  IN  /\ Opens(c, "next",
           IF mask = {} THEN Opening
           ELSE [Opening EXCEPT !.pc = "hold",
                   !.idx = CHOOSE i \in mask : \A j \in mask : i <= j])
      /\ UNCHANGED <<gratis, pinned, keep>>

(* A caller may name an index of its own, in range or not. *)
infin_loculus_named(c) ==
  /\ \E i \in 0 .. Loculi : Opens(c, "idle", [Opening EXCEPT !.pc = "hold", !.idx = i])
  /\ UNCHANGED <<gratis, pinned, keep>>

ring_loculus_bit(i) == {i} \cap ring_loculus_all

(* No bit, no loculus; else the fetch-or tells whether it was another's. *)
infin_loculus_hold(c) ==
  LET bit == ring_loculus_bit(opener[c].idx)
  IN  /\ Opens(c, "hold",
           IF bit = {} \/ pinned \cap bit # {} THEN Opening
           ELSE [opener[c] EXCEPT !.pc = "buf"])
      /\ pinned' = pinned \cup bit
      /\ UNCHANGED <<gratis, keep>>

(* The region a context brings is the context's own. *)
infin_loculus_record(c) ==
  LET i == opener[c].idx
  IN  /\ \/ /\ Opens(c, "buf", [opener[c] EXCEPT !.pc = "bytes"])
            /\ keep' = [keep EXCEPT ![i].buf = c]
         \/ /\ Opens(c, "bytes", [opener[c] EXCEPT !.pc = "read_offset"])
            /\ keep' = [keep EXCEPT ![i].cap = c]
         \/ /\ Opens(c, "read_offset", [opener[c] EXCEPT !.pc = "held"])
            /\ keep' = [keep EXCEPT ![i].pos = 0]
      /\ UNCHANGED <<gratis, pinned>>

infin_loculus_drop(c) ==
  /\ Opens(c, "held", Opening)
  /\ pinned' = pinned \ ring_loculus_bit(opener[c].idx)
  /\ UNCHANGED <<gratis, keep>>

infin_loculus_mark(c) ==
  /\ Opens(c, "held", opener[c])
  /\ gratis' = gratis \cup ring_loculus_bit(opener[c].idx)
  /\ UNCHANGED <<pinned, keep>>

----------------------------------------------------------------------------
Fill ==
  \/ infin_vacant \/ infin_put \/ ring_move_in \/ infin_put_done
  \/ infin_seg_next \/ infin_seg_next_pick \/ infin_seg_fill \/ infin_seg_publish
  \/ \E bytes \in 0 .. CapacityMost : infin_put_fits(bytes)

Drain ==
  \/ infin_available \/ infin_read_byte \/ infin_read_byte_any \/ infin_read_byte_copy
  \/ infin_read_byte_done \/ infin_read \/ infin_read_done \/ infin_peek_done
  \/ infin_seg_front \/ infin_seg_front_pick \/ infin_seg_read \/ infin_seg_release
  \/ \E call \in {"read out", "peek out"} : ring_move_out(call)
  \/ \E bytes \in 0 .. CapacityMost :
       \/ infin_read_have(bytes) \/ infin_consume(bytes)
       \/ \E off \in 0 .. CapacityMost : infin_peek(off, bytes)

Open(c) ==
  \/ infin_loculus_ready(c) \/ infin_loculus_next(c) \/ infin_loculus_named(c)
  \/ infin_loculus_hold(c) \/ infin_loculus_record(c) \/ infin_loculus_drop(c)
  \/ infin_loculus_mark(c)

Next == Fill \/ Drain \/ \E c \in Holders : Open(c)

Spec == infin_init /\ [][Next]_vars

----------------------------------------------------------------------------
(* What the contexts' locals are to memoria_anularis.  A call that has     *)
(* loaded one cursor has done nothing yet when the load was of its own,    *)
(* which no other context moves, and all it will do when it was not.       *)

ProducerView ==
  CASE filler.pc = "move_in" ->
         [pc |-> "put", bytes |-> filler.bytes, done |-> filler.moved, promise |-> filler.promise]
    [] filler.pc = "fill" ->
         [pc |-> "fill", bytes |-> seg, done |-> filler.moved, promise |-> filler.promise]
    [] filler.pc = "vacant head" ->
         [pc |-> "idle", bytes |-> 0, done |-> 0, promise |-> ring_free(head, filler.t)]
    [] OTHER ->
         [pc |-> "idle", bytes |-> 0, done |-> 0, promise |-> filler.promise]

Copying(pc, bytes) ==
  [pc |-> pc, at |-> drainer.at, bytes |-> bytes, dst |-> drainer.dst, seen |-> drainer.seen]
Idling(seen) == [pc |-> "idle", at |-> 0, bytes |-> 0, dst |-> <<>>, seen |-> seen]

ConsumerView ==
  CASE drainer.pc \in {"byte", "read out"} -> Copying("read", drainer.bytes)
    [] drainer.pc = "peek out" -> Copying("peek", drainer.bytes)
    [] drainer.pc = "front" -> Copying("front", seg)
    [] drainer.pc = "available tail" -> Idling(ring_used(drainer.h, tail))
    [] OTHER -> Idling(drainer.seen)

HolderView ==
  [c \in Holders |->
     [pc |-> CASE opener[c].pc = "ready pinned" -> "ready"
               [] opener[c].pc = "ready gratis" -> "next"
               [] OTHER -> opener[c].pc,
      mask |-> IF opener[c].pc \in {"ready", "ready pinned"} THEN ring_loculus_all
               ELSE opener[c].mask,
      index |-> opener[c].idx]]

KeepoutView ==
  [i \in ring_loculus_all |->
     [buf |-> keep[i].buf, bytes |-> keep[i].cap, read_offset |-> keep[i].pos]]
=============================================================================
