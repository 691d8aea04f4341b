---------------------------- MODULE MemoriaAnularis ----------------------------
(***************************************************************************)
(* memoria_anularis.c: one buffer, three views over it.  A byte stream     *)
(* between one producer and one consumer (head and tail), segments filled  *)
(* and released in place by the same two (claimed and released), and       *)
(* loculi that any context may hold while it keeps a region of its own out.*)
(* Loads and stores of the atomics are steps of their own; a copy is one   *)
(* step per byte, so the two sides' copies interleave.                     *)
(***************************************************************************)
EXTENDS Integers, Sequences, FiniteSets

CONSTANTS
  CapacityMost,  \* largest capacity handed to init
  SegmentSizes,  \* segment_bytes handed to init, 0 for none given
  Width,         \* bits of claimed and released
  Values,        \* the producer's k-th byte is k % Values
  Loculi,        \* MMGR_RING_LOCULI
  Holders        \* contexts that hold loculi

ASSUME RingAssumption ==
  /\ CapacityMost \in Nat /\ Width \in Nat /\ Loculi \in Nat
  /\ Values \in Nat /\ Values > CapacityMost
  /\ SegmentSizes \subseteq Nat
  /\ 2 ^ Width > CapacityMost

VARIABLES
  capacity, segment_count, segment_bytes, \* as init laid them
  use,        \* the view this ring's callers work
  buf,        \* the bytes
  head, tail, claimed, released,
  gratis, pinned, keepout,
  prod,       \* the producer: [pc, bytes, done, promise]
  cons,       \* the consumer: [pc, at, bytes, dst, seen]
  holder,     \* per holding context: [pc, mask, index]
  next,       \* the producer's next byte
  handed      \* what the last finished read or peek copied out

laid == <<capacity, segment_count, segment_bytes, use>>
stream == <<head, tail>>
segs == <<claimed, released>>
loculi == <<gratis, pinned, keepout, holder>>
vars == <<laid, buf, stream, segs, loculi, prod, cons, next, handed>>

Blank == Values        \* a byte nobody wrote
NoSpan == [buf |-> "null", bytes |-> "none", read_offset |-> 0]

----------------------------------------------------------------------------
(* Sizes and offsets. *)

(* MMGR_RING_POW2: reports true for 0 as well. *)
Pow2(count) == count = 0 \/ \E k \in 0 .. count : count = 2 ^ k

(* Arithmetic of the counters, stated because no prover has powers: a power *)
(* of two no larger than the word's range divides it.                      *)
ASSUME PowersAssumption ==
  /\ 2 ^ Width \in Nat \ {0}
  /\ \A count \in 1 .. CapacityMost : Pow2(count) => 2 ^ Width % count = 0

Wrap(index, size) == index % size

Accepts(a) ==
  /\ a.capacity # 0
  /\ a.segment_bytes = 0 => Pow2(a.capacity)
  /\ a.segment_count # 0 /\ Pow2(a.segment_count)
  /\ a.segment_count <= a.capacity
  /\ a.segment_bytes <= a.capacity \div a.segment_count

(* Where the k-th byte of a run lies: two runs, up to the end of the       *)
(* buffer and then from its first byte.                                    *)
RunAt(offset, bytes, k) ==
  LET room == capacity - offset
      before_wrap == IF room < bytes THEN room ELSE bytes
  IN  IF k < before_wrap THEN offset + k ELSE k - before_wrap

RunCarries(wanted) == IF wanted > capacity THEN capacity ELSE wanted

(* Mutants of Used and Free: the distance taken the wrong way round; no     *)
(* byte reserved to tell a full ring from an empty one.                    *)
UsedBackward == Wrap(tail - head, capacity)
FreeAll == capacity - Wrap(head - tail, capacity)

Used == Wrap(head - tail, capacity)
Free == (capacity - 1) - Used

InFlight == (claimed - released) % 2 ^ Width
SegAt(index) == index * segment_bytes

----------------------------------------------------------------------------
(* mmgr_anular_init over the sizes it accepts; a refused one lays nothing. *)
Init ==
  /\ \E a \in [capacity : 0 .. CapacityMost, segment_count : 0 .. CapacityMost,
               segment_bytes : SegmentSizes] :
       /\ Accepts(a)
       /\ capacity = IF a.segment_bytes # 0 THEN 1 ELSE a.capacity
       /\ segment_count = a.segment_count
       /\ segment_bytes = IF a.segment_bytes # 0 THEN a.segment_bytes
                          ELSE a.capacity \div a.segment_count
       /\ buf = [i \in 0 .. a.capacity - 1 |-> Blank]
  /\ use \in {"stream", "segments", "loculi"}
  /\ head = 0 /\ tail = 0 /\ claimed = 0 /\ released = 0
  /\ gratis = 0 .. Loculi - 1 /\ pinned = {}
  /\ keepout = [i \in 0 .. Loculi - 1 |-> NoSpan]
  /\ prod = [pc |-> "idle", bytes |-> 0, done |-> 0, promise |-> 0]
  /\ cons = [pc |-> "idle", at |-> 0, bytes |-> 0, dst |-> <<>>, seen |-> 0]
  /\ holder = [h \in Holders |-> [pc |-> "idle", mask |-> {}, index |-> 0]]
  /\ next = 0 /\ handed = <<>>

----------------------------------------------------------------------------
(* The byte stream.  Each side loads its own offset with the other's: only *)
(* the other's can move between the two loads.                             *)

Vacant ==
  /\ use = "stream" /\ prod.pc = "idle"
  /\ prod' = [prod EXCEPT !.promise = Free]
  /\ UNCHANGED <<laid, buf, stream, segs, loculi, cons, next, handed>>

(* A span that does not fit is refused whole and changes nothing. *)
Put(bytes) ==
  /\ use = "stream" /\ prod.pc = "idle"
  /\ bytes <= Free
  /\ prod' = [prod EXCEPT !.pc = "put", !.bytes = bytes, !.done = 0]
  /\ UNCHANGED <<laid, buf, stream, segs, loculi, cons, next, handed>>

MoveIn ==
  /\ prod.pc = "put" /\ prod.done < RunCarries(prod.bytes)
  /\ buf' = [buf EXCEPT ![RunAt(head, prod.bytes, prod.done)] = (next + prod.done) % Values]
  /\ prod' = [prod EXCEPT !.done = @ + 1]
  /\ UNCHANGED <<laid, stream, segs, loculi, cons, next, handed>>

(* Mutant of PutDone: the head stored past the end of the buffer. *)
PutDoneUnwrapped ==
  /\ prod.pc = "put" /\ prod.done = RunCarries(prod.bytes)
  /\ head' = head + RunCarries(prod.bytes)
  /\ next' = (next + prod.bytes) % Values
  /\ prod' = [prod EXCEPT !.pc = "idle", !.bytes = 0, !.done = 0, !.promise = 0]
  /\ UNCHANGED <<laid, buf, tail, segs, loculi, cons, handed>>

PutDone ==
  /\ prod.pc = "put" /\ prod.done = RunCarries(prod.bytes)
  /\ head' = Wrap(head + RunCarries(prod.bytes), capacity)
  /\ next' = (next + prod.bytes) % Values
  /\ prod' = [prod EXCEPT !.pc = "idle", !.bytes = 0, !.done = 0,
                !.promise = IF prod.bytes < @ THEN @ - prod.bytes ELSE 0]
  /\ UNCHANGED <<laid, buf, tail, segs, loculi, cons, handed>>

Available ==
  /\ use = "stream" /\ cons.pc = "idle"
  /\ cons' = [cons EXCEPT !.seen = Used]
  /\ UNCHANGED <<laid, buf, stream, segs, loculi, prod, next, handed>>

Read(bytes) ==
  /\ use = "stream" /\ cons.pc = "idle"
  /\ cons' = [cons EXCEPT !.pc = "read", !.at = tail, !.dst = <<>>,
                !.bytes = IF Used < bytes THEN Used ELSE bytes]
  /\ UNCHANGED <<laid, buf, stream, segs, loculi, prod, next, handed>>

(* anular_read_byte refuses an empty ring before it copies. *)
ReadByte == tail # head /\ Read(1)

(* A caller peeks and consumes within what available told it. *)
Peek(offset, bytes) ==
  /\ use = "stream" /\ cons.pc = "idle"
  /\ offset + bytes <= cons.seen
  /\ cons' = [cons EXCEPT !.pc = "peek", !.at = Wrap(tail + offset, capacity),
                !.bytes = bytes, !.dst = <<>>]
  /\ UNCHANGED <<laid, buf, stream, segs, loculi, prod, next, handed>>

MoveOut ==
  /\ cons.pc \in {"read", "peek"} /\ Len(cons.dst) < RunCarries(cons.bytes)
  /\ cons' = [cons EXCEPT !.dst = Append(@, buf[RunAt(cons.at, cons.bytes, Len(@))])]
  /\ UNCHANGED <<laid, buf, stream, segs, loculi, prod, next, handed>>

ReadDone ==
  /\ cons.pc = "read" /\ Len(cons.dst) = RunCarries(cons.bytes)
  /\ tail' = Wrap(tail + RunCarries(cons.bytes), capacity)
  /\ handed' = cons.dst
  /\ cons' = [cons EXCEPT !.pc = "idle", !.at = 0, !.bytes = 0, !.dst = <<>>,
                !.seen = IF cons.bytes < @ THEN @ - cons.bytes ELSE 0]
  /\ UNCHANGED <<laid, buf, head, segs, loculi, prod, next>>

PeekDone ==
  /\ cons.pc = "peek" /\ Len(cons.dst) = RunCarries(cons.bytes)
  /\ handed' = cons.dst
  /\ cons' = [cons EXCEPT !.pc = "idle", !.at = 0, !.bytes = 0, !.dst = <<>>]
  /\ UNCHANGED <<laid, buf, stream, segs, loculi, prod, next>>

Consume(bytes) ==
  /\ use = "stream" /\ cons.pc = "idle"
  /\ bytes <= cons.seen
  /\ tail' = Wrap(tail + bytes, capacity)
  /\ cons' = [cons EXCEPT !.seen = @ - bytes]
  /\ UNCHANGED <<laid, buf, head, segs, loculi, prod, next, handed>>

----------------------------------------------------------------------------
(* Segments: counted up by two counters that wrap at the word's width.     *)

SegNext ==
  /\ use = "segments" /\ prod.pc = "idle"
  /\ InFlight < segment_count
  /\ prod' = [prod EXCEPT !.pc = "fill", !.bytes = segment_bytes, !.done = 0]
  /\ UNCHANGED <<laid, buf, stream, segs, loculi, cons, next, handed>>

SegFill ==
  /\ prod.pc = "fill" /\ prod.done < segment_bytes
  /\ buf' = [buf EXCEPT ![SegAt(Wrap(claimed, segment_count)) + prod.done]
                          = (next + prod.done) % Values]
  /\ prod' = [prod EXCEPT !.done = @ + 1]
  /\ UNCHANGED <<laid, stream, segs, loculi, cons, next, handed>>

SegPublish ==
  /\ prod.pc = "fill" /\ prod.done = segment_bytes
  /\ claimed' = (claimed + 1) % 2 ^ Width
  /\ next' = (next + segment_bytes) % Values
  /\ prod' = [prod EXCEPT !.pc = "idle", !.bytes = 0, !.done = 0]
  /\ UNCHANGED <<laid, buf, stream, released, loculi, cons, handed>>

SegFront ==
  /\ use = "segments" /\ cons.pc = "idle"
  /\ claimed # released
  /\ cons' = [cons EXCEPT !.pc = "front", !.dst = <<>>, !.bytes = segment_bytes,
                !.at = SegAt(Wrap(released, segment_count))]
  /\ UNCHANGED <<laid, buf, stream, segs, loculi, prod, next, handed>>

SegRead ==
  /\ cons.pc = "front" /\ Len(cons.dst) < segment_bytes
  /\ cons' = [cons EXCEPT !.dst = Append(@, buf[cons.at + Len(@)])]
  /\ UNCHANGED <<laid, buf, stream, segs, loculi, prod, next, handed>>

SegRelease ==
  /\ cons.pc = "front" /\ Len(cons.dst) = segment_bytes
  /\ released' = (released + 1) % 2 ^ Width
  /\ handed' = cons.dst
  /\ cons' = [cons EXCEPT !.pc = "idle", !.at = 0, !.bytes = 0, !.dst = <<>>]
  /\ UNCHANGED <<laid, buf, stream, claimed, loculi, prod, next>>

----------------------------------------------------------------------------
(* Loculi: a context reads the two masks one after the other, picks the    *)
(* lowest, and the fetch-or of hold settles who has it; the record is three*)
(* plain stores behind it.                                                 *)

LoculusStep(h, from, to) ==
  /\ use = "loculi" /\ holder[h].pc = from
  /\ holder' = [holder EXCEPT ![h] = to]
  /\ UNCHANGED <<laid, buf, stream, segs, prod, cons, next, handed>>

Region(h) == [buf |-> h, bytes |-> h, read_offset |-> 0]

LoculusGratis(h) ==
  /\ LoculusStep(h, "idle", [pc |-> "ready", mask |-> gratis, index |-> 0])
  /\ UNCHANGED <<gratis, pinned, keepout>>

LoculusReady(h) ==
  /\ LoculusStep(h, "ready", [pc |-> "next", index |-> 0,
                               mask |-> (holder[h].mask \ pinned) \cap (0 .. Loculi - 1)])
  /\ UNCHANGED <<gratis, pinned, keepout>>

(* The lowest set bit; an empty mask answers -1 and the context is done. *)
LoculusNext(h) ==
  LET mask == holder[h].mask
  IN  /\ LoculusStep(h, "next",
           IF mask = {} THEN [pc |-> "idle", mask |-> {}, index |-> 0]
           ELSE [pc |-> "hold", mask |-> {},
                 index |-> CHOOSE i \in mask : \A j \in mask : i <= j])
      /\ UNCHANGED <<gratis, pinned, keepout>>

(* A caller may name an index of its own, in range or not. *)
LoculusNamed(h) ==
  /\ \E i \in 0 .. Loculi :
       LoculusStep(h, "idle", [pc |-> "hold", mask |-> {}, index |-> i])
  /\ UNCHANGED <<gratis, pinned, keepout>>

(* Mutant of LoculusHold: the bit found set does not refuse. *)
LoculusHoldAnyway(h) ==
  LET i == holder[h].index
  IN  /\ LoculusStep(h, "hold",
           IF i >= Loculi THEN [pc |-> "idle", mask |-> {}, index |-> 0]
           ELSE [pc |-> "buf", mask |-> {}, index |-> i])
      /\ pinned' = pinned \cup ({i} \cap (0 .. Loculi - 1))
      /\ UNCHANGED <<gratis, keepout>>

(* An index that names no loculus has no bit: refused like a taken one. *)
LoculusHold(h) ==
  LET i == holder[h].index
  IN  /\ LoculusStep(h, "hold",
           IF i >= Loculi \/ i \in pinned THEN [pc |-> "idle", mask |-> {}, index |-> 0]
           ELSE [pc |-> "buf", mask |-> {}, index |-> i])
      /\ pinned' = pinned \cup ({i} \cap (0 .. Loculi - 1))
      /\ UNCHANGED <<gratis, keepout>>

Recorded(h, from, to, field) ==
  LET i == holder[h].index
  IN  /\ LoculusStep(h, from, [holder[h] EXCEPT !.pc = to])
      /\ keepout' = [keepout EXCEPT ![i][field] = Region(h)[field]]
      /\ UNCHANGED <<gratis, pinned>>

LoculusRecord(h) ==
  \/ Recorded(h, "buf", "bytes", "buf")
  \/ Recorded(h, "bytes", "read_offset", "bytes")
  \/ Recorded(h, "read_offset", "held", "read_offset")

LoculusDrop(h) ==
  /\ LoculusStep(h, "held", [pc |-> "idle", mask |-> {}, index |-> 0])
  /\ pinned' = pinned \ {holder[h].index}
  /\ UNCHANGED <<gratis, keepout>>

LoculusMark(h) ==
  /\ LoculusStep(h, "held", holder[h])
  /\ gratis' = gratis \cup {holder[h].index}
  /\ UNCHANGED <<pinned, keepout>>

----------------------------------------------------------------------------
Producer ==
  \/ Vacant \/ MoveIn \/ PutDone \/ SegNext \/ SegFill \/ SegPublish
  \/ \E bytes \in 0 .. CapacityMost : Put(bytes)

Consumer ==
  \/ Available \/ ReadByte \/ MoveOut \/ ReadDone \/ PeekDone
  \/ SegFront \/ SegRead \/ SegRelease
  \/ \E bytes \in 0 .. CapacityMost :
       \/ Read(bytes) \/ Consume(bytes)
       \/ \E offset \in 0 .. CapacityMost : Peek(offset, bytes)

Holding(h) ==
  \/ LoculusNamed(h) \/ LoculusGratis(h) \/ LoculusReady(h) \/ LoculusNext(h) \/ LoculusHold(h)
  \/ LoculusRecord(h) \/ LoculusDrop(h) \/ LoculusMark(h)

Next == Producer \/ Consumer \/ \E h \in Holders : Holding(h)

Spec == Init /\ [][Next]_vars

----------------------------------------------------------------------------
(* The bytes the queue holds, read the way the consumer would. *)
Streamed == [k \in 1 .. Used |-> buf[Wrap(tail + k - 1, capacity)]]

Filled ==
  [k \in 1 .. InFlight * segment_bytes |->
     buf[SegAt(Wrap(released + ((k - 1) \div segment_bytes), segment_count))
         + ((k - 1) % segment_bytes)]]

Room == IF use = "segments" THEN segment_count * segment_bytes ELSE capacity - 1
Queue == IF use = "segments" THEN Filled ELSE Streamed
Fifo == INSTANCE FifoQueue WITH room <- Room, queue <- Queue
(* mmgr_anular_put writes a span whole or refuses it and shows no half     *)
(* span; reads take the bytes in the order they were put, across the wrap  *)
(* of the buffer and of the counters; nothing handed over was overwritten  *)
(* while it was copied.  Bytes and segments both are such a queue.         *)
ImplementsFifo == Fifo!Spec

(* Every variable in its range; gratis never loses a bit. *)
TypeOK ==
  /\ capacity \in 1 .. CapacityMost /\ head \in 0 .. capacity - 1 /\ tail \in 0 .. capacity - 1
  /\ claimed \in 0 .. 2 ^ Width - 1 /\ released \in 0 .. 2 ^ Width - 1
  /\ \A i \in DOMAIN buf : buf[i] \in 0 .. Blank
  /\ pinned \subseteq gratis /\ gratis = 0 .. Loculi - 1
  /\ \A h \in Holders : holder[h].index \in 0 .. Loculi

(* The bytes a put or a fill may still write and those a read, peek or     *)
(* front copies out never meet: the copies are plain accesses.             *)
Writing ==
  CASE prod.pc = "put"  -> {RunAt(head, prod.bytes, k) : k \in 0 .. prod.bytes - 1}
    [] prod.pc = "fill" -> {SegAt(Wrap(claimed, segment_count)) + k : k \in 0 .. segment_bytes - 1}
    [] OTHER -> {}
Reading ==
  CASE cons.pc \in {"read", "peek"} -> {RunAt(cons.at, cons.bytes, k) : k \in 0 .. cons.bytes - 1}
    [] cons.pc = "front" -> {cons.at + k : k \in 0 .. segment_bytes - 1}
    [] OTHER -> {}
CopiesApart == Writing \cap Reading = {}

(* vacant and available are snapshots, but only ever short for the side    *)
(* that asks: what vacant promised the producer a put still finds free,    *)
(* what available told the consumer is still there.                        *)
SnapshotsHold == prod.promise <= Free /\ cons.seen <= Used

(* A loculus whose hold answered true keeps its holder's region, whole,    *)
(* until that holder drops it, whatever the other contexts race for.       *)
KeepoutHolds ==
  \A h \in Holders :
    /\ holder[h].pc = "held" => keepout[holder[h].index] = Region(h)
    /\ \A g \in Holders \ {h} :
         {holder[h].pc, holder[g].pc} \subseteq {"buf", "bytes", "read_offset", "held"}
           => holder[h].index # holder[g].index
=============================================================================
