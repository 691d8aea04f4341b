------------------------- MODULE MemoriaAnularisProofs -------------------------
(***************************************************************************)
(* What the ring keeps for any capacity, any counter width and any number  *)
(* of loculi and contexts, and that it implements FifoQueue.               *)
(***************************************************************************)
EXTENDS MCRings, TLAPS, WellFoundedInduction, SequenceTheorems

----------------------------------------------------------------------------
(* Division. *)

(* Quotient and remainder are the only ones. *)
LEMMA DivModUnique ==
  ASSUME NEW n \in Nat \ {0}, NEW d \in Int, NEW r \in 0 .. n - 1
  PROVE  (n * d + r) % n = r /\ (n * d + r) \div n = d
<1> DEFINE x == n * d + r
           e == x \div n
           s == x % n
<1>1. x \in Int /\ n * d \in Int  OBVIOUS
<1>2. e \in Int /\ s \in 0 .. n - 1 /\ x = n * e + s  BY <1>1
<1>3. ~(d < e)
  <2> SUFFICES ASSUME d < e PROVE FALSE  OBVIOUS
  <2> HIDE DEF e, s, x
  <2>1. PICK m \in Nat : e = d + 1 + m  BY <1>2
  <2>2. n * e = n * d + n + n * m /\ n * m \in Nat  BY <2>1
  <2> QED BY <1>1, <1>2, <2>2 DEF x
<1>4. ~(e < d)
  <2> SUFFICES ASSUME e < d PROVE FALSE  OBVIOUS
  <2> HIDE DEF e, s, x
  <2>1. PICK m \in Nat : d = e + 1 + m  BY <1>2
  <2>2. n * d = n * e + n + n * m /\ n * m \in Nat  BY <1>2, <2>1
  <2> QED BY <1>1, <1>2, <2>2 DEF x
<1>5. e = d /\ s = r
  <2> HIDE DEF e, s
  <2>1. e = d  BY <1>2, <1>3, <1>4
  <2> QED BY <1>1, <1>2, <2>1 DEF x
<1> QED BY <1>5

(* Whole turns do not show in a remainder. *)
LEMMA ModTurns ==
  ASSUME NEW n \in Nat \ {0}, NEW a \in Int, NEW q \in Int
  PROVE  (a + n * q) % n = a % n
<1> DEFINE d == a \div n
           r == a % n
<1>1. d \in Int /\ r \in 0 .. n - 1 /\ a = n * d + r  OBVIOUS
<1>2. a + n * q = n * (d + q) + r
  <2> HIDE DEF d, r
  <2> QED BY <1>1
<1>3. (n * (d + q) + r) % n = r
  <2> HIDE DEF d, r
  <2>1. d + q \in Int  BY <1>1
  <2> QED BY <1>1, <2>1, DivModUnique
<1> QED BY <1>2, <1>3

(* Numbers closer than a turn have remainders of their own. *)
LEMMA ModApart ==
  ASSUME NEW n \in Nat \ {0}, NEW a \in Int, NEW b \in Int, a < b, b - a < n
  PROVE  a % n # b % n
<1> SUFFICES ASSUME a % n = b % n PROVE FALSE  OBVIOUS
<1> DEFINE d == a \div n
           e == b \div n
           r == a % n
<1>1. d \in Int /\ e \in Int /\ r \in Int /\ a = n * d + r /\ b = n * e + r  OBVIOUS
<1> HIDE DEF d, e, r
<1>2. CASE e > d
  <2>1. PICK m \in Nat : e = d + 1 + m  BY <1>1, <1>2
  <2>2. n * e = n * d + n + n * m /\ n * m \in Nat /\ n * d \in Int  BY <1>1, <2>1
  <2> QED BY <1>1, <2>2
<1>3. CASE e <= d
  <2>1. PICK m \in Nat : d = e + m  BY <1>1, <1>3
  <2>2. n * d = n * e + n * m /\ n * m \in Nat /\ n * e \in Int  BY <1>1, <2>1
  <2> QED BY <1>1, <2>2
<1> QED BY <1>1, <1>2, <1>3

(* One step on, a remainder goes up by one or starts over. *)
LEMMA ModNext ==
  ASSUME NEW n \in Nat \ {0}, NEW a \in Nat
  PROVE  (a + 1) % n = IF a % n = n - 1 THEN 0 ELSE (a % n) + 1
<1> DEFINE d == a \div n
           r == a % n
<1>1. d \in Int /\ r \in 0 .. n - 1 /\ a = n * d + r  OBVIOUS
<1> HIDE DEF d, r
<1>2. CASE r = n - 1
  <2>1. a + 1 = n * (d + 1) + 0  BY <1>1, <1>2
  <2>2. (n * (d + 1) + 0) % n = 0  BY <1>1, DivModUnique
  <2> QED BY <1>2, <2>1, <2>2 DEF r
<1>3. CASE r # n - 1
  <2>1. a + 1 = n * d + (r + 1)  BY <1>1
  <2>2. (n * d + (r + 1)) % n = r + 1  BY <1>1, <1>3, DivModUnique
  <2> QED BY <1>3, <2>1, <2>2 DEF r
<1> QED BY <1>2, <1>3

(* Blocks of one size that start at different multiples do not meet. *)
LEMMA BlocksApart ==
  ASSUME NEW size \in Nat, NEW i \in Nat, NEW j \in Nat, i # j,
         NEW k \in 0 .. size - 1, NEW l \in 0 .. size - 1
  PROVE  i * size + k # j * size + l
<1>1. ASSUME NEW a \in Nat, NEW b \in Nat, a < b PROVE a * size + size <= b * size
  <2>1. PICK m \in Nat : b = a + 1 + m  BY <1>1
  <2>2. b * size = a * size + size + m * size /\ m * size \in Nat /\ a * size \in Nat
    BY <2>1
  <2> QED BY <2>2
<1>2. i * size \in Nat /\ j * size \in Nat  OBVIOUS
<1>3. CASE i < j  BY <1>1, <1>2, <1>3
<1>4. CASE j < i  BY <1>1, <1>2, <1>4
<1> QED BY <1>3, <1>4

(* A block of the first n ends inside them. *)
LEMMA BlockInside ==
  ASSUME NEW size \in Nat, NEW n \in Nat, NEW i \in 0 .. n - 1, NEW k \in 0 .. size - 1
  PROVE  i * size + k \in 0 .. n * size - 1
<1>1. PICK m \in Nat : n = i + 1 + m  OBVIOUS
<1>2. n * size = i * size + size + m * size /\ m * size \in Nat /\ i * size \in Nat
  BY <1>1
<1> QED BY <1>2

----------------------------------------------------------------------------
(* The inductive invariant. *)

Modulus == 2 ^ Width
Byte == 0 .. Blank

ProdState == [pc : {"idle", "put", "fill"}, bytes : Nat, done : Nat, promise : Nat]
ConsState == [pc : {"idle", "read", "peek", "front"}, at : Nat, bytes : Nat, dst : Seq(Byte),
              seen : Nat]

Types ==
  /\ capacity \in 1 .. CapacityMost
  /\ segment_count \in 1 .. CapacityMost /\ Pow2(segment_count) /\ segment_bytes \in Nat
  /\ use \in {"stream", "segments", "loculi"}
  /\ buf \in [DOMAIN buf -> Byte] /\ 0 .. capacity - 1 \subseteq DOMAIN buf
  /\ 0 .. segment_count * segment_bytes - 1 \subseteq DOMAIN buf
  /\ head \in 0 .. capacity - 1 /\ tail \in 0 .. capacity - 1
  /\ claimed \in 0 .. Modulus - 1 /\ released \in 0 .. Modulus - 1
  /\ prod \in ProdState /\ cons \in ConsState
  /\ next \in Nat

(* A ring's callers work one of its views. *)
Views ==
  /\ prod.pc = "put" \/ cons.pc \in {"read", "peek"} => use = "stream"
  /\ prod.pc = "fill" \/ cons.pc = "front" => use = "segments"
  /\ use # "stream" => head = 0 /\ tail = 0 /\ prod.promise = 0 /\ cons.seen = 0
  /\ use # "segments" => claimed = 0 /\ released = 0

(* The n-th place from one of the buffer, and how far one is past another.  *)
Ahead(at, n) == IF at + n < capacity THEN at + n ELSE at + n - capacity
Past(from, at) == IF at >= from THEN at - from ELSE at - from + capacity

(* The stream: what a side was told still stands, a copy under way is of    *)
(* bytes the other side leaves alone, and it has copied what lies there.   *)
Streaming ==
  /\ prod.promise <= Free /\ cons.seen <= Used
  /\ prod.pc = "put" =>
       /\ prod.bytes <= Free /\ prod.done <= prod.bytes
       /\ \A k \in 0 .. prod.done - 1 : buf[Ahead(head, k)] = (next + k) % Values
  /\ cons.pc = "read" => cons.at = tail
  /\ cons.pc \in {"read", "peek"} =>
       /\ cons.at \in 0 .. capacity - 1 /\ Past(tail, cons.at) + cons.bytes <= Used
       /\ Len(cons.dst) <= cons.bytes
       /\ \A k \in 1 .. Len(cons.dst) : cons.dst[k] = buf[Ahead(cons.at, k - 1)]

(* The segments: the two counters are no further apart than there are       *)
(* segments, a segment being filled is not in flight and one in front is.  *)
Segmented ==
  /\ InFlight <= segment_count
  /\ prod.pc = "fill" =>
       /\ InFlight < segment_count /\ prod.done <= segment_bytes
       /\ \A k \in 0 .. prod.done - 1 :
            buf[SegAt(Wrap(claimed, segment_count)) + k] = (next + k) % Values
  /\ cons.pc = "front" =>
       /\ InFlight > 0 /\ cons.at = SegAt(Wrap(released, segment_count))
       /\ Len(cons.dst) <= segment_bytes
       /\ \A k \in 1 .. Len(cons.dst) : cons.dst[k] = buf[cons.at + (k - 1)]

Indices == 0 .. Loculi - 1

(* The steps of a hold that was granted, and the record's stores behind it. *)
Granted == {"buf", "bytes", "read_offset", "held"}

HolderState == [pc : {"idle", "ready", "next", "hold"} \cup Granted,
                mask : SUBSET Indices, index : 0 .. Loculi]
Record == [buf : Holders \cup {"null"}, bytes : Holders \cup {"none"}, read_offset : {0}]

(* A context granted a loculus has its bit set, and the stores it has made  *)
(* stand in the record; no two are granted the same one.                   *)
HolderPinned(h) ==
  /\ holder[h].pc \in Granted => holder[h].index \in pinned
  /\ holder[h].pc \in {"bytes", "read_offset", "held"} => keepout[holder[h].index].buf = h
  /\ holder[h].pc \in {"read_offset", "held"} => keepout[holder[h].index].bytes = h

HoldersApart(h, g) ==
  holder[h].pc \in Granted /\ holder[g].pc \in Granted => holder[h].index # holder[g].index

Pinned ==
  /\ gratis = Indices /\ pinned \subseteq Indices
  /\ keepout \in [Indices -> Record] /\ holder \in [Holders -> HolderState]
  /\ \A h \in Holders : HolderPinned(h) /\ \A g \in Holders \ {h} : HoldersApart(h, g)

RingInv == Types /\ Views /\ Streaming /\ Segmented /\ Pinned

----------------------------------------------------------------------------
(* Places and distances. *)

(* What the stream's properties say of the buffer, in sums. *)
LEMMA Constants ==
  /\ CapacityMost \in Nat /\ Values \in Nat \ {0} /\ Loculi \in Nat
  /\ Modulus \in Nat \ {0} /\ CapacityMost < Modulus
BY RingAssumption, PowersAssumption DEF Modulus

(* A difference of two places, reduced. *)
LEMMA Distance ==
  ASSUME NEW n \in Nat \ {0}, NEW a \in 0 .. n - 1, NEW b \in 0 .. n - 1
  PROVE  (a - b) % n = IF a >= b THEN a - b ELSE a - b + n
OBVIOUS

(* The distance from tail to head, and what is left of the capacity. *)
LEMMA UsedIs ==
  ASSUME capacity \in Nat \ {0}, head \in 0 .. capacity - 1, tail \in 0 .. capacity - 1
  PROVE  Used = Past(tail, head) /\ Used \in 0 .. capacity - 1
         /\ Free = capacity - 1 - Used /\ Free \in 0 .. capacity - 1
BY DEF Used, Free, Past, Wrap

(* A sum no further than a turn wraps to the place that far ahead. *)
LEMMA WrapAhead ==
  ASSUME capacity \in Nat \ {0}, NEW at \in 0 .. capacity - 1, NEW n \in 0 .. capacity
  PROVE  Wrap(at + n, capacity) = Ahead(at, n) /\ Ahead(at, n) \in 0 .. capacity - 1
BY DEF Wrap, Ahead

(* A run's bytes lie one after the other, over the end of the buffer. *)
LEMMA RunAtAhead ==
  ASSUME capacity \in Nat \ {0}, NEW at \in 0 .. capacity - 1, NEW bytes \in 0 .. capacity,
         NEW k \in 0 .. bytes - 1
  PROVE  RunAt(at, bytes, k) = Ahead(at, k) /\ Ahead(at, k) \in 0 .. capacity - 1
BY DEF RunAt, Ahead

(* A place that far ahead is that far past. *)
LEMMA PastAhead ==
  ASSUME capacity \in Nat \ {0}, NEW at \in 0 .. capacity - 1, NEW n \in 0 .. capacity - 1
  PROVE  Past(at, Ahead(at, n)) = n
BY DEF Past, Ahead

(* Where a span starts that far ahead, its bytes lie further ahead still.   *)
LEMMA AheadAhead ==
  ASSUME capacity \in Nat \ {0}, NEW at \in 0 .. capacity - 1, NEW n \in 0 .. capacity - 1,
         NEW k \in 0 .. capacity - 1, n + k < capacity
  PROVE  Ahead(Ahead(at, n), k) = Ahead(at, n + k)
BY DEF Ahead

(* Every place is some way ahead of another. *)
LEMMA AheadPast ==
  ASSUME capacity \in Nat \ {0}, NEW from \in 0 .. capacity - 1, NEW at \in 0 .. capacity - 1
  PROVE  Ahead(from, Past(from, at)) = at /\ Past(from, at) \in 0 .. capacity - 1
BY DEF Past, Ahead

(* Places different ways ahead are different. *)
LEMMA AheadApart ==
  ASSUME capacity \in Nat \ {0}, NEW at \in 0 .. capacity - 1, NEW n \in 0 .. capacity - 1,
         NEW m \in 0 .. capacity - 1, n # m
  PROVE  Ahead(at, n) # Ahead(at, m)
BY DEF Ahead

(* What is written into the free bytes is none of those used. *)
LEMMA FreeNotUsed ==
  ASSUME capacity \in Nat \ {0}, head \in 0 .. capacity - 1, tail \in 0 .. capacity - 1,
         NEW k \in Nat, k < Free, NEW j \in Nat, j < Used
  PROVE  Ahead(head, k) # Ahead(tail, j)
<1>1. /\ Used \in 0 .. capacity - 1 /\ Free = capacity - 1 - Used /\ capacity \in Nat
      /\ head \in 0 .. capacity - 1 /\ tail \in 0 .. capacity - 1 /\ Used = Past(tail, head)
  BY UsedIs
<1>2. head = Ahead(tail, Used)  BY <1>1, AheadPast
<1>3. Ahead(head, k) = Ahead(tail, Used + k)  BY <1>1, <1>2, AheadAhead
<1> QED BY <1>1, <1>3, AheadApart

(* A put's bytes come to the used ones and leave the free ones. *)
LEMMA PutMeasures ==
  ASSUME capacity \in Nat \ {0}, head \in 0 .. capacity - 1, tail \in 0 .. capacity - 1,
         NEW n \in Nat, n <= Free, head' = Ahead(head, n), tail' = tail, capacity' = capacity
  PROVE  Used' = Used + n /\ Free' = Free - n /\ head' \in 0 .. capacity - 1
<1>1. /\ Used = Past(tail, head) /\ Used \in 0 .. capacity - 1 /\ Free = capacity - 1 - Used
  BY UsedIs
<1>2. head' \in 0 .. capacity - 1  BY <1>1 DEF Ahead
<1>3. Used' = Past(tail, head') /\ Free' = capacity - 1 - Used'
  <2>1. Used' = (head' - tail) % capacity /\ Free' = (capacity - 1) - Used'
    BY DEF Used, Free, Wrap
  <2> QED BY <1>2, <2>1, Distance DEF Past
<1> QED BY <1>1, <1>2, <1>3 DEF Past, Ahead

(* A take's bytes leave the used ones and come to the free ones. *)
LEMMA TakeMeasures ==
  ASSUME capacity \in Nat \ {0}, head \in 0 .. capacity - 1, tail \in 0 .. capacity - 1,
         NEW n \in Nat, n <= Used, tail' = Ahead(tail, n), head' = head, capacity' = capacity
  PROVE  Used' = Used - n /\ Free' = Free + n /\ tail' \in 0 .. capacity - 1
<1>1. /\ Used = Past(tail, head) /\ Used \in 0 .. capacity - 1 /\ Free = capacity - 1 - Used
  BY UsedIs
<1>2. tail' \in 0 .. capacity - 1  BY <1>1 DEF Ahead
<1>3. Used' = Past(tail', head) /\ Free' = capacity - 1 - Used'
  BY <1>2 DEF Used, Free, Past, Wrap
<1> QED BY <1>1, <1>2, <1>3 DEF Past, Ahead

(* The ranges the geometry asks for. *)
LEMMA Ranges ==
  ASSUME Types
  PROVE  /\ capacity \in Nat \ {0} /\ head \in 0 .. capacity - 1 /\ tail \in 0 .. capacity - 1
         /\ segment_count \in Nat \ {0} /\ segment_bytes \in Nat /\ segment_count <= CapacityMost
         /\ claimed \in 0 .. Modulus - 1 /\ released \in 0 .. Modulus - 1
         /\ Modulus \in Nat \ {0} /\ segment_count < Modulus /\ Values \in Nat \ {0}
<1>1. /\ segment_count \in 1 .. CapacityMost /\ capacity \in 1 .. CapacityMost
      /\ head \in 0 .. capacity - 1 /\ tail \in 0 .. capacity - 1 /\ segment_bytes \in Nat
      /\ claimed \in 0 .. Modulus - 1 /\ released \in 0 .. Modulus - 1
  BY DEF Types
<1> QED BY <1>1, Constants

----------------------------------------------------------------------------
(* What a step of one view leaves of the others. *)

LEMMA PinnedKept == ASSUME Pinned, UNCHANGED loculi PROVE Pinned'
BY DEF Pinned, HolderPinned, HoldersApart, loculi

LEMMA SegmentedKept ==
  ASSUME Segmented, UNCHANGED <<laid, segs>>, prod'.pc # "fill", cons'.pc # "front"
  PROVE  Segmented'
BY DEF Segmented, laid, segs, InFlight

LEMMA StreamingKept ==
  ASSUME Streaming, UNCHANGED <<laid, stream>>, prod'.pc # "put", cons'.pc \notin {"read", "peek"},
         prod'.promise = prod.promise, cons'.seen = cons.seen
  PROVE  Streaming'
BY DEF Streaming, laid, stream, Used, Free

----------------------------------------------------------------------------
(* The stream's steps. *)

LEMMA VacantInv == ASSUME RingInv, Vacant PROVE RingInv'
<1> USE DEF RingInv
<1>1. Used' = Used /\ Free' = Free /\ Free \in Nat
  BY Ranges, UsedIs DEF Vacant, Used, Free, laid, stream
<1>2. Types'
  <2>1. prod' \in ProdState  BY <1>1 DEF Vacant, Types, ProdState
  <2> QED BY <2>1 DEF Vacant, Types, laid, stream, segs
<1>3. prod'.pc = "idle" /\ prod'.promise = Free /\ use = "stream"  BY DEF Vacant, Types, ProdState
<1>4. Views'  BY <1>3 DEF Vacant, Views, laid, stream, segs
<1>5. Streaming'
  BY <1>1, <1>3 DEF Vacant, Streaming, laid, stream, Ahead, Past
<1>6. Segmented'  BY <1>3, SegmentedKept DEF Vacant, Views
<1>7. Pinned'  BY PinnedKept DEF Vacant
<1> QED BY <1>2, <1>4, <1>5, <1>6, <1>7

LEMMA PutInv == ASSUME RingInv, NEW bytes \in Nat, Put(bytes) PROVE RingInv'
<1> USE DEF RingInv
<1>1. Used' = Used /\ Free' = Free
  BY DEF Put, Used, Free, laid, stream
<1>2. Types'
  <2>1. prod' \in ProdState  BY DEF Put, Types, ProdState
  <2> QED BY <2>1 DEF Put, Types, laid, stream, segs
<1>3. /\ prod'.pc = "put" /\ prod'.promise = prod.promise /\ prod'.bytes = bytes /\ prod'.done = 0
      /\ use = "stream" /\ bytes <= Free
  BY DEF Put, Types, ProdState
<1>4. Views'  BY <1>3 DEF Put, Views, laid, stream, segs
<1>5. Streaming'
  BY <1>1, <1>3 DEF Put, Streaming, laid, stream, Ahead, Past
<1>6. Segmented'  BY <1>3, SegmentedKept DEF Put, Views
<1>7. Pinned'  BY PinnedKept DEF Put
<1> QED BY <1>2, <1>4, <1>5, <1>6, <1>7

(* What the consumer copies lies in the bytes used. *)
LEMMA CopiedUsed ==
  ASSUME RingInv, cons.pc \in {"read", "peek"}, NEW k \in 0 .. cons.bytes - 1
  PROVE  \E j \in 0 .. Used - 1 : Ahead(cons.at, k) = Ahead(tail, j)
<1> USE DEF RingInv
<1> DEFINE from == Past(tail, cons.at)
<1>1. /\ cons.at \in 0 .. capacity - 1 /\ from + cons.bytes <= Used /\ cons.bytes \in Nat
  BY DEF Streaming, Types, ConsState
<1>2. from \in 0 .. capacity - 1 /\ Ahead(tail, from) = cons.at  BY <1>1, Ranges, AheadPast
<1>3. Used \in 0 .. capacity - 1  BY Ranges, UsedIs
<1>4. Ahead(cons.at, k) = Ahead(tail, from + k)
  <2> HIDE DEF from
  <2> QED BY <1>1, <1>2, <1>3, Ranges, AheadAhead
<1>5. from + k \in 0 .. Used - 1
  <2> HIDE DEF from
  <2> QED BY <1>1, <1>2, <1>3
<1> QED BY <1>4, <1>5

(* A byte put changes no byte used. *)
LEMMA MoveInWrites ==
  ASSUME RingInv, MoveIn
  PROVE  /\ buf' = [buf EXCEPT ![Ahead(head, prod.done)] = (next + prod.done) % Values]
         /\ Ahead(head, prod.done) \in 0 .. capacity - 1
         /\ prod.done < prod.bytes /\ prod.bytes <= Free
         /\ \A j \in 0 .. Used - 1 : buf'[Ahead(tail, j)] = buf[Ahead(tail, j)]
<1> USE DEF RingInv
<1>1. prod.bytes <= Free /\ prod.bytes \in Nat /\ prod.done \in Nat
  BY DEF MoveIn, Streaming, Types, ProdState
<1>2. Free \in 0 .. capacity - 1 /\ Used \in 0 .. capacity - 1  BY Ranges, UsedIs
<1>3. prod.done < prod.bytes  BY <1>1, <1>2, Ranges DEF MoveIn, RunCarries
<1>4. /\ RunAt(head, prod.bytes, prod.done) = Ahead(head, prod.done)
      /\ Ahead(head, prod.done) \in 0 .. capacity - 1
  <2>1. /\ capacity \in Nat \ {0} /\ head \in 0 .. capacity - 1
        /\ prod.bytes \in 0 .. capacity /\ prod.done \in 0 .. prod.bytes - 1
    BY <1>1, <1>2, <1>3, Ranges
  <2> QED BY <2>1, RunAtAhead
<1>5. buf' = [buf EXCEPT ![Ahead(head, prod.done)] = (next + prod.done) % Values]
  BY <1>4 DEF MoveIn
<1>6. ASSUME NEW j \in 0 .. Used - 1 PROVE buf'[Ahead(tail, j)] = buf[Ahead(tail, j)]
  <2>1. Ahead(head, prod.done) # Ahead(tail, j)
    BY <1>1, <1>2, <1>3, <1>6, Ranges, FreeNotUsed
  <2>2. buf = [i \in DOMAIN buf |-> buf[i]]  BY DEF Types
  <2> QED BY <1>5, <2>1, <2>2
<1> QED BY <1>1, <1>3, <1>4, <1>5, <1>6

LEMMA MoveInInv == ASSUME RingInv, MoveIn PROVE RingInv'
<1> USE DEF RingInv
<1> DEFINE place == Ahead(head, prod.done)
<1>1. /\ buf' = [buf EXCEPT ![place] = (next + prod.done) % Values]
      /\ place \in 0 .. capacity - 1 /\ prod.done < prod.bytes /\ prod.bytes <= Free
      /\ \A j \in 0 .. Used - 1 : buf'[Ahead(tail, j)] = buf[Ahead(tail, j)]
  BY MoveInWrites
<1>2. /\ prod'.pc = "put" /\ prod'.promise = prod.promise /\ prod'.bytes = prod.bytes
      /\ prod'.done = prod.done + 1 /\ use = "stream" /\ prod.done \in Nat /\ prod.bytes \in Nat
  BY DEF MoveIn, Types, Views, ProdState
<1>3. Used' = Used /\ Free' = Free
  BY DEF MoveIn, Used, Free, laid, stream
<1>4. (next + prod.done) % Values \in Byte
  <2>1. next \in Nat /\ Values \in Nat \ {0}  BY Ranges DEF Types
  <2>2. next + prod.done \in Nat  BY <1>2, <2>1
  <2>3. (next + prod.done) % Values \in 0 .. Values - 1  BY <2>1, <2>2
  <2> QED BY <2>1, <2>3 DEF Byte, Blank
<1>5. /\ buf' \in [DOMAIN buf' -> Byte] /\ DOMAIN buf' = DOMAIN buf
  BY <1>1, <1>4 DEF Types
<1>6. Types'
  <2>1. prod' \in ProdState
    <3>1. prod' = [prod EXCEPT !.done = prod.done + 1]  BY DEF MoveIn
    <3>2. prod \in ProdState /\ prod.done + 1 \in Nat  BY <1>2 DEF Types
    <3> QED BY <3>1, <3>2 DEF ProdState
  <2>2. UNCHANGED <<capacity, segment_count, segment_bytes, use, head, tail, claimed, released,
                    cons, next>>
    BY DEF MoveIn, laid, stream, segs
  <2> QED BY <1>5, <2>1, <2>2 DEF Types
<1>7. Views'  BY <1>2 DEF MoveIn, Views, laid, stream, segs
<1>8. Streaming'
  <2>1. ASSUME NEW k \in 0 .. prod.done PROVE buf'[Ahead(head, k)] = (next + k) % Values
    <3>1. CASE k = prod.done
      <4>1. place \in DOMAIN buf  BY <1>1 DEF Types
      <4> QED BY <1>1, <3>1, <4>1
    <3>2. CASE k # prod.done
      <4>1. k \in 0 .. prod.done - 1  BY <1>2, <3>2
      <4>2. buf[Ahead(head, k)] = (next + k) % Values
        BY <4>1 DEF Streaming, MoveIn
      <4>3. Free \in 0 .. capacity - 1  BY Ranges, UsedIs
      <4>4. Ahead(head, k) # place
        BY <1>1, <1>2, <4>1, <4>3, Ranges, AheadApart
      <4>5. buf'[Ahead(head, k)] = buf[Ahead(head, k)]
        <5>1. Ahead(head, k) \in 0 .. capacity - 1
          BY <1>1, <1>2, <4>1, <4>3, Ranges DEF Ahead
        <5> HIDE DEF place
        <5> QED BY <1>1, <4>4, <5>1 DEF Types
      <4> QED BY <4>2, <4>5
    <3> QED BY <3>1, <3>2
  <2>2. ASSUME cons.pc \in {"read", "peek"}, NEW k \in 1 .. Len(cons.dst)
        PROVE  cons.dst[k] = buf'[Ahead(cons.at, k - 1)]
    <3>1. cons.dst[k] = buf[Ahead(cons.at, k - 1)] /\ Len(cons.dst) <= cons.bytes
      BY <2>2 DEF Streaming
    <3>2. k - 1 \in 0 .. cons.bytes - 1  BY <3>1 DEF Types, ConsState
    <3>3. PICK j \in 0 .. Used - 1 : Ahead(cons.at, k - 1) = Ahead(tail, j)
      BY <2>2, <3>2, CopiedUsed
    <3> QED BY <1>1, <3>1, <3>3
  <2>3. Ahead(head, 0)' = Ahead(head, 0)  BY DEF MoveIn, Ahead, laid, stream
  <2>4. capacity' = capacity /\ head' = head /\ tail' = tail /\ cons' = cons /\ next' = next
    BY DEF MoveIn, laid, stream
  <2> QED BY <1>1, <1>2, <1>3, <2>1, <2>2, <2>4 DEF Streaming, Ahead, Past
<1>9. Segmented'  BY <1>2, SegmentedKept DEF MoveIn, Views
<1>10. Pinned'  BY PinnedKept DEF MoveIn
<1> QED BY <1>6, <1>7, <1>8, <1>9, <1>10

(* The head a finished put stores, and what it leaves to either side. *)
LEMMA PutDoneMoves ==
  ASSUME RingInv, PutDone
  PROVE  /\ use = "stream" /\ prod.bytes \in Nat /\ prod.bytes <= Free
         /\ prod.done = prod.bytes
         /\ head' = Ahead(head, prod.bytes) /\ tail' = tail /\ capacity' = capacity
         /\ Used' = Used + prod.bytes /\ Free' = Free - prod.bytes
         /\ head' \in 0 .. capacity - 1
<1> USE DEF RingInv
<1>1. use = "stream" /\ prod.bytes \in Nat /\ prod.bytes <= Free
  BY DEF PutDone, Views, Streaming, Types, ProdState
<1>2. Free \in 0 .. capacity - 1 /\ Used \in 0 .. capacity - 1  BY Ranges, UsedIs
<1>3. RunCarries(prod.bytes) = prod.bytes  BY <1>1, <1>2, Ranges DEF RunCarries
<1>4. head' = Ahead(head, prod.bytes) /\ tail' = tail /\ capacity' = capacity
  <2>1. prod.bytes \in 0 .. capacity  BY <1>1, <1>2, Ranges
  <2> QED BY <1>3, <2>1, Ranges, WrapAhead DEF PutDone, laid
<1> QED BY <1>1, <1>3, <1>4, Ranges, PutMeasures DEF PutDone

LEMMA PutDoneInv == ASSUME RingInv, PutDone PROVE RingInv'
<1> USE DEF RingInv
<1>1. /\ use = "stream" /\ prod.bytes \in Nat /\ prod.bytes <= Free
      /\ head' \in 0 .. capacity - 1 /\ tail' = tail /\ capacity' = capacity
      /\ Used' = Used + prod.bytes /\ Free' = Free - prod.bytes
  BY PutDoneMoves
<1>2. prod.promise \in Nat /\ next \in Nat /\ Used \in Nat /\ Free \in Nat
  BY Ranges, UsedIs DEF Types, ProdState
<1>3. prod'.pc = "idle" /\ prod'.promise = IF prod.bytes < prod.promise
                                           THEN prod.promise - prod.bytes ELSE 0
  BY DEF PutDone, Types, ProdState
<1>4. Types'
  <2>1. prod' \in ProdState
    <3>1. (IF prod.bytes < prod.promise THEN prod.promise - prod.bytes ELSE 0) \in Nat
      BY <1>1, <1>2
    <3> QED BY <3>1 DEF PutDone, Types, ProdState
  <2>2. next' \in Nat
    <3>1. next + prod.bytes \in Nat  BY <1>1, <1>2
    <3> QED BY <3>1, Ranges DEF PutDone
  <2>3. UNCHANGED <<capacity, segment_count, segment_bytes, use, buf, tail, claimed, released,
                    cons>>
    BY DEF PutDone, laid, segs
  <2> QED BY <1>1, <2>1, <2>2, <2>3 DEF Types
<1>5. Views'  BY <1>1, <1>3 DEF PutDone, Views, laid, segs
<1>6. Streaming'
  <2>1. prod'.promise <= Free'  BY <1>1, <1>2, <1>3 DEF Streaming
  <2>2. cons' = cons /\ buf' = buf  BY DEF PutDone
  <2>3. cons.seen <= Used'
    <3>1. cons.seen \in Nat /\ cons.seen <= Used  BY DEF Streaming, Types, ConsState
    <3> QED BY <1>1, <1>2, <3>1
  <2>4. ASSUME cons.pc \in {"read", "peek"} PROVE Past(tail, cons.at) + cons.bytes <= Used'
    <3>1. cons.at \in 0 .. capacity - 1 /\ Past(tail, cons.at) + cons.bytes <= Used
      BY <2>4 DEF Streaming
    <3>2. Past(tail, cons.at) \in 0 .. capacity - 1  BY <3>1, Ranges, AheadPast
    <3>3. cons.bytes \in Nat  BY DEF Types, ConsState
    <3> QED BY <1>1, <1>2, <3>1, <3>2, <3>3
  <2> QED BY <1>1, <1>3, <2>1, <2>2, <2>3, <2>4 DEF Streaming, Ahead, Past
<1>7. Segmented'  BY <1>1, <1>3, SegmentedKept DEF PutDone, Views
<1>8. Pinned'  BY PinnedKept DEF PutDone
<1> QED BY <1>4, <1>5, <1>6, <1>7, <1>8

LEMMA AvailableInv == ASSUME RingInv, Available PROVE RingInv'
<1> USE DEF RingInv
<1>1. Used' = Used /\ Free' = Free /\ Used \in Nat
  BY Ranges, UsedIs DEF Available, Used, Free, laid, stream
<1>2. cons'.pc = "idle" /\ cons'.seen = Used /\ use = "stream"
  BY DEF Available, Types, ConsState
<1>3. Types'
  <2>1. cons' \in ConsState  BY <1>1 DEF Available, Types, ConsState
  <2> QED BY <2>1 DEF Available, Types, laid, stream, segs
<1>4. Views'  BY <1>2 DEF Available, Views, laid, stream, segs
<1>5. Streaming'
  BY <1>1, <1>2 DEF Available, Streaming, laid, stream, Ahead, Past
<1>6. Segmented'  BY <1>2, SegmentedKept DEF Available, Views
<1>7. Pinned'  BY PinnedKept DEF Available
<1> QED BY <1>3, <1>4, <1>5, <1>6, <1>7

(* A read begins at the tail, over no more than there is. *)
LEMMA ReadInv == ASSUME RingInv, NEW bytes \in Nat, Read(bytes) PROVE RingInv'
<1> USE DEF RingInv
<1> DEFINE least == IF Used < bytes THEN Used ELSE bytes
<1>1. Used' = Used /\ Free' = Free /\ Used \in Nat
  BY Ranges, UsedIs DEF Read, Used, Free, laid, stream
<1>2. /\ cons'.pc = "read" /\ cons'.seen = cons.seen /\ cons'.at = tail /\ cons'.dst = <<>>
      /\ cons'.bytes = least /\ use = "stream"
  BY DEF Read, Types, ConsState
<1>3. least \in Nat /\ least <= Used  BY <1>1
<1>4. Types'
  <2>1. tail \in Nat /\ <<>> \in Seq(Byte)  BY Ranges
  <2>2. cons' \in ConsState  BY <1>3, <2>1 DEF Read, Types, ConsState
  <2> QED BY <2>2 DEF Read, Types, laid, stream, segs
<1>5. Views'  BY <1>2 DEF Read, Views, laid, stream, segs
<1>6. Streaming'
  <2>1. Past(tail, tail) = 0  BY Ranges DEF Past
  <2>2. UNCHANGED <<capacity, head, tail, prod, buf, next>>  BY DEF Read, laid, stream
  <2>3. Len(cons'.dst) = 0  BY <1>2
  <2> HIDE DEF least
  <2> QED BY <1>1, <1>2, <1>3, <2>1, <2>2, <2>3, Ranges DEF Streaming, Ahead, Past
<1>7. Segmented'  BY <1>2, SegmentedKept DEF Read, Views
<1>8. Pinned'  BY PinnedKept DEF Read
<1> QED BY <1>4, <1>5, <1>6, <1>7, <1>8

(* A peek looks from so far past the tail, inside what available told. *)
LEMMA PeekInv ==
  ASSUME RingInv, NEW offset \in Nat, NEW bytes \in Nat, Peek(offset, bytes) PROVE RingInv'
<1> USE DEF RingInv
<1>1. /\ Used' = Used /\ Free' = Free /\ Used \in 0 .. capacity - 1
  BY Ranges, UsedIs DEF Peek, Used, Free, laid, stream
<1>2. offset + bytes <= Used /\ offset \in 0 .. capacity - 1
  <2>1. cons.seen \in Nat /\ cons.seen <= Used /\ offset + bytes <= cons.seen
    BY DEF Peek, Streaming, Types, ConsState
  <2> QED BY <1>1, <2>1, Ranges
<1>3. /\ Wrap(tail + offset, capacity) = Ahead(tail, offset)
      /\ Ahead(tail, offset) \in 0 .. capacity - 1
  BY <1>2, Ranges, WrapAhead
<1>4. /\ cons'.pc = "peek" /\ cons'.seen = cons.seen /\ cons'.at = Ahead(tail, offset)
      /\ cons'.dst = <<>> /\ cons'.bytes = bytes /\ use = "stream"
  BY <1>3 DEF Peek, Types, ConsState
<1>5. Types'
  <2>1. Wrap(tail + offset, capacity) \in Nat /\ <<>> \in Seq(Byte)  BY <1>3, Ranges
  <2>2. cons' \in ConsState  BY <2>1 DEF Peek, Types, ConsState
  <2> QED BY <2>2 DEF Peek, Types, laid, stream, segs
<1>6. Views'  BY <1>4 DEF Peek, Views, laid, stream, segs
<1>7. Streaming'
  <2>1. Past(tail, Ahead(tail, offset)) = offset  BY <1>2, Ranges, PastAhead
  <2>2. UNCHANGED <<capacity, head, tail, prod, buf, next>>  BY DEF Peek, laid, stream
  <2>3. Len(cons'.dst) = 0  BY <1>4
  <2>4. Past(tail, cons.at)' = offset  BY <1>4, <2>1, <2>2 DEF Past
  <2>5. Past(tail, cons.at)' + cons'.bytes <= Used' /\ cons'.at \in 0 .. capacity' - 1
    BY <1>1, <1>2, <1>3, <1>4, <2>2, <2>4
  <2>6. prod'.promise <= Free' /\ cons'.seen <= Used'  BY <1>1, <1>4, <2>2 DEF Streaming
  <2>7. prod.pc = "put" => /\ prod.bytes <= Free' /\ prod.done <= prod.bytes
          /\ \A k \in 0 .. prod.done - 1 : buf'[Ahead(head, k)'] = (next + k) % Values
    BY <1>1, <2>2 DEF Streaming, Ahead
  <2> QED BY <1>4, <2>2, <2>3, <2>5, <2>6, <2>7 DEF Streaming, Ahead
<1>8. Segmented'  BY <1>4, SegmentedKept DEF Peek, Views
<1>9. Pinned'  BY PinnedKept DEF Peek
<1> QED BY <1>5, <1>6, <1>7, <1>8, <1>9

(* A copy out appends the byte that lies next. *)
LEMMA MoveOutTakes ==
  ASSUME RingInv, MoveOut
  PROVE  /\ cons.pc \in {"read", "peek"} /\ use = "stream"
         /\ cons.bytes \in 0 .. capacity - 1 /\ Len(cons.dst) \in 0 .. cons.bytes - 1
         /\ Ahead(cons.at, Len(cons.dst)) \in 0 .. capacity - 1
         /\ cons' = [cons EXCEPT !.dst = Append(cons.dst, buf[Ahead(cons.at, Len(cons.dst))])]
<1> USE DEF RingInv
<1>1. /\ cons.pc \in {"read", "peek"} /\ use = "stream" /\ cons.bytes \in Nat
      /\ Len(cons.dst) \in Nat /\ Len(cons.dst) < RunCarries(cons.bytes)
      /\ cons.at \in 0 .. capacity - 1 /\ Past(tail, cons.at) + cons.bytes <= Used
  BY DEF MoveOut, Views, Streaming, Types, ConsState
<1>2. Used \in 0 .. capacity - 1 /\ Past(tail, cons.at) \in 0 .. capacity - 1
  BY <1>1, Ranges, UsedIs, AheadPast
<1>3. cons.bytes \in 0 .. capacity - 1 /\ Len(cons.dst) \in 0 .. cons.bytes - 1
  <2>1. capacity \in Nat  BY Ranges
  <2>2. cons.bytes \in 0 .. capacity - 1  BY <1>1, <1>2, <2>1
  <2>3. RunCarries(cons.bytes) = cons.bytes  BY <2>1, <2>2 DEF RunCarries
  <2> QED BY <1>1, <2>2, <2>3
<1>4. /\ RunAt(cons.at, cons.bytes, Len(cons.dst)) = Ahead(cons.at, Len(cons.dst))
      /\ Ahead(cons.at, Len(cons.dst)) \in 0 .. capacity - 1
  <2>1. capacity \in Nat \ {0} /\ cons.bytes \in 0 .. capacity  BY <1>3, Ranges
  <2> QED BY <1>1, <1>3, <2>1, RunAtAhead
<1> QED BY <1>1, <1>3, <1>4 DEF MoveOut

LEMMA MoveOutInv == ASSUME RingInv, MoveOut PROVE RingInv'
<1> USE DEF RingInv
<1> DEFINE byte == buf[Ahead(cons.at, Len(cons.dst))]
<1>1. /\ cons.pc \in {"read", "peek"} /\ use = "stream"
      /\ cons.bytes \in 0 .. capacity - 1 /\ Len(cons.dst) \in 0 .. cons.bytes - 1
      /\ Ahead(cons.at, Len(cons.dst)) \in 0 .. capacity - 1
      /\ cons' = [cons EXCEPT !.dst = Append(cons.dst, byte)]
  BY MoveOutTakes
<1>2. byte \in Byte /\ cons.dst \in Seq(Byte) /\ cons \in ConsState  BY <1>1 DEF Types, ConsState
<1>3. cons' \in ConsState
  <2> HIDE DEF byte
  <2>1. Append(cons.dst, byte) \in Seq(Byte)  BY <1>2
  <2> QED BY <1>1, <1>2, <2>1 DEF ConsState
<1>4. /\ cons'.pc = cons.pc /\ cons'.at = cons.at /\ cons'.bytes = cons.bytes
      /\ cons'.seen = cons.seen /\ cons'.dst = Append(cons.dst, byte)
  <2> HIDE DEF byte
  <2> QED BY <1>1, <1>2 DEF ConsState
<1>5. UNCHANGED <<capacity, segment_count, segment_bytes, use, head, tail, claimed, released,
                  prod, buf, next>>
  BY DEF MoveOut, laid, stream, segs
<1>6. Types'  BY <1>3, <1>5 DEF Types
<1>7. Views'  BY <1>4, <1>5 DEF Views
<1>8. Streaming'
  <2>1. Used' = Used /\ Free' = Free  BY <1>5 DEF Used, Free
  <2>2. Len(cons'.dst) = Len(cons.dst) + 1
    <3> HIDE DEF byte
    <3> QED BY <1>2, <1>4
  <2>3. ASSUME NEW k \in 1 .. Len(cons'.dst) PROVE cons'.dst[k] = buf[Ahead(cons.at, k - 1)]
    <3>1. CASE k = Len(cons.dst) + 1
      <4>1. cons'.dst[k] = byte
        <5> HIDE DEF byte
        <5> QED BY <1>2, <1>4, <3>1
      <4>2. k - 1 = Len(cons.dst)  BY <1>1, <3>1
      <4> QED BY <4>1, <4>2
    <3>2. CASE k # Len(cons.dst) + 1
      <4>1. k \in 1 .. Len(cons.dst)  BY <1>1, <2>2, <3>2
      <4>2. cons'.dst[k] = cons.dst[k]
        <5> HIDE DEF byte
        <5> QED BY <1>2, <1>4, <4>1
      <4> QED BY <1>1, <4>1, <4>2 DEF Streaming
    <3> QED BY <3>1, <3>2
  <2>4. Len(cons'.dst) <= cons'.bytes  BY <1>1, <1>4, <2>2
  <2> HIDE DEF byte
  <2> QED BY <1>1, <1>4, <1>5, <2>1, <2>3, <2>4 DEF Streaming, Ahead, Past
<1>9. Segmented'
  <2>1. prod'.pc # "fill"  BY <1>1, <1>5 DEF Views
  <2>2. cons'.pc # "front"  BY <1>1, <1>4
  <2> QED BY <2>1, <2>2, SegmentedKept DEF MoveOut
<1>10. Pinned'  BY PinnedKept DEF MoveOut
<1> QED BY <1>6, <1>7, <1>8, <1>9, <1>10

(* A take moves the tail past bytes that were used, and leaves no copy of   *)
(* the consumer under way.                                                 *)
LEMMA TakenInv ==
  ASSUME RingInv, use = "stream", NEW n \in Nat, n <= Used, tail' = Ahead(tail, n),
         UNCHANGED <<laid, buf, head, segs, loculi, prod, next>>,
         cons' \in ConsState, cons'.pc = "idle", cons'.seen + n <= cons.seen \/ cons'.seen = 0
  PROVE  RingInv'
<1> USE DEF RingInv
<1>1. UNCHANGED <<capacity, segment_count, segment_bytes, use, head, claimed, released,
                  prod, buf, next>>
  BY DEF laid, segs
<1>2. Used' = Used - n /\ Free' = Free + n /\ tail' \in 0 .. capacity - 1
  BY <1>1, Ranges, TakeMeasures
<1>3. Used \in Nat /\ Free \in Nat /\ prod.promise \in Nat /\ prod.bytes \in Nat
  BY Ranges, UsedIs DEF Types, ProdState
<1>4. Types'  BY <1>1, <1>2 DEF Types
<1>5. Views'  BY <1>1 DEF Views
<1>6. Streaming'
  <2>1. cons'.seen <= Used'
    <3>1. cons'.seen \in Nat /\ cons.seen \in Nat /\ cons.seen <= Used
      BY DEF Types, Streaming, ConsState
    <3> QED BY <1>2, <1>3, <3>1
  <2>2. prod.promise <= Free' /\ (prod.pc = "put" => prod.bytes <= Free')
    BY <1>2, <1>3 DEF Streaming
  <2> QED BY <1>1, <2>1, <2>2 DEF Streaming, Ahead
<1>7. prod'.pc # "fill"  BY <1>1 DEF Views
<1>8. Segmented'  BY <1>7, SegmentedKept
<1>9. Pinned'  BY PinnedKept
<1> QED BY <1>4, <1>5, <1>6, <1>8, <1>9

(* The tail a finished read stores. *)
LEMMA ReadDoneMoves ==
  ASSUME RingInv, ReadDone
  PROVE  /\ use = "stream" /\ cons.bytes \in Nat /\ cons.bytes <= Used /\ cons.at = tail
         /\ Len(cons.dst) = cons.bytes /\ tail' = Ahead(tail, cons.bytes)
<1> USE DEF RingInv
<1>1. /\ use = "stream" /\ cons.bytes \in Nat /\ cons.at = tail
      /\ Past(tail, cons.at) + cons.bytes <= Used
  BY DEF ReadDone, Views, Streaming, Types, ConsState
<1>2. Used \in 0 .. capacity - 1 /\ Past(tail, tail) = 0  BY Ranges, UsedIs DEF Past
<1>3. RunCarries(cons.bytes) = cons.bytes /\ cons.bytes \in 0 .. capacity
  BY <1>1, <1>2, Ranges DEF RunCarries
<1>4. tail' = Ahead(tail, cons.bytes)  BY <1>3, Ranges, WrapAhead DEF ReadDone
<1> QED BY <1>1, <1>2, <1>3, <1>4 DEF ReadDone

LEMMA ReadDoneInv == ASSUME RingInv, ReadDone PROVE RingInv'
<1> USE DEF RingInv
<1>1. /\ use = "stream" /\ cons.bytes \in Nat /\ cons.bytes <= Used
      /\ tail' = Ahead(tail, cons.bytes)
  BY ReadDoneMoves
<1> DEFINE left == IF cons.bytes < cons.seen THEN cons.seen - cons.bytes ELSE 0
<1>2. left \in Nat /\ (left + cons.bytes <= cons.seen \/ left = 0)
  BY <1>1 DEF Types, ConsState
<1>3. cons' \in ConsState /\ cons'.pc = "idle" /\ cons'.seen = left
  <2>1. <<>> \in Seq(Byte)  OBVIOUS
  <2> QED BY <1>2, <2>1 DEF ReadDone, Types, ConsState
<1> HIDE DEF left
<1>4. UNCHANGED <<laid, buf, head, segs, loculi, prod, next>>  BY DEF ReadDone
<1> QED BY <1>1, <1>2, <1>3, <1>4, TakenInv

LEMMA ConsumeInv == ASSUME RingInv, NEW bytes \in Nat, Consume(bytes) PROVE RingInv'
<1> USE DEF RingInv
<1>1. cons.seen \in Nat /\ bytes <= cons.seen /\ cons.seen <= Used /\ use = "stream"
  BY DEF Consume, Streaming, Types, ConsState
<1>2. Used \in 0 .. capacity - 1  BY Ranges, UsedIs
<1>3. bytes \in 0 .. capacity /\ bytes <= Used  BY <1>1, <1>2, Ranges
<1>4. tail' = Ahead(tail, bytes)  BY <1>3, Ranges, WrapAhead DEF Consume
<1>5. cons.seen - bytes \in Nat  BY <1>1
<1>6. cons' \in ConsState /\ cons'.pc = "idle" /\ cons'.seen = cons.seen - bytes
  BY <1>5 DEF Consume, Types, ConsState
<1>7. UNCHANGED <<laid, buf, head, segs, loculi, prod, next>>  BY DEF Consume
<1>8. cons'.seen + bytes <= cons.seen  BY <1>1, <1>6
<1> QED BY <1>1, <1>3, <1>4, <1>6, <1>7, <1>8, TakenInv

LEMMA PeekDoneInv == ASSUME RingInv, PeekDone PROVE RingInv'
<1> USE DEF RingInv
<1>1. Used' = Used /\ Free' = Free
  BY DEF PeekDone, Used, Free, laid, stream
<1>2. use = "stream"  BY DEF PeekDone, Views
<1>3. cons' \in ConsState /\ cons'.pc = "idle" /\ cons'.seen = cons.seen
  <2>1. <<>> \in Seq(Byte)  OBVIOUS
  <2> QED BY <2>1 DEF PeekDone, Types, ConsState
<1>4. UNCHANGED <<capacity, segment_count, segment_bytes, use, head, tail, claimed, released,
                  prod, buf, next>>
  BY DEF PeekDone, laid, stream, segs
<1>5. Types'  BY <1>3, <1>4 DEF Types
<1>6. Views'  BY <1>2, <1>3, <1>4 DEF Views
<1>7. Streaming'  BY <1>1, <1>3, <1>4 DEF Streaming, Ahead
<1>8. prod'.pc # "fill"  BY <1>2, <1>4 DEF Views
<1>9. Segmented'  BY <1>3, <1>8, SegmentedKept DEF PeekDone
<1>10. Pinned'  BY PinnedKept DEF PeekDone
<1> QED BY <1>5, <1>6, <1>7, <1>9, <1>10

----------------------------------------------------------------------------
(* Segments: their counters and their places. *)

(* The segment so many past the released ones. *)
Slot(j) == Wrap(released + j, segment_count)

(* A turn of the counters is a whole number of turns of the segments.       *)
LEMMA CountDivides ==
  ASSUME Types PROVE \E q \in Nat : Modulus = segment_count * q
<1>1. segment_count \in 1 .. CapacityMost /\ Pow2(segment_count)  BY DEF Types
<1>2. Modulus % segment_count = 0 /\ Modulus \in Nat \ {0} /\ segment_count \in Nat \ {0}
  BY <1>1, PowersAssumption, Constants DEF Modulus
<1>3. /\ Modulus = segment_count * (Modulus \div segment_count) + (Modulus % segment_count)
      /\ Modulus \div segment_count \in Nat
  <2> HIDE DEF Modulus
  <2> QED BY <1>2
<1> QED BY <1>2, <1>3

(* The counters' distance, and the segment claimed next. *)
LEMMA InFlightIs ==
  ASSUME Types
  PROVE  /\ InFlight = IF claimed >= released THEN claimed - released
                       ELSE claimed - released + Modulus
         /\ InFlight \in 0 .. Modulus - 1
         /\ Wrap(claimed, segment_count) = Slot(InFlight)
         /\ Wrap(released, segment_count) = Slot(0)
<1>1. /\ Modulus \in Nat \ {0} /\ claimed \in 0 .. Modulus - 1 /\ released \in 0 .. Modulus - 1
      /\ segment_count \in Nat \ {0}
  BY Ranges
<1>2. InFlight = (claimed - released) % Modulus  BY DEF InFlight, Modulus
<1> HIDE DEF Modulus
<1>3. /\ InFlight = IF claimed >= released THEN claimed - released
                    ELSE claimed - released + Modulus
      /\ InFlight \in 0 .. Modulus - 1
  BY <1>1, <1>2, Distance
<1>4. Wrap(claimed, segment_count) = Slot(InFlight)
  <2>1. CASE claimed >= released
    <3>1. released + InFlight = claimed  BY <1>1, <1>3, <2>1
    <3> QED BY <3>1 DEF Slot
  <2>2. CASE claimed < released
    <3>1. released + InFlight = claimed + Modulus  BY <1>1, <1>3, <2>2
    <3>2. PICK q \in Nat : Modulus = segment_count * q  BY CountDivides
    <3>3. claimed \in Int /\ q \in Int  BY <1>1
    <3>4. (claimed + segment_count * q) % segment_count = claimed % segment_count
      BY <1>1, <3>3, ModTurns
    <3> QED BY <3>1, <3>2, <3>4 DEF Slot, Wrap
  <2> QED BY <1>1, <2>1, <2>2
<1>5. released + 0 = released  BY <1>1
<1> QED BY <1>3, <1>4, <1>5 DEF Slot

(* Segments less than a turn apart are different segments. *)
LEMMA SlotsApart ==
  ASSUME Types, NEW i \in Nat, NEW j \in Nat, i < j, j - i < segment_count
  PROVE  Slot(i) # Slot(j)
<1>1. segment_count \in Nat \ {0} /\ released \in Int  BY Ranges
<1>2. /\ released + i \in Int /\ released + j \in Int /\ released + i < released + j
      /\ (released + j) - (released + i) < segment_count
  BY <1>1
<1>3. (released + i) % segment_count # (released + j) % segment_count
  BY <1>1, <1>2, ModApart
<1> QED BY <1>3 DEF Slot, Wrap

LEMMA SlotIs ==
  ASSUME Types, NEW i \in Nat
  PROVE  Slot(i) \in 0 .. segment_count - 1 /\ SegAt(Slot(i)) \in Nat
<1>1. /\ segment_count \in Nat \ {0} /\ segment_bytes \in Nat /\ released \in Nat
  BY Ranges
<1>2. Slot(i) \in 0 .. segment_count - 1  BY <1>1 DEF Slot, Wrap
<1>3. Slot(i) * segment_bytes \in Nat
  <2> HIDE DEF Slot
  <2> QED BY <1>1, <1>2
<1> QED BY <1>2, <1>3 DEF SegAt

(* A segment's bytes lie in the buffer, and in no other segment. *)
LEMMA SlotInside ==
  ASSUME Types, NEW i \in Nat, NEW k \in 0 .. segment_bytes - 1
  PROVE  SegAt(Slot(i)) + k \in DOMAIN buf
<1>1. /\ segment_count \in Nat \ {0} /\ segment_bytes \in Nat
      /\ Slot(i) \in 0 .. segment_count - 1
  BY Ranges, SlotIs
<1>2. Slot(i) * segment_bytes + k \in 0 .. segment_count * segment_bytes - 1
  <2> HIDE DEF Slot
  <2> QED BY <1>1, BlockInside
<1>3. 0 .. segment_count * segment_bytes - 1 \subseteq DOMAIN buf  BY DEF Types
<1> QED BY <1>2, <1>3 DEF SegAt

LEMMA SlotBytesApart ==
  ASSUME Types, NEW i \in Nat, NEW j \in Nat, i < j, j - i < segment_count,
         NEW k \in 0 .. segment_bytes - 1, NEW l \in 0 .. segment_bytes - 1
  PROVE  SegAt(Slot(i)) + k # SegAt(Slot(j)) + l
<1>1. Slot(i) # Slot(j)  BY SlotsApart
<1>2. Slot(i) \in Nat /\ Slot(j) \in Nat /\ segment_bytes \in Nat
  <2>1. Slot(i) \in 0 .. segment_count - 1 /\ Slot(j) \in 0 .. segment_count - 1  BY SlotIs
  <2> QED BY <2>1, Ranges
<1> QED BY <1>1, <1>2, BlocksApart DEF SegAt

----------------------------------------------------------------------------
(* The segments' steps. *)

LEMMA SegNextInv == ASSUME RingInv, SegNext PROVE RingInv'
<1> USE DEF RingInv
<1>1. UNCHANGED <<capacity, segment_count, segment_bytes, use, head, tail, claimed, released,
                  cons, buf, next>>
  BY DEF SegNext, laid, stream, segs
<1>2. segment_bytes \in Nat  BY Ranges
<1>3. /\ prod' \in ProdState /\ prod'.pc = "fill" /\ prod'.done = 0
      /\ prod'.promise = prod.promise /\ use = "segments" /\ InFlight < segment_count
  BY <1>2 DEF SegNext, Types, ProdState
<1>4. Types'  BY <1>1, <1>3 DEF Types
<1>5. Views'  BY <1>1, <1>3 DEF Views
<1>6. Streaming'
  <2>1. cons'.pc \notin {"read", "peek"} /\ cons'.seen = cons.seen  BY <1>1, <1>3 DEF Views
  <2>2. prod'.pc # "put"  BY <1>3
  <2>3. UNCHANGED <<laid, stream>>  BY DEF SegNext
  <2> QED BY <1>3, <2>1, <2>2, <2>3, StreamingKept
<1>7. Segmented'
  <2>1. InFlight' = InFlight /\ InFlight <= segment_count  BY <1>1 DEF InFlight, Segmented
  <2>2. prod'.done <= segment_bytes /\ 0 .. prod'.done - 1 = {}  BY <1>2, <1>3
  <2> QED BY <1>1, <1>3, <2>1, <2>2 DEF Segmented, SegAt, Wrap
<1>8. Pinned'  BY PinnedKept DEF SegNext
<1> QED BY <1>4, <1>5, <1>6, <1>7, <1>8

(* A byte filled changes no byte of a segment in flight. *)
LEMMA SegFillWrites ==
  ASSUME RingInv, SegFill
  PROVE  LET place == SegAt(Slot(InFlight)) + prod.done
         IN  /\ buf' = [buf EXCEPT ![place] = (next + prod.done) % Values]
             /\ place \in DOMAIN buf /\ use = "segments"
             /\ InFlight \in Nat /\ InFlight < segment_count
             /\ prod.done \in 0 .. segment_bytes - 1
             /\ \A j \in 0 .. InFlight - 1, k \in 0 .. segment_bytes - 1 :
                  buf'[SegAt(Slot(j)) + k] = buf[SegAt(Slot(j)) + k]
<1> USE DEF RingInv
<1> DEFINE place == SegAt(Slot(InFlight)) + prod.done
<1>1. /\ use = "segments" /\ InFlight < segment_count /\ prod.done \in Nat
      /\ prod.done < segment_bytes
  BY DEF SegFill, Views, Segmented, Types, ProdState
<1>2. InFlight \in Nat /\ Wrap(claimed, segment_count) = Slot(InFlight)
  BY InFlightIs, Ranges
<1>3. prod.done \in 0 .. segment_bytes - 1 /\ segment_count \in Nat  BY <1>1, Ranges
<1>4. place \in DOMAIN buf  BY <1>2, <1>3, SlotInside
<1>5. buf' = [buf EXCEPT ![place] = (next + prod.done) % Values]  BY <1>2 DEF SegFill
<1>6. ASSUME NEW j \in 0 .. InFlight - 1, NEW k \in 0 .. segment_bytes - 1
      PROVE  buf'[SegAt(Slot(j)) + k] = buf[SegAt(Slot(j)) + k]
  <2>1. j \in Nat /\ j < InFlight /\ InFlight - j < segment_count  BY <1>1, <1>2, <1>3, <1>6
  <2>2. SegAt(Slot(j)) + k # place  BY <1>2, <1>3, <2>1, SlotBytesApart
  <2>3. SegAt(Slot(j)) + k \in DOMAIN buf  BY <2>1, SlotInside
  <2>4. buf = [i \in DOMAIN buf |-> buf[i]]  BY DEF Types
  <2> HIDE DEF place
  <2> QED BY <1>5, <2>2, <2>3, <2>4
<1> QED BY <1>1, <1>2, <1>3, <1>4, <1>5, <1>6

LEMMA SegFillInv == ASSUME RingInv, SegFill PROVE RingInv'
<1> USE DEF RingInv
<1> DEFINE place == SegAt(Slot(InFlight)) + prod.done
           byte == (next + prod.done) % Values
<1>1. /\ buf' = [buf EXCEPT ![place] = byte]
      /\ place \in DOMAIN buf /\ use = "segments" /\ InFlight \in Nat /\ InFlight < segment_count
      /\ prod.done \in 0 .. segment_bytes - 1
      /\ \A j \in 0 .. InFlight - 1, k \in 0 .. segment_bytes - 1 :
           buf'[SegAt(Slot(j)) + k] = buf[SegAt(Slot(j)) + k]
  BY SegFillWrites
<1>2. UNCHANGED <<capacity, segment_count, segment_bytes, use, head, tail, claimed, released,
                  cons, next>>
  BY DEF SegFill, laid, stream, segs
<1>3. prod' \in ProdState /\ prod'.pc = "fill" /\ prod'.done = prod.done + 1
      /\ prod'.promise = prod.promise
  <2>1. prod.done + 1 \in Nat  BY <1>1
  <2> QED BY <2>1 DEF SegFill, Types, ProdState
<1>4. byte \in Byte
  <2>1. next \in Nat /\ prod.done \in Nat /\ Values \in Nat \ {0}
    BY <1>1, Constants DEF Types, ProdState
  <2> QED BY <2>1 DEF Byte, Blank
<1>5. DOMAIN buf' = DOMAIN buf /\ buf' \in [DOMAIN buf -> Byte] /\ buf'[place] = byte
  <2>1. buf \in [DOMAIN buf -> Byte]  BY DEF Types
  <2> HIDE DEF place, byte
  <2> QED BY <1>1, <1>4, <2>1
<1>6. Types'  BY <1>2, <1>3, <1>5 DEF Types
<1>7. Views'  BY <1>1, <1>2, <1>3 DEF Views
<1>8. Streaming'
  <2>1. cons'.pc \notin {"read", "peek"} /\ cons'.seen = cons.seen  BY <1>1, <1>2 DEF Views
  <2>2. prod'.pc # "put"  BY <1>3
  <2>3. UNCHANGED <<laid, stream>>  BY DEF SegFill
  <2> QED BY <1>3, <2>1, <2>2, <2>3, StreamingKept
<1>9. InFlight' = InFlight  BY <1>2 DEF InFlight
<1>10. Wrap(claimed, segment_count) = Slot(InFlight) /\ Wrap(released, segment_count) = Slot(0)
  BY InFlightIs
<1>11. ASSUME NEW k \in 0 .. prod'.done - 1
       PROVE  buf'[SegAt(Slot(InFlight)) + k] = (next + k) % Values
  <2>1. CASE k = prod.done  BY <1>5, <2>1
  <2>2. CASE k # prod.done
    <3>1. k \in 0 .. prod.done - 1  BY <1>1, <1>3, <2>2
    <3>2. buf[SegAt(Slot(InFlight)) + k] = (next + k) % Values
      BY <1>10, <3>1 DEF SegFill, Segmented
    <3>3. SegAt(Slot(InFlight)) + k # place
      <4>1. SegAt(Slot(InFlight)) \in Nat  BY <1>1, SlotIs
      <4> HIDE DEF SegAt, Slot
      <4> QED BY <1>1, <3>1, <4>1
    <3> HIDE DEF place, byte
    <3>4. buf'[SegAt(Slot(InFlight)) + k] = buf[SegAt(Slot(InFlight)) + k]
      <4>1. buf \in [DOMAIN buf -> Byte]  BY DEF Types
      <4>2. k \in 0 .. segment_bytes - 1
        <5>1. segment_bytes \in Nat  BY Ranges
        <5> QED BY <1>1, <3>1, <5>1
      <4>3. SegAt(Slot(InFlight)) + k \in DOMAIN buf  BY <1>1, <4>2, SlotInside
      <4> QED BY <1>1, <3>3, <4>1, <4>3
    <3> QED BY <3>2, <3>4
  <2> QED BY <2>1, <2>2
<1>12. Segmented'
  <2>1. prod'.done <= segment_bytes
    <3>1. segment_bytes \in Nat  BY Ranges
    <3> QED BY <1>1, <1>3, <3>1
  <2>2. ASSUME cons.pc = "front"
        PROVE  /\ InFlight > 0 /\ cons.at = SegAt(Slot(0)) /\ Len(cons.dst) <= segment_bytes
               /\ \A k \in 1 .. Len(cons.dst) : cons.dst[k] = buf'[cons.at + (k - 1)]
    <3>1. /\ InFlight > 0 /\ cons.at = SegAt(Slot(0)) /\ Len(cons.dst) <= segment_bytes
          /\ \A k \in 1 .. Len(cons.dst) : cons.dst[k] = buf[cons.at + (k - 1)]
      BY <1>10, <2>2 DEF Segmented
    <3>2. ASSUME NEW k \in 1 .. Len(cons.dst) PROVE cons.dst[k] = buf'[cons.at + (k - 1)]
      <4>1. Len(cons.dst) \in Nat /\ segment_bytes \in Nat  BY Ranges DEF Types, ConsState
      <4>2. k - 1 \in 0 .. segment_bytes - 1 /\ 0 \in 0 .. InFlight - 1  BY <1>1, <3>1, <4>1
      <4>3. buf'[SegAt(Slot(0)) + (k - 1)] = buf[SegAt(Slot(0)) + (k - 1)]  BY <1>1, <4>2
      <4> QED BY <3>1, <4>3
    <3> QED BY <3>1, <3>2
  <2>3. SegAt(Wrap(claimed, segment_count))' = SegAt(Slot(InFlight))
        /\ SegAt(Wrap(released, segment_count))' = SegAt(Slot(0))
    BY <1>2, <1>10 DEF SegAt, Wrap
  <2> HIDE DEF place, byte
  <2> QED BY <1>1, <1>2, <1>3, <1>9, <1>11, <2>1, <2>2, <2>3 DEF Segmented
<1>13. Pinned'  BY PinnedKept DEF SegFill
<1> QED BY <1>6, <1>7, <1>8, <1>12, <1>13

(* A counter's step, and the distance it leaves. *)
LEMMA SegPublishCounts ==
  ASSUME RingInv, SegPublish
  PROVE  InFlight' = InFlight + 1 /\ claimed' \in 0 .. Modulus - 1
<1> USE DEF RingInv
<1>1. /\ Modulus \in Nat \ {0} /\ claimed \in 0 .. Modulus - 1 /\ released \in 0 .. Modulus - 1
      /\ segment_count \in Nat /\ segment_count < Modulus
  BY Ranges
<1>2. /\ InFlight = IF claimed >= released THEN claimed - released
                    ELSE claimed - released + Modulus
      /\ InFlight < segment_count
  BY InFlightIs DEF SegPublish, Segmented
<1>3. claimed' = (claimed + 1) % Modulus /\ released' = released  BY DEF SegPublish, Modulus
<1>4. InFlight' = (claimed' - released) % Modulus  BY <1>3 DEF InFlight, Modulus
<1> HIDE DEF Modulus
<1>5. claimed' = (IF claimed = Modulus - 1 THEN 0 ELSE claimed + 1) /\ claimed' \in 0 .. Modulus - 1
  BY <1>1, <1>3
<1>6. InFlight' = IF claimed' >= released THEN claimed' - released
                  ELSE claimed' - released + Modulus
  BY <1>1, <1>4, <1>5, Distance
<1> HIDE DEF InFlight
<1> QED BY <1>1, <1>2, <1>5, <1>6

LEMMA SegReleaseCounts ==
  ASSUME RingInv, SegRelease
  PROVE  InFlight' = InFlight - 1 /\ released' \in 0 .. Modulus - 1
<1> USE DEF RingInv
<1>1. /\ Modulus \in Nat \ {0} /\ claimed \in 0 .. Modulus - 1 /\ released \in 0 .. Modulus - 1
  BY Ranges
<1>2. /\ InFlight = IF claimed >= released THEN claimed - released
                    ELSE claimed - released + Modulus
      /\ InFlight > 0
  BY InFlightIs DEF SegRelease, Segmented
<1>3. released' = (released + 1) % Modulus /\ claimed' = claimed  BY DEF SegRelease, Modulus
<1>4. InFlight' = (claimed - released') % Modulus  BY <1>3 DEF InFlight, Modulus
<1> HIDE DEF Modulus
<1>5. released' = (IF released = Modulus - 1 THEN 0 ELSE released + 1)
      /\ released' \in 0 .. Modulus - 1
  BY <1>1, <1>3
<1>6. InFlight' = IF claimed >= released' THEN claimed - released'
                  ELSE claimed - released' + Modulus
  BY <1>1, <1>4, <1>5, Distance
<1> HIDE DEF InFlight
<1> QED BY <1>1, <1>2, <1>5, <1>6

LEMMA SegPublishInv == ASSUME RingInv, SegPublish PROVE RingInv'
<1> USE DEF RingInv
<1>1. InFlight' = InFlight + 1 /\ claimed' \in 0 .. Modulus - 1  BY SegPublishCounts
<1>2. UNCHANGED <<capacity, segment_count, segment_bytes, use, head, tail, released, cons, buf>>
  BY DEF SegPublish, laid, stream
<1>3. use = "segments" /\ InFlight < segment_count /\ InFlight \in Nat /\ segment_count \in Nat
  BY InFlightIs, Ranges DEF SegPublish, Views, Segmented
<1>4. prod' \in ProdState /\ prod'.pc = "idle" /\ prod'.promise = prod.promise
  BY DEF SegPublish, Types, ProdState
<1>5. next' \in Nat
  <2>1. next + segment_bytes \in Nat /\ Values \in Nat \ {0}  BY Ranges DEF Types
  <2> QED BY <2>1 DEF SegPublish
<1>6. Types'  BY <1>1, <1>2, <1>4, <1>5 DEF Types
<1>7. Views'  BY <1>2, <1>3, <1>4 DEF Views
<1>8. Streaming'
  <2>1. cons'.pc \notin {"read", "peek"} /\ cons'.seen = cons.seen  BY <1>2, <1>3 DEF Views
  <2>2. prod'.pc # "put"  BY <1>4
  <2>3. UNCHANGED <<laid, stream>>  BY DEF SegPublish
  <2> QED BY <1>4, <2>1, <2>2, <2>3, StreamingKept
<1>9. Segmented'
  <2>1. InFlight' <= segment_count /\ (InFlight > 0 => InFlight' > 0)  BY <1>1, <1>3
  <2> QED BY <1>2, <1>4, <2>1 DEF Segmented, SegAt, Wrap
<1>10. Pinned'  BY PinnedKept DEF SegPublish
<1> QED BY <1>6, <1>7, <1>8, <1>9, <1>10

LEMMA SegFrontInv == ASSUME RingInv, SegFront PROVE RingInv'
<1> USE DEF RingInv
<1>1. UNCHANGED <<capacity, segment_count, segment_bytes, use, head, tail, claimed, released,
                  prod, buf, next>>
  BY DEF SegFront, laid, stream, segs
<1>2. /\ use = "segments" /\ segment_bytes \in Nat /\ SegAt(Slot(0)) \in Nat
      /\ Wrap(released, segment_count) = Slot(0)
  BY Ranges, SlotIs, InFlightIs DEF SegFront
<1>3. /\ cons' \in ConsState /\ cons'.pc = "front" /\ cons'.dst = <<>>
      /\ cons'.at = SegAt(Slot(0)) /\ cons'.seen = cons.seen
  <2>1. <<>> \in Seq(Byte)  OBVIOUS
  <2> HIDE DEF SegAt, Slot, Byte
  <2> QED BY <1>2, <2>1 DEF SegFront, Types, ConsState
<1>4. Types'  BY <1>1, <1>3 DEF Types
<1>5. Views'  BY <1>1, <1>2, <1>3 DEF Views
<1>6. Streaming'
  <2>1. prod'.pc # "put" /\ prod'.promise = prod.promise  BY <1>1, <1>2 DEF Views
  <2>2. cons'.pc \notin {"read", "peek"}  BY <1>3
  <2>3. UNCHANGED <<laid, stream>>  BY DEF SegFront
  <2> QED BY <1>3, <2>1, <2>2, <2>3, StreamingKept
<1>7. InFlight' = InFlight  BY <1>1 DEF InFlight
<1>8. InFlight > 0
  <2>1. /\ claimed # released /\ claimed \in 0 .. Modulus - 1 /\ released \in 0 .. Modulus - 1
        /\ Modulus \in Nat \ {0}
    BY Ranges DEF SegFront
  <2>2. InFlight = IF claimed >= released THEN claimed - released
                   ELSE claimed - released + Modulus
    BY InFlightIs
  <2> HIDE DEF Modulus, InFlight
  <2> QED BY <2>1, <2>2
<1>9. Segmented'
  <2>1. Len(cons'.dst) = 0 /\ Len(cons'.dst) <= segment_bytes /\ 1 .. Len(cons'.dst) = {}
    BY <1>2, <1>3
  <2> QED BY <1>1, <1>2, <1>3, <1>7, <1>8, <2>1 DEF Segmented, SegAt, Wrap
<1>10. Pinned'  BY PinnedKept DEF SegFront
<1> QED BY <1>4, <1>5, <1>6, <1>9, <1>10

LEMMA SegReadInv == ASSUME RingInv, SegRead PROVE RingInv'
<1> USE DEF RingInv
<1> DEFINE byte == buf[cons.at + Len(cons.dst)]
<1>1. UNCHANGED <<capacity, segment_count, segment_bytes, use, head, tail, claimed, released,
                  prod, buf, next>>
  BY DEF SegRead, laid, stream, segs
<1>2. /\ use = "segments" /\ cons.pc = "front" /\ cons \in ConsState /\ cons.dst \in Seq(Byte)
      /\ Len(cons.dst) \in Nat /\ Len(cons.dst) < segment_bytes /\ segment_bytes \in Nat
  BY Ranges DEF SegRead, Views, Types, ConsState
<1>3. cons.at = SegAt(Slot(0))  BY <1>2, InFlightIs DEF Segmented
<1>4. byte \in Byte
  <2>1. Len(cons.dst) \in 0 .. segment_bytes - 1  BY <1>2
  <2>2. SegAt(Slot(0)) + Len(cons.dst) \in DOMAIN buf  BY <2>1, SlotInside
  <2>3. buf \in [DOMAIN buf -> Byte]  BY DEF Types
  <2> HIDE DEF SegAt, Slot, Byte
  <2> QED BY <1>3, <2>2, <2>3
<1>5. cons' = [cons EXCEPT !.dst = Append(cons.dst, byte)]  BY DEF SegRead
<1> HIDE DEF byte
<1>6. /\ cons' \in ConsState /\ cons'.pc = "front" /\ cons'.dst = Append(cons.dst, byte)
      /\ cons'.at = cons.at /\ cons'.seen = cons.seen
  <2>1. Append(cons.dst, byte) \in Seq(Byte)  BY <1>2, <1>4
  <2> QED BY <1>2, <1>5, <2>1 DEF ConsState
<1>7. Types'  BY <1>1, <1>6 DEF Types
<1>8. Views'  BY <1>1, <1>2, <1>6 DEF Views
<1>9. Streaming'
  <2>1. prod'.pc # "put" /\ prod'.promise = prod.promise  BY <1>1, <1>2 DEF Views
  <2>2. cons'.pc \notin {"read", "peek"}  BY <1>6
  <2>3. UNCHANGED <<laid, stream>>  BY DEF SegRead
  <2> QED BY <1>6, <2>1, <2>2, <2>3, StreamingKept
<1>10. InFlight' = InFlight  BY <1>1 DEF InFlight
<1>11. Len(cons'.dst) = Len(cons.dst) + 1  BY <1>2, <1>6
<1>12. ASSUME NEW k \in 1 .. Len(cons'.dst) PROVE cons'.dst[k] = buf[cons.at + (k - 1)]
  <2>1. CASE k = Len(cons.dst) + 1
    <3>1. cons'.dst[k] = byte  BY <1>2, <1>6, <2>1
    <3>2. k - 1 = Len(cons.dst)  BY <1>2, <2>1
    <3> QED BY <3>1, <3>2 DEF byte
  <2>2. CASE k # Len(cons.dst) + 1
    <3>1. k \in 1 .. Len(cons.dst)  BY <1>2, <1>11, <2>2
    <3>2. cons'.dst[k] = cons.dst[k]  BY <1>2, <1>6, <3>1
    <3> QED BY <1>2, <3>1, <3>2 DEF Segmented
  <2> QED BY <2>1, <2>2
<1>13. Segmented'
  <2>1. Len(cons'.dst) <= segment_bytes  BY <1>2, <1>11
  <2>2. InFlight > 0 /\ cons.at = SegAt(Wrap(released, segment_count)) /\ InFlight <= segment_count
    BY <1>2 DEF Segmented
  <2>3. prod'.pc = "fill" =>
          /\ InFlight < segment_count /\ prod.done <= segment_bytes
          /\ \A k \in 0 .. prod.done - 1 :
               buf[SegAt(Wrap(claimed, segment_count)) + k] = (next + k) % Values
    BY <1>1 DEF Segmented
  <2> QED BY <1>1, <1>6, <1>10, <1>12, <2>1, <2>2, <2>3 DEF Segmented, SegAt, Wrap
<1>14. Pinned'  BY PinnedKept DEF SegRead
<1> QED BY <1>7, <1>8, <1>9, <1>13, <1>14

LEMMA SegReleaseInv == ASSUME RingInv, SegRelease PROVE RingInv'
<1> USE DEF RingInv
<1>1. InFlight' = InFlight - 1 /\ released' \in 0 .. Modulus - 1  BY SegReleaseCounts
<1>2. UNCHANGED <<capacity, segment_count, segment_bytes, use, head, tail, claimed, prod, buf,
                  next>>
  BY DEF SegRelease, laid, stream
<1>3. /\ use = "segments" /\ InFlight <= segment_count /\ InFlight \in Nat /\ segment_count \in Nat
      /\ (prod.pc = "fill" => InFlight < segment_count)
  BY InFlightIs, Ranges DEF SegRelease, Views, Segmented
<1>4. cons' \in ConsState /\ cons'.pc = "idle" /\ cons'.seen = cons.seen
  <2>1. <<>> \in Seq(Byte)  OBVIOUS
  <2> QED BY <2>1 DEF SegRelease, Types, ConsState
<1>5. Types'  BY <1>1, <1>2, <1>4 DEF Types
<1>6. Views'  BY <1>2, <1>3, <1>4 DEF Views
<1>7. Streaming'
  <2>1. prod'.pc # "put" /\ prod'.promise = prod.promise  BY <1>2, <1>3 DEF Views
  <2>2. cons'.pc \notin {"read", "peek"}  BY <1>4
  <2>3. UNCHANGED <<laid, stream>>  BY DEF SegRelease
  <2> QED BY <1>4, <2>1, <2>2, <2>3, StreamingKept
<1>8. Segmented'
  <2>1. InFlight' <= segment_count /\ (prod.pc = "fill" => InFlight' < segment_count)
    BY <1>1, <1>3
  <2> QED BY <1>2, <1>4, <2>1 DEF Segmented, SegAt, Wrap
<1>9. Pinned'  BY PinnedKept DEF SegRelease
<1> QED BY <1>5, <1>6, <1>7, <1>8, <1>9

----------------------------------------------------------------------------
(* The loculi's steps. *)

(* A step of a loculus leaves the other views alone. *)
LEMMA LoculiLeaveRest ==
  ASSUME RingInv, UNCHANGED <<laid, buf, stream, segs, prod, cons, next>>
  PROVE  Types' /\ Views' /\ Streaming' /\ Segmented'
<1> USE DEF RingInv
<1>1. UNCHANGED <<capacity, segment_count, segment_bytes, use, head, tail, claimed, released,
                  prod, cons, buf, next>>
  BY DEF laid, stream, segs
<1>2. Types'  BY <1>1 DEF Types
<1>3. Views'  BY <1>1 DEF Views
<1>4. Used' = Used /\ Free' = Free /\ InFlight' = InFlight  BY <1>1 DEF Used, Free, InFlight
<1>5. Streaming'  BY <1>1, <1>4 DEF Streaming, Ahead, Past
<1>6. Segmented'  BY <1>1, <1>4 DEF Segmented, SegAt, Wrap
<1> QED BY <1>2, <1>3, <1>5, <1>6

(* A context that has nothing granted is pinned by nothing, whatever its    *)
(* step leaves it with, while the others keep their loculi.                *)
LEMMA UngrantedInv ==
  ASSUME RingInv, NEW h \in Holders, NEW to \in HolderState, to.pc \notin Granted,
         holder' = [holder EXCEPT ![h] = to],
         UNCHANGED <<laid, buf, stream, segs, prod, cons, next>>,
         gratis' = gratis, pinned' \subseteq Indices, keepout' = keepout,
         \A g \in Holders \ {h} : holder[g].pc \in Granted => holder[g].index \in pinned'
  PROVE  RingInv'
<1>1. /\ gratis = Indices /\ keepout \in [Indices -> Record]
      /\ holder \in [Holders -> HolderState]
      /\ \A g \in Holders : HolderPinned(g) /\ \A f \in Holders \ {g} : HoldersApart(g, f)
  BY DEF RingInv, Pinned
<1>2. holder'[h] = to /\ \A g \in Holders \ {h} : holder'[g] = holder[g]  BY <1>1
<1>3. holder' \in [Holders -> HolderState]  BY <1>1
<1>4. ASSUME NEW g \in Holders PROVE HolderPinned(g)'
  <2>1. CASE g = h
    <3>1. holder'[g].pc \notin Granted /\ {"bytes", "read_offset", "held"} \subseteq Granted
      BY <1>2, <2>1 DEF Granted
    <3> QED BY <3>1 DEF HolderPinned
  <2>2. CASE g # h  BY <1>1, <1>2, <2>2 DEF HolderPinned
  <2> QED BY <2>1, <2>2
<1>5. ASSUME NEW g \in Holders, NEW f \in Holders \ {g} PROVE HoldersApart(g, f)'
  BY <1>1, <1>2 DEF HoldersApart
<1>6. Pinned'  BY <1>1, <1>3, <1>4, <1>5 DEF Pinned
<1> QED BY <1>6, LoculiLeaveRest DEF RingInv

Idle == [pc |-> "idle", mask |-> {}, index |-> 0]

LEMMA IdleState == Idle \in HolderState /\ Idle.pc \notin Granted /\ 0 \in 0 .. Loculi
<1>1. 0 \in 0 .. Loculi  BY Constants
<1> QED BY <1>1 DEF Idle, HolderState, Granted

LEMMA LoculusNamedInv ==
  ASSUME RingInv, NEW h \in Holders, LoculusNamed(h) PROVE RingInv'
<1>1. PICK i \in 0 .. Loculi : LoculusStep(h, "idle", [pc |-> "hold", mask |-> {}, index |-> i])
  BY DEF LoculusNamed
<1> DEFINE to == [pc |-> "hold", mask |-> {}, index |-> i]
<1>2. to \in HolderState /\ to.pc \notin Granted  BY DEF HolderState, Granted
<1>3. holder' = [holder EXCEPT ![h] = to]  BY <1>1 DEF LoculusStep
<1> HIDE DEF to
<1>4. UNCHANGED <<laid, buf, stream, segs, prod, cons, next>>  BY <1>1 DEF LoculusStep
<1>5. gratis' = gratis /\ pinned' = pinned /\ keepout' = keepout  BY DEF LoculusNamed
<1>6. pinned \subseteq Indices /\ \A g \in Holders : HolderPinned(g)  BY DEF RingInv, Pinned
<1>7. /\ pinned' \subseteq Indices
      /\ \A g \in Holders \ {h} : holder[g].pc \in Granted => holder[g].index \in pinned'
  BY <1>5, <1>6 DEF HolderPinned
<1> QED BY <1>2, <1>3, <1>4, <1>5, <1>7, UngrantedInv

LEMMA LoculusGratisInv ==
  ASSUME RingInv, NEW h \in Holders, LoculusGratis(h) PROVE RingInv'
<1> DEFINE to == [pc |-> "ready", mask |-> gratis, index |-> 0]
<1>1. gratis = Indices /\ pinned \subseteq Indices /\ \A g \in Holders : HolderPinned(g)
  BY DEF RingInv, Pinned
<1>2. to \in HolderState /\ to.pc \notin Granted
  BY <1>1, IdleState DEF HolderState, Granted
<1>3. holder' = [holder EXCEPT ![h] = to]  BY DEF LoculusGratis, LoculusStep
<1> HIDE DEF to
<1>4. UNCHANGED <<laid, buf, stream, segs, prod, cons, next>>
  BY DEF LoculusGratis, LoculusStep
<1>5. gratis' = gratis /\ pinned' = pinned /\ keepout' = keepout  BY DEF LoculusGratis
<1>6. /\ pinned' \subseteq Indices
      /\ \A g \in Holders \ {h} : holder[g].pc \in Granted => holder[g].index \in pinned'
  BY <1>1, <1>5 DEF HolderPinned
<1> QED BY <1>2, <1>3, <1>4, <1>5, <1>6, UngrantedInv

LEMMA LoculusReadyInv ==
  ASSUME RingInv, NEW h \in Holders, LoculusReady(h) PROVE RingInv'
<1> DEFINE to == [pc |-> "next", index |-> 0,
                  mask |-> (holder[h].mask \ pinned) \cap (0 .. Loculi - 1)]
<1>1. pinned \subseteq Indices /\ \A g \in Holders : HolderPinned(g)
  BY DEF RingInv, Pinned
<1>2. to \in HolderState /\ to.pc \notin Granted
  BY IdleState DEF HolderState, Granted, Indices
<1>3. holder' = [holder EXCEPT ![h] = to]  BY DEF LoculusReady, LoculusStep
<1> HIDE DEF to
<1>4. UNCHANGED <<laid, buf, stream, segs, prod, cons, next>>
  BY DEF LoculusReady, LoculusStep
<1>5. gratis' = gratis /\ pinned' = pinned /\ keepout' = keepout  BY DEF LoculusReady
<1>6. /\ pinned' \subseteq Indices
      /\ \A g \in Holders \ {h} : holder[g].pc \in Granted => holder[g].index \in pinned'
  BY <1>1, <1>5 DEF HolderPinned
<1> QED BY <1>2, <1>3, <1>4, <1>5, <1>6, UngrantedInv

(* A set bit has a lowest one. *)
LEMMA LowestBit ==
  ASSUME NEW mask, mask \subseteq Indices, mask # {}
  PROVE  (CHOOSE i \in mask : \A j \in mask : i <= j) \in mask
<1>1. Indices \subseteq Nat  BY Constants DEF Indices
<1>2. PICK x \in mask : \A y \in mask : ~ (<<y, x>> \in OpToRel(<, Nat))
  BY <1>1, WFMin, NatLessThanWellFounded, Zenon
<1>3. \A y \in mask : ~ (y < x)  BY <1>1, <1>2 DEF OpToRel
<1>4. \A y \in mask : x <= y  BY <1>1, <1>3
<1> QED BY <1>4

LEMMA LoculusNextInv ==
  ASSUME RingInv, NEW h \in Holders, LoculusNext(h) PROVE RingInv'
<1> DEFINE mask == holder[h].mask
           lowest == CHOOSE i \in mask : \A j \in mask : i <= j
           to == IF mask = {} THEN Idle ELSE [pc |-> "hold", mask |-> {}, index |-> lowest]
<1>1. pinned \subseteq Indices /\ \A g \in Holders : HolderPinned(g)
      /\ holder \in [Holders -> HolderState]
  BY DEF RingInv, Pinned
<1>2. to \in HolderState /\ to.pc \notin Granted
  <2>1. CASE mask = {}  BY <2>1, IdleState
  <2>2. CASE mask # {}
    <3>1. mask \subseteq Indices  BY <1>1 DEF HolderState
    <3>2. lowest \in mask
      <4> HIDE DEF mask
      <4> QED BY <2>2, <3>1, LowestBit
    <3>3. lowest \in 0 .. Loculi  BY <3>1, <3>2, Constants DEF Indices
    <3>4. to = [pc |-> "hold", mask |-> {}, index |-> lowest]  BY <2>2
    <3> HIDE DEF to, lowest, mask
    <3> QED BY <3>3, <3>4 DEF HolderState, Granted
  <2> QED BY <2>1, <2>2
<1>3. holder' = [holder EXCEPT ![h] = to]  BY DEF LoculusNext, LoculusStep, Idle
<1> HIDE DEF to
<1>4. UNCHANGED <<laid, buf, stream, segs, prod, cons, next>>
  BY DEF LoculusNext, LoculusStep
<1>5. gratis' = gratis /\ pinned' = pinned /\ keepout' = keepout  BY DEF LoculusNext
<1>6. /\ pinned' \subseteq Indices
      /\ \A g \in Holders \ {h} : holder[g].pc \in Granted => holder[g].index \in pinned'
  BY <1>1, <1>5 DEF HolderPinned
<1> QED BY <1>2, <1>3, <1>4, <1>5, <1>6, UngrantedInv

(* The bit a hold finds clear is its own: nobody else is granted the index. *)
LEMMA LoculusHoldInv ==
  ASSUME RingInv, NEW h \in Holders, LoculusHold(h) PROVE RingInv'
<1> DEFINE i == holder[h].index
<1>1. /\ gratis = Indices /\ pinned \subseteq Indices /\ keepout \in [Indices -> Record]
      /\ holder \in [Holders -> HolderState]
      /\ \A g \in Holders : HolderPinned(g) /\ \A f \in Holders \ {g} : HoldersApart(g, f)
  BY DEF RingInv, Pinned
<1>2. UNCHANGED <<laid, buf, stream, segs, prod, cons, next>>
  BY DEF LoculusHold, LoculusStep
<1>3. gratis' = gratis /\ keepout' = keepout /\ pinned' = pinned \cup ({i} \cap Indices)
  BY DEF LoculusHold, Indices
<1>4. pinned' \subseteq Indices
      /\ \A g \in Holders : holder[g].pc \in Granted => holder[g].index \in pinned'
  BY <1>1, <1>3 DEF HolderPinned
<1>5. CASE i >= Loculi \/ i \in pinned
  <2>1. holder' = [holder EXCEPT ![h] = Idle]  BY <1>5 DEF LoculusHold, LoculusStep, Idle
  <2> QED BY <1>2, <1>3, <1>4, <2>1, IdleState, UngrantedInv
<1>6. CASE ~(i >= Loculi \/ i \in pinned)
  <2> DEFINE to == [pc |-> "buf", mask |-> {}, index |-> i]
  <2>1. holder' = [holder EXCEPT ![h] = to]  BY <1>6 DEF LoculusHold, LoculusStep
  <2>2. i \in 0 .. Loculi /\ i \in Indices
    <3>1. i \in 0 .. Loculi  BY <1>1 DEF HolderState
    <3> QED BY <1>6, <3>1, Constants DEF Indices
  <2>3. to \in HolderState /\ to.pc = "buf" /\ to.index = i  BY <2>2 DEF HolderState, Granted
  <2> HIDE DEF to
  <2>4. holder' \in [Holders -> HolderState]  BY <1>1, <2>1, <2>3
  <2>5. holder'[h] = to /\ \A g \in Holders \ {h} : holder'[g] = holder[g]  BY <1>1, <2>1
  <2>6. i \in pinned'  BY <1>3, <2>2
  <2>7. ASSUME NEW g \in Holders PROVE HolderPinned(g)'
    <3>1. CASE g = h  BY <2>3, <2>5, <2>6, <3>1 DEF HolderPinned
    <3>2. CASE g # h  BY <1>1, <1>3, <1>4, <2>5, <3>2 DEF HolderPinned
    <3> QED BY <3>1, <3>2
  <2>8. \A g \in Holders : holder[g].pc \in Granted => holder[g].index # i
    BY <1>1, <1>6 DEF HolderPinned
  <2>9. ASSUME NEW g \in Holders, NEW f \in Holders \ {g} PROVE HoldersApart(g, f)'
    <3>1. HoldersApart(g, f)  BY <1>1
    <3> QED BY <2>3, <2>5, <2>8, <3>1 DEF HoldersApart
  <2>10. Pinned'  BY <1>1, <1>3, <1>4, <2>4, <2>7, <2>9 DEF Pinned
  <2> QED BY <1>2, <2>10, LoculiLeaveRest DEF RingInv
<1> QED BY <1>5, <1>6

(* A store into a granted loculus's record is into its holder's own. *)
LEMMA StoredInv ==
  ASSUME RingInv, NEW h \in Holders, holder[h].pc \in Granted, NEW to \in Granted,
         holder' = [holder EXCEPT ![h] = [holder[h] EXCEPT !.pc = to]],
         NEW record \in Record, keepout' = [keepout EXCEPT ![holder[h].index] = record],
         to \in {"bytes", "read_offset", "held"} => record.buf = h,
         to \in {"read_offset", "held"} => record.bytes = h,
         UNCHANGED <<laid, buf, stream, segs, prod, cons, next, gratis, pinned>>
  PROVE  RingInv'
<1> DEFINE i == holder[h].index
<1>1. /\ gratis = Indices /\ pinned \subseteq Indices /\ keepout \in [Indices -> Record]
      /\ holder \in [Holders -> HolderState]
      /\ \A g \in Holders : HolderPinned(g) /\ \A f \in Holders \ {g} : HoldersApart(g, f)
  BY DEF RingInv, Pinned
<1>2. i \in pinned /\ i \in Indices  BY <1>1 DEF HolderPinned
<1>3. /\ holder' \in [Holders -> HolderState]
      /\ holder'[h].pc = to /\ holder'[h].index = i
      /\ \A g \in Holders \ {h} : holder'[g] = holder[g]
  BY <1>1 DEF HolderState
<1>4. /\ keepout' \in [Indices -> Record] /\ keepout'[i] = record
      /\ \A j \in Indices \ {i} : keepout'[j] = keepout[j]
  BY <1>1, <1>2
<1>5. ASSUME NEW g \in Holders PROVE HolderPinned(g)'
  <2>1. CASE g = h  BY <1>2, <1>3, <1>4, <2>1 DEF HolderPinned
  <2>2. CASE g # h
    <3>1. holder'[g] = holder[g] /\ HolderPinned(g) /\ HoldersApart(g, h)  BY <1>1, <1>3, <2>2
    <3>2. holder[g].pc \in Granted => keepout'[holder[g].index] = keepout[holder[g].index]
      BY <1>1, <1>4, <3>1 DEF HolderPinned, HoldersApart
    <3>3. {"bytes", "read_offset", "held"} \subseteq Granted  BY DEF Granted
    <3>4. CASE holder[g].pc \in Granted
      <4>1. keepout'[holder'[g].index] = keepout[holder[g].index] /\ pinned' = pinned
        BY <3>1, <3>2, <3>4
      <4> QED BY <3>1, <4>1 DEF HolderPinned
    <3>5. CASE holder[g].pc \notin Granted  BY <3>1, <3>3, <3>5 DEF HolderPinned
    <3> QED BY <3>4, <3>5
  <2> QED BY <2>1, <2>2
<1>6. ASSUME NEW g \in Holders, NEW f \in Holders \ {g} PROVE HoldersApart(g, f)'
  <2>1. HoldersApart(g, f)  BY <1>1
  <2> QED BY <1>3, <2>1 DEF HoldersApart
<1>7. Pinned'  BY <1>1, <1>3, <1>4, <1>5, <1>6 DEF Pinned
<1> QED BY <1>7, LoculiLeaveRest DEF RingInv

LEMMA LoculusRecordInv ==
  ASSUME RingInv, NEW h \in Holders, LoculusRecord(h) PROVE RingInv'
<1> DEFINE i == holder[h].index
           old == keepout[i]
<1>1. /\ keepout \in [Indices -> Record] /\ pinned \subseteq Indices /\ HolderPinned(h)
  BY DEF RingInv, Pinned
<1>2. UNCHANGED <<laid, buf, stream, segs, prod, cons, next, gratis, pinned>>
  BY DEF LoculusRecord, Recorded, LoculusStep
<1>3. holder[h].pc \in Granted
  BY DEF LoculusRecord, Recorded, LoculusStep, Granted
<1>4. i \in Indices /\ old \in Record  BY <1>1, <1>3 DEF HolderPinned
<1>5. CASE Recorded(h, "buf", "bytes", "buf")
  <2> DEFINE record == [old EXCEPT !.buf = h]
  <2>1. record \in Record /\ record.buf = h  BY <1>4 DEF Record
  <2>2. keepout' = [keepout EXCEPT ![i] = record]  BY <1>5 DEF Recorded, Region
  <2>3. holder' = [holder EXCEPT ![h] = [holder[h] EXCEPT !.pc = "bytes"]]
    BY <1>5 DEF Recorded, LoculusStep
  <2>4. "bytes" \in Granted  BY DEF Granted
  <2> HIDE DEF record
  <2> QED BY <1>2, <1>3, <2>1, <2>2, <2>3, <2>4, StoredInv
<1>6. CASE Recorded(h, "bytes", "read_offset", "bytes")
  <2> DEFINE record == [old EXCEPT !.bytes = h]
  <2>1. holder[h].pc = "bytes"  BY <1>6 DEF Recorded, LoculusStep
  <2>2. old.buf = h  BY <1>1, <2>1 DEF HolderPinned
  <2>3. record \in Record /\ record.buf = h /\ record.bytes = h  BY <1>4, <2>2 DEF Record
  <2>4. keepout' = [keepout EXCEPT ![i] = record]  BY <1>6 DEF Recorded, Region
  <2>5. holder' = [holder EXCEPT ![h] = [holder[h] EXCEPT !.pc = "read_offset"]]
    BY <1>6 DEF Recorded, LoculusStep
  <2>6. "read_offset" \in Granted  BY DEF Granted
  <2> HIDE DEF record
  <2> QED BY <1>2, <1>3, <2>3, <2>4, <2>5, <2>6, StoredInv
<1>7. CASE Recorded(h, "read_offset", "held", "read_offset")
  <2> DEFINE record == [old EXCEPT !.read_offset = 0]
  <2>1. holder[h].pc = "read_offset"  BY <1>7 DEF Recorded, LoculusStep
  <2>2. old.buf = h /\ old.bytes = h  BY <1>1, <2>1 DEF HolderPinned
  <2>3. record \in Record /\ record.buf = h /\ record.bytes = h  BY <1>4, <2>2 DEF Record
  <2>4. keepout' = [keepout EXCEPT ![i] = record]  BY <1>7 DEF Recorded, Region
  <2>5. holder' = [holder EXCEPT ![h] = [holder[h] EXCEPT !.pc = "held"]]
    BY <1>7 DEF Recorded, LoculusStep
  <2>6. "held" \in Granted  BY DEF Granted
  <2> HIDE DEF record
  <2> QED BY <1>2, <1>3, <2>3, <2>4, <2>5, <2>6, StoredInv
<1> QED BY <1>5, <1>6, <1>7 DEF LoculusRecord

(* The bit a drop clears is nobody else's. *)
LEMMA LoculusDropInv ==
  ASSUME RingInv, NEW h \in Holders, LoculusDrop(h) PROVE RingInv'
<1>1. /\ pinned \subseteq Indices
      /\ \A g \in Holders : HolderPinned(g) /\ \A f \in Holders \ {g} : HoldersApart(g, f)
  BY DEF RingInv, Pinned
<1>2. holder' = [holder EXCEPT ![h] = Idle] /\ holder[h].pc \in Granted
  BY DEF LoculusDrop, LoculusStep, Idle, Granted
<1>3. UNCHANGED <<laid, buf, stream, segs, prod, cons, next>>
      /\ gratis' = gratis /\ keepout' = keepout
      /\ pinned' = pinned \ {holder[h].index}
  BY DEF LoculusDrop, LoculusStep
<1>4. \A g \in Holders \ {h} : holder[g].pc \in Granted => holder[g].index \in pinned'
  BY <1>1, <1>2, <1>3 DEF HolderPinned, HoldersApart
<1>5. pinned' \subseteq Indices  BY <1>1, <1>3
<1> QED BY <1>2, <1>3, <1>4, <1>5, IdleState, UngrantedInv

LEMMA LoculusMarkInv ==
  ASSUME RingInv, NEW h \in Holders, LoculusMark(h) PROVE RingInv'
<1>1. /\ gratis = Indices /\ pinned \subseteq Indices /\ HolderPinned(h)
      /\ holder \in [Holders -> HolderState]
  BY DEF RingInv, Pinned
<1>2. holder[h].pc \in Granted /\ holder' = holder
  BY <1>1 DEF LoculusMark, LoculusStep, Granted
<1>3. gratis' = gratis  BY <1>1, <1>2 DEF LoculusMark, HolderPinned
<1>4. Pinned'
  <2>1. UNCHANGED loculi  BY <1>2, <1>3 DEF LoculusMark, loculi
  <2> QED BY <2>1, PinnedKept DEF RingInv
<1>5. UNCHANGED <<laid, buf, stream, segs, prod, cons, next>>
  BY DEF LoculusMark, LoculusStep
<1> QED BY <1>4, <1>5, LoculiLeaveRest DEF RingInv

----------------------------------------------------------------------------
(* The invariant, and what it says. *)

LEMMA InitInv == ASSUME Init PROVE RingInv
<1>1. PICK a \in [capacity : 0 .. CapacityMost, segment_count : 0 .. CapacityMost,
                  segment_bytes : SegmentSizes] :
        /\ Accepts(a)
        /\ capacity = IF a.segment_bytes # 0 THEN 1 ELSE a.capacity
        /\ segment_count = a.segment_count
        /\ segment_bytes = IF a.segment_bytes # 0 THEN a.segment_bytes
                           ELSE a.capacity \div a.segment_count
        /\ buf = [i \in 0 .. a.capacity - 1 |-> Blank]
  BY DEF Init
<1>2. /\ a.capacity \in 1 .. CapacityMost /\ a.segment_count \in 1 .. CapacityMost
      /\ a.segment_bytes \in Nat /\ Pow2(a.segment_count)
      /\ a.segment_bytes <= a.capacity \div a.segment_count
  <2>1. /\ a.capacity \in 0 .. CapacityMost /\ a.segment_count \in 0 .. CapacityMost
        /\ a.segment_bytes \in Nat
    BY RingAssumption
  <2>2. /\ a.capacity # 0 /\ a.segment_count # 0 /\ Pow2(a.segment_count)
        /\ a.segment_bytes <= a.capacity \div a.segment_count
    BY <1>1 DEF Accepts
  <2> QED BY <2>1, <2>2, Constants
<1> DEFINE n == a.capacity
           m == a.segment_count
           each == n \div m
<1>3. n \in Nat \ {0} /\ m \in Nat \ {0} /\ CapacityMost \in Nat /\ n <= CapacityMost
      /\ m <= CapacityMost
  BY <1>2, Constants
<1>4. each \in Nat /\ m * each <= n
  <2> HIDE DEF n, m
  <2>1. each \in Nat /\ n = m * each + (n % m) /\ n % m \in Nat  BY <1>3
  <2>2. m * each \in Nat
    <3> HIDE DEF each
    <3> QED BY <1>3, <2>1
  <2> HIDE DEF each
  <2> QED BY <1>3, <2>1, <2>2
<1>5. segment_bytes \in Nat /\ segment_bytes <= each
  <2> HIDE DEF each
  <2> QED BY <1>1, <1>2, <1>4 DEF each
<1>6. segment_count = m /\ m * segment_bytes \in Nat /\ m * segment_bytes <= n
  <2>1. segment_count = m  BY <1>1
  <2> HIDE DEF n, m, each
  <2>2. PICK k \in Nat : each = segment_bytes + k  BY <1>4, <1>5
  <2>3. m * each = m * segment_bytes + m * k /\ m * k \in Nat /\ m * segment_bytes \in Nat
    BY <1>3, <1>5, <2>2
  <2> QED BY <1>3, <1>4, <2>1, <2>3
<1>7. capacity \in 1 .. CapacityMost /\ capacity <= n
  BY <1>1, <1>2, <1>3
<1>8. DOMAIN buf = 0 .. n - 1 /\ buf \in [DOMAIN buf -> Byte]
  BY <1>1, Constants DEF Byte, Blank
<1>9. 0 .. capacity - 1 \subseteq DOMAIN buf
  <2> HIDE DEF n
  <2> QED BY <1>3, <1>7, <1>8
<1>10. 0 .. segment_count * segment_bytes - 1 \subseteq DOMAIN buf
  <2> HIDE DEF n, m
  <2> QED BY <1>3, <1>6, <1>8
<1>11. prod \in ProdState /\ cons \in ConsState /\ next \in Nat
  <2>1. <<>> \in Seq(Byte)  OBVIOUS
  <2> QED BY <2>1 DEF Init, ProdState, ConsState
<1>12. Modulus \in Nat \ {0}  BY Constants
<1>13. Types
  <2>1. head = 0 /\ tail = 0 /\ claimed = 0 /\ released = 0 /\ use \in {"stream", "segments", "loculi"}
    BY DEF Init
  <2>2. segment_count \in 1 .. CapacityMost /\ Pow2(segment_count)  BY <1>1, <1>2
  <2>3. 0 \in 0 .. capacity - 1 /\ 0 \in 0 .. Modulus - 1  BY <1>7, <1>12
  <2> QED BY <1>5, <1>7, <1>8, <1>9, <1>10, <1>11, <2>1, <2>2, <2>3 DEF Types
<1>14. Views  BY DEF Init, Views
<1>15. Streaming
  <2>1. Used \in Nat /\ Free \in Nat  BY <1>13, Ranges, UsedIs
  <2> QED BY <2>1 DEF Init, Streaming
<1>16. Segmented
  <2>1. InFlight = 0
    <3>1. claimed = 0 /\ released = 0  BY DEF Init
    <3> QED BY <1>13, <3>1, InFlightIs
  <2>2. InFlight <= segment_count  BY <1>2, <1>6, <2>1
  <2> QED BY <2>2 DEF Init, Segmented
<1>17. Pinned
  <2>1. [h \in Holders |-> Idle] \in [Holders -> HolderState]  BY IdleState
  <2>2. holder = [h \in Holders |-> Idle]  BY DEF Init, Idle
  <2>3. \A h \in Holders : holder[h].pc \notin Granted  BY <2>2, IdleState
  <2>4. {"bytes", "read_offset", "held"} \subseteq Granted  BY DEF Granted
  <2>5. \A h \in Holders : HolderPinned(h) /\ \A g \in Holders \ {h} : HoldersApart(h, g)
    BY <2>3, <2>4 DEF HolderPinned, HoldersApart
  <2>6. keepout \in [Indices -> Record]  BY DEF Init, Indices, Record, NoSpan
  <2> QED BY <2>1, <2>2, <2>5, <2>6 DEF Init, Pinned, Indices
<1> QED BY <1>13, <1>14, <1>15, <1>16, <1>17 DEF RingInv

LEMMA StutterInv == ASSUME RingInv, UNCHANGED vars PROVE RingInv'
<1>1. UNCHANGED <<laid, buf, stream, segs, prod, cons, next>> /\ UNCHANGED loculi  BY DEF vars
<1>2. Pinned'  BY <1>1, PinnedKept DEF RingInv
<1> QED BY <1>1, <1>2, LoculiLeaveRest DEF RingInv

LEMMA NextInv == ASSUME RingInv, Next PROVE RingInv'
<1>1. \A bytes \in 0 .. CapacityMost : bytes \in Nat  BY Constants
<1>2. CASE Producer
  <2>1. CASE \E bytes \in 0 .. CapacityMost : Put(bytes)  BY <1>1, <2>1, PutInv
  <2> QED BY <1>2, <2>1, VacantInv, MoveInInv, PutDoneInv, SegNextInv, SegFillInv, SegPublishInv
       DEF Producer
<1>3. CASE Consumer
  <2>1. CASE \E bytes \in 0 .. CapacityMost : Read(bytes)  BY <1>1, <2>1, ReadInv
  <2>2. CASE \E bytes \in 0 .. CapacityMost : Consume(bytes)  BY <1>1, <2>2, ConsumeInv
  <2>3. CASE \E bytes, offset \in 0 .. CapacityMost : Peek(offset, bytes)
    BY <1>1, <2>3, PeekInv
  <2>4. CASE ReadByte  BY <2>4, ReadInv DEF ReadByte
  <2> QED BY <1>3, <2>1, <2>2, <2>3, <2>4, AvailableInv, MoveOutInv, ReadDoneInv, PeekDoneInv,
       SegFrontInv, SegReadInv, SegReleaseInv DEF Consumer
<1>4. ASSUME NEW h \in Holders, Holding(h) PROVE RingInv'
  BY <1>4, LoculusNamedInv, LoculusGratisInv, LoculusReadyInv, LoculusNextInv, LoculusHoldInv,
     LoculusRecordInv, LoculusDropInv, LoculusMarkInv DEF Holding
<1> QED BY <1>2, <1>3, <1>4 DEF Next

(* Whatever the sides and the contexts do, in any order: the snapshots, the *)
(* copies, the counters and the records stay as RingInv says.              *)
THEOREM Invariance == Spec => []RingInv
<1>1. RingInv /\ [Next]_vars => RingInv'  BY NextInv, StutterInv
<1> QED BY InitInv, <1>1, PTL DEF Spec

(* Every offset, counter, byte and index in its range; gratis loses no bit  *)
(* (mmgr_anular_mark only ever sets one).                                  *)
THEOREM TypeCorrect == Spec => []TypeOK
<1>1. RingInv => TypeOK
  <2> SUFFICES ASSUME RingInv PROVE TypeOK  OBVIOUS
  <2>1. Types /\ Pinned  BY DEF RingInv
  <2>2. /\ capacity \in 1 .. CapacityMost /\ head \in 0 .. capacity - 1
        /\ tail \in 0 .. capacity - 1 /\ claimed \in 0 .. 2 ^ Width - 1
        /\ released \in 0 .. 2 ^ Width - 1
    BY <2>1 DEF Types, Modulus
  <2>3. \A i \in DOMAIN buf : buf[i] \in 0 .. Blank  BY <2>1 DEF Types, Byte
  <2>4. /\ gratis = 0 .. Loculi - 1 /\ pinned \subseteq gratis
        /\ \A h \in Holders : holder[h].index \in 0 .. Loculi
    BY <2>1 DEF Pinned, HolderState, Indices
  <2> QED BY <2>2, <2>3, <2>4 DEF TypeOK
<1> QED BY <1>1, Invariance, PTL

(* What vacant promised the producer a put still finds free, what available *)
(* told the consumer is still there, whatever the other side did since.    *)
THEOREM SnapshotsStand == Spec => []SnapshotsHold
<1>1. RingInv => SnapshotsHold  BY DEF RingInv, Streaming, SnapshotsHold
<1> QED BY <1>1, Invariance, PTL

(* A loculus whose hold answered true keeps its holder's region, whole,     *)
(* until its holder drops it, for any number of contexts racing for any     *)
(* number of loculi.                                                       *)
THEOREM KeepoutStands == Spec => []KeepoutHolds
<1>1. RingInv => KeepoutHolds
  <2> SUFFICES ASSUME RingInv, NEW h \in Holders
               PROVE  /\ holder[h].pc = "held" => keepout[holder[h].index] = Region(h)
                      /\ \A g \in Holders \ {h} :
                           {holder[h].pc, holder[g].pc} \subseteq Granted
                             => holder[h].index # holder[g].index
    BY DEF KeepoutHolds, Granted
  <2>1. /\ pinned \subseteq Indices /\ keepout \in [Indices -> Record] /\ HolderPinned(h)
        /\ \A g \in Holders \ {h} : HoldersApart(h, g)
    BY DEF RingInv, Pinned
  <2>2. ASSUME holder[h].pc = "held" PROVE keepout[holder[h].index] = Region(h)
    <3> DEFINE record == keepout[holder[h].index]
    <3>1. holder[h].index \in Indices  BY <2>1, <2>2 DEF HolderPinned, Granted
    <3>2. record \in Record /\ record.buf = h /\ record.bytes = h
      BY <2>1, <2>2, <3>1 DEF HolderPinned
    <3> HIDE DEF record
    <3>3. record = [buf |-> h, bytes |-> h, read_offset |-> 0]  BY <3>2 DEF Record
    <3> QED BY <3>3 DEF record, Region
  <2>3. ASSUME NEW g \in Holders \ {h}, {holder[h].pc, holder[g].pc} \subseteq Granted
        PROVE  holder[h].index # holder[g].index
    BY <2>1, <2>3 DEF HoldersApart
  <2> QED BY <2>2, <2>3
<1> QED BY <1>1, Invariance, PTL

(* A put's bytes, or a fill's, are none of those a copy out reads, so the   *)
(* plain accesses of the two sides never meet.                             *)
THEOREM CopiesNeverMeet == Spec => []CopiesApart
<1>1. RingInv => CopiesApart
  <2> SUFFICES ASSUME RingInv, NEW x \in Writing, x \in Reading PROVE FALSE  BY DEF CopiesApart
  <2> USE DEF RingInv
  <2>1. CASE use = "stream"
    <3>1. prod.pc # "fill" /\ cons.pc # "front"  BY <2>1 DEF Views
    <3>2. prod.pc = "put" /\ cons.pc \in {"read", "peek"}  BY <3>1 DEF Writing, Reading
    <3>3. PICK k \in 0 .. prod.bytes - 1 : x = RunAt(head, prod.bytes, k)
      BY <3>2 DEF Writing
    <3>4. PICK j \in 0 .. cons.bytes - 1 : x = RunAt(cons.at, cons.bytes, j)
      BY <3>2 DEF Reading
    <3>5. /\ prod.bytes \in Nat /\ cons.bytes \in Nat /\ prod.bytes <= Free
          /\ cons.at \in 0 .. capacity - 1 /\ Past(tail, cons.at) + cons.bytes <= Used
      BY <3>2 DEF Streaming, Types, ProdState, ConsState
    <3>6. /\ capacity \in Nat \ {0} /\ head \in 0 .. capacity - 1 /\ tail \in 0 .. capacity - 1
          /\ Used \in 0 .. capacity - 1 /\ Free \in 0 .. capacity - 1
      BY Ranges, UsedIs
    <3>7. Past(tail, cons.at) \in 0 .. capacity - 1 /\ Ahead(tail, Past(tail, cons.at)) = cons.at
      BY <3>5, <3>6, AheadPast
    <3> DEFINE from == Past(tail, cons.at)
    <3> HIDE DEF from
    <3>8. prod.bytes \in 0 .. capacity /\ cons.bytes \in 0 .. capacity
      BY <3>5, <3>6, <3>7
    <3>9. x = Ahead(head, k) /\ x = Ahead(cons.at, j)
      BY <3>3, <3>4, <3>5, <3>6, <3>8, RunAtAhead
    <3>10. from \in 0 .. capacity - 1 /\ from + j < Used /\ j \in 0 .. capacity - 1
      BY <3>4, <3>5, <3>6, <3>7, <3>8 DEF from
    <3>11. Ahead(cons.at, j) = Ahead(tail, from + j)
      BY <3>6, <3>7, <3>10, AheadAhead DEF from
    <3>12. k \in Nat /\ k < Free /\ from + j \in Nat  BY <3>3, <3>5, <3>6, <3>10
    <3> QED BY <3>6, <3>9, <3>10, <3>11, <3>12, FreeNotUsed
  <2>2. CASE use = "segments"
    <3>1. prod.pc # "put" /\ cons.pc \notin {"read", "peek"}  BY <2>2 DEF Views
    <3>2. prod.pc = "fill" /\ cons.pc = "front"  BY <3>1 DEF Writing, Reading
    <3>3. PICK k \in 0 .. segment_bytes - 1 : x = SegAt(Slot(InFlight)) + k
      BY <3>2, InFlightIs DEF Writing
    <3>4. PICK j \in 0 .. segment_bytes - 1 : x = SegAt(Slot(0)) + j
      BY <3>2, InFlightIs DEF Reading, Segmented
    <3>5. 0 < InFlight /\ InFlight < segment_count /\ InFlight \in Nat /\ segment_count \in Nat
      BY <3>2, InFlightIs, Ranges DEF Segmented
    <3>6. InFlight - 0 < segment_count /\ 0 \in Nat  BY <3>5
    <3> QED BY <3>3, <3>4, <3>5, <3>6, SlotBytesApart
  <2>3. CASE use \notin {"stream", "segments"}
    BY <2>3 DEF Views, Types, ProdState, Writing
  <2> QED BY <2>1, <2>2, <2>3
<1> QED BY <1>1, Invariance, PTL

----------------------------------------------------------------------------
(* The queue. *)

(* A function of the first naturals is a sequence of that length. *)
LEMMA SequenceOver ==
  ASSUME NEW S, NEW n \in Nat, NEW s \in [1 .. n -> S]
  PROVE  s \in Seq(S) /\ Len(s) = n
<1>1. s \in Seq(S)  BY SeqDef
<1>2. DOMAIN s = 1 .. Len(s) /\ Len(s) \in Nat /\ DOMAIN s = 1 .. n  BY <1>1, LenProperties
<1>3. Len(s) = n  BY <1>2
<1> QED BY <1>1, <1>3

LEMMA Joined ==
  ASSUME NEW S, NEW s \in Seq(S), NEW t \in Seq(S), NEW u \in Seq(S),
         Len(u) = Len(s) + Len(t),
         \A k \in 1 .. Len(s) : u[k] = s[k], \A k \in 1 .. Len(t) : u[Len(s) + k] = t[k]
  PROVE  u = s \o t
<1>1. Len(s) \in Nat /\ Len(t) \in Nat  OBVIOUS
<1> DEFINE n == Len(s)
           m == Len(t)
<1>2. /\ s \o t \in Seq(S) /\ Len(s \o t) = n + m
      /\ \A i \in 1 .. n + m : (s \o t)[i] = IF i <= n THEN s[i] ELSE t[i - n]
  BY ConcatProperties
<1>3. ASSUME NEW i \in 1 .. Len(u) PROVE u[i] = (s \o t)[i]
  <2>1. i \in 1 .. n + m  OBVIOUS
  <2>2. CASE i <= n  BY <1>1, <1>2, <2>1, <2>2
  <2>3. CASE i > n
    <3>1. i - n \in 1 .. m /\ n + (i - n) = i  BY <1>1, <2>1, <2>3
    <3>2. u[n + (i - n)] = t[i - n]  BY <3>1
    <3> QED BY <1>1, <1>2, <2>1, <2>3, <3>1, <3>2
  <2> QED BY <1>1, <2>1, <2>2, <2>3
<1> QED BY <1>2, <1>3, SeqEqual

LEMMA CutFrom ==
  ASSUME NEW S, NEW s \in Seq(S), NEW from \in Nat, NEW m \in Nat, from + m <= Len(s),
         NEW u \in Seq(S), Len(u) = m, \A k \in 1 .. m : u[k] = s[from + k]
  PROVE  u = SubSeq(s, from + 1, from + m)
<1>1. Len(s) \in Nat  OBVIOUS
<1>2. from + 1 \in Int /\ from + m \in Int /\ \A i \in from + 1 .. from + m : s[i] \in S
  <2>1. from + 1 .. from + m \subseteq 1 .. Len(s)  BY <1>1
  <2> QED BY <2>1
<1> DEFINE t == SubSeq(s, from + 1, from + m)
<1>3. /\ t \in Seq(S)
      /\ Len(t) = IF from + 1 <= from + m THEN from + m - (from + 1) + 1 ELSE 0
      /\ \A i \in 1 .. from + m - (from + 1) + 1 : t[i] = s[from + 1 + i - 1]
  BY <1>2, SubSeqProperties
<1> HIDE DEF t
<1>4. Len(t) = m  BY <1>3
<1>5. ASSUME NEW i \in 1 .. Len(u) PROVE u[i] = t[i]
  <2>1. i \in 1 .. from + m - (from + 1) + 1 /\ from + 1 + i - 1 = from + i  OBVIOUS
  <2> QED BY <1>3, <2>1
<1>6. u = t  BY <1>3, <1>4, <1>5, SeqEqual
<1> QED BY <1>6 DEF t

(* A stream's queue: the used bytes from the tail on. *)
StreamHeld ==
  /\ Queue \in Seq(Byte) /\ Len(Queue) = Used /\ Used \in Nat
  /\ Free \in Nat /\ Room = Used + Free /\ Used < capacity
  /\ \A i \in 1 .. Used : Queue[i] = buf[Ahead(tail, i - 1)]

LEMMA StreamQueue == ASSUME RingInv, use # "segments" PROVE StreamHeld
<1> USE DEF RingInv
<1>1. /\ Used \in 0 .. capacity - 1 /\ Free = capacity - 1 - Used /\ capacity \in Nat \ {0}
      /\ tail \in 0 .. capacity - 1
  BY Ranges, UsedIs
<1>2. Queue = [k \in 1 .. Used |-> buf[Wrap(tail + k - 1, capacity)]]  BY DEF Queue, Streamed
<1>3. ASSUME NEW i \in 1 .. Used
      PROVE  Queue[i] = buf[Ahead(tail, i - 1)] /\ Queue[i] \in Byte
  <2>1. i - 1 \in 0 .. capacity /\ tail + i - 1 = tail + (i - 1)  BY <1>1
  <2>2. /\ Wrap(tail + (i - 1), capacity) = Ahead(tail, i - 1)
        /\ Ahead(tail, i - 1) \in 0 .. capacity - 1
    BY <1>1, <2>1, WrapAhead
  <2>3. Queue[i] = buf[Wrap(tail + i - 1, capacity)]  BY <1>2
  <2>4. buf[Ahead(tail, i - 1)] \in Byte  BY <2>2 DEF Types
  <2> QED BY <2>1, <2>2, <2>3, <2>4
<1>4. Queue \in [1 .. Used -> Byte]  BY <1>2, <1>3
<1>5. Used \in Nat  BY <1>1
<1>6. Queue \in Seq(Byte) /\ Len(Queue) = Used  BY <1>4, <1>5, SequenceOver
<1>7. Room = capacity - 1  BY DEF Room
<1>8. Free \in Nat /\ Room = Used + Free /\ Used < capacity  BY <1>1, <1>7
<1> QED BY <1>3, <1>5, <1>6, <1>8 DEF StreamHeld

LEMMA StreamQueueNext == (RingInv /\ use # "segments" => StreamHeld)'
<1>1. RingInv /\ use # "segments" => StreamHeld  BY StreamQueue
<1> QED BY <1>1, PTL

(* Segments in flight, byte after byte from the segment released next.      *)
SegmentsHeld ==
  /\ Queue \in Seq(Byte) /\ Len(Queue) = InFlight * segment_bytes
  /\ InFlight \in Nat /\ segment_bytes \in Nat /\ Room = segment_count * segment_bytes
  /\ \A j \in 0 .. InFlight - 1, k \in 0 .. segment_bytes - 1 :
       Queue[(j * segment_bytes + k) + 1] = buf[SegAt(Slot(j)) + k]

(* Every place in a row of blocks is a place in one of them. *)
LEMMA InBlock ==
  ASSUME NEW size \in Nat, NEW n \in Nat, NEW i \in 1 .. n * size
  PROVE  \E j \in 0 .. n - 1, k \in 0 .. size - 1 : i = (j * size + k) + 1
<1>1. size # 0  OBVIOUS
<1> DEFINE q == (i - 1) \div size
           k == (i - 1) % size
<1>2. q \in Int /\ k \in 0 .. size - 1 /\ i - 1 = size * q + k  BY <1>1
<1> HIDE DEF q, k
<1>3. n * size \in Nat /\ size * q = q * size  BY <1>2
<1>4. ~(q < 0)
  <2> SUFFICES ASSUME q < 0 PROVE FALSE  OBVIOUS
  <2>1. PICK m \in Nat : q = -1 - m  BY <1>2
  <2>2. size * q = -size - size * m /\ size * m \in Nat  BY <2>1
  <2> QED BY <1>2, <1>3, <2>2
<1>5. ~(q >= n)
  <2> SUFFICES ASSUME q >= n PROVE FALSE  OBVIOUS
  <2>1. PICK m \in Nat : q = n + m  BY <1>2
  <2>2. size * q = n * size + size * m /\ size * m \in Nat  BY <2>1
  <2> QED BY <1>2, <1>3, <2>2
<1>6. q \in 0 .. n - 1 /\ i = (q * size + k) + 1  BY <1>2, <1>3, <1>4, <1>5
<1> QED BY <1>2, <1>6

LEMMA SegmentQueue == ASSUME RingInv, use = "segments" PROVE SegmentsHeld
<1> USE DEF RingInv
<1> DEFINE size == segment_bytes
<1>1. InFlight \in Nat /\ size \in Nat  BY Ranges, InFlightIs
<1>2. InFlight * size \in Nat  BY <1>1
<1>3. Queue = [k \in 1 .. InFlight * size |->
                 buf[SegAt(Slot((k - 1) \div size)) + ((k - 1) % size)]]
  BY DEF Queue, Filled, Slot
<1>4. ASSUME NEW j \in 0 .. InFlight - 1, NEW k \in 0 .. size - 1
      PROVE  Queue[(j * size + k) + 1] = buf[SegAt(Slot(j)) + k]
  <2>1. j * size + k \in 0 .. InFlight * size - 1  BY <1>1, BlockInside
  <2>2. size \in Nat \ {0} /\ j \in Int /\ j * size = size * j  BY <1>1
  <2>3. (j * size + k) % size = k /\ (j * size + k) \div size = j
    BY <2>2, DivModUnique
  <2> DEFINE i == j * size + k
  <2>4. i \in Int /\ i + 1 \in 1 .. InFlight * size /\ (i + 1) - 1 = i
    <3> HIDE DEF i
    <3> QED BY <1>2, <2>1 DEF i
  <2>5. Queue[i + 1] = buf[SegAt(Slot(((i + 1) - 1) \div size)) + (((i + 1) - 1) % size)]
    <3> HIDE DEF i
    <3> QED BY <1>3, <2>4
  <2> QED BY <2>3, <2>4, <2>5
<1>5. ASSUME NEW i \in 1 .. InFlight * size PROVE Queue[i] \in Byte
  <2>1. PICK j \in 0 .. InFlight - 1, k \in 0 .. size - 1 : i = (j * size + k) + 1
    BY <1>1, InBlock
  <2>2. j \in Nat  BY <1>1
  <2>3. SegAt(Slot(j)) + k \in DOMAIN buf  BY <2>2, SlotInside
  <2>4. buf \in [DOMAIN buf -> Byte]  BY DEF Types
  <2> QED BY <1>4, <2>1, <2>3, <2>4
<1>6. Queue \in [1 .. InFlight * size -> Byte]  BY <1>3, <1>5
<1>7. Queue \in Seq(Byte) /\ Len(Queue) = InFlight * size  BY <1>2, <1>6, SequenceOver
<1> QED BY <1>1, <1>4, <1>7 DEF Room, SegmentsHeld

LEMMA SegmentQueueNext == (RingInv /\ use = "segments" => SegmentsHeld)'
<1>1. RingInv /\ use = "segments" => SegmentsHeld  BY SegmentQueue
<1> QED BY <1>1, PTL

(* The counters, the offsets and the bytes are all a queue is made of. *)
LEMMA QueueKept ==
  ASSUME UNCHANGED <<laid, buf, stream, segs, next, handed>>
  PROVE  UNCHANGED <<Room, Queue, next, handed>>
<1>1. UNCHANGED <<capacity, segment_count, segment_bytes, use, head, tail, claimed, released,
                  buf, next, handed>>
  BY DEF laid, stream, segs
<1>2. Used' = Used /\ InFlight' = InFlight  BY <1>1 DEF Used, InFlight
<1>3. Streamed' = Streamed  BY <1>1, <1>2 DEF Streamed, Wrap
<1>4. Filled' = Filled  BY <1>1, <1>2 DEF Filled, Wrap, SegAt
<1> QED BY <1>1, <1>3, <1>4 DEF Room, Queue

(* A byte on its way in is not in the queue yet. *)
LEMMA MoveInQueue ==
  ASSUME RingInv, RingInv', MoveIn
  PROVE  UNCHANGED <<Room, Queue, next, handed>>
<1>1. UNCHANGED <<capacity, segment_count, segment_bytes, use, head, tail, next, handed>>
  BY DEF MoveIn, laid, stream
<1>2. use # "segments"  BY DEF RingInv, MoveIn, Views
<1>3. Used' = Used  BY <1>1 DEF Used
<1>4. \A j \in 0 .. Used - 1 : buf'[Ahead(tail, j)] = buf[Ahead(tail, j)]  BY MoveInWrites
<1>5. /\ Queue \in Seq(Byte) /\ Len(Queue) = Used /\ Used \in Nat
      /\ \A i \in 1 .. Used : Queue[i] = buf[Ahead(tail, i - 1)]
  BY <1>2, StreamQueue DEF StreamHeld
<1>6. /\ Queue' \in Seq(Byte) /\ Len(Queue') = Used
      /\ \A i \in 1 .. Used : Queue'[i] = buf'[Ahead(tail, i - 1)]
  BY <1>1, <1>2, <1>3, StreamQueueNext DEF StreamHeld, Byte, Ahead
<1>7. ASSUME NEW i \in 1 .. Used PROVE Queue'[i] = Queue[i]
  <2>1. i - 1 \in 0 .. Used - 1  BY <1>5
  <2> QED BY <1>4, <1>5, <1>6, <2>1
<1>8. Queue' = Queue  BY <1>5, <1>6, <1>7, SeqEqual
<1>9. Room' = Room  BY <1>1 DEF Room
<1> QED BY <1>1, <1>8, <1>9

(* A finished put is one Put of the queue, in the producer's order. *)
LEMMA PutDoneQueue ==
  ASSUME RingInv, RingInv', PutDone
  PROVE  Fifo!Next
<1> DEFINE n == prod.bytes
           made == [k \in 1 .. n |-> (next + k - 1) % Values]
<1>1. /\ use = "stream" /\ n \in Nat /\ n <= Free /\ prod.done = n
      /\ head' = Ahead(head, n) /\ tail' = tail /\ capacity' = capacity /\ Used' = Used + n
  BY PutDoneMoves
<1>2. UNCHANGED <<use, segment_count, segment_bytes, buf, handed>> /\ next' = (next + n) % Values
  BY DEF PutDone, laid
<1>3. /\ Queue \in Seq(Byte) /\ Len(Queue) = Used /\ Used \in Nat
      /\ Free \in Nat /\ Room = Used + Free
      /\ \A i \in 1 .. Used : Queue[i] = buf[Ahead(tail, i - 1)]
  BY <1>1, StreamQueue DEF StreamHeld
<1>4. Queue' \in Seq(Byte) /\ Len(Queue') = Used + n
  BY <1>1, <1>2, StreamQueueNext DEF StreamHeld, Byte
<1>5. \A i \in 1 .. Used' : Queue'[i] = buf[Ahead(tail, i - 1)]
  BY <1>1, <1>2, StreamQueueNext DEF StreamHeld, Ahead
<1>6. /\ Used \in 0 .. capacity - 1 /\ Free = capacity - 1 - Used /\ capacity \in Nat \ {0}
      /\ head \in 0 .. capacity - 1 /\ tail \in 0 .. capacity - 1 /\ Used = Past(tail, head)
  BY Ranges, UsedIs DEF RingInv
<1>7. head = Ahead(tail, Used)  BY <1>6, AheadPast
<1>8. \A k \in 0 .. n - 1 : buf[Ahead(head, k)] = (next + k) % Values
  BY <1>1 DEF PutDone, RingInv, Streaming
<1>9. next \in Nat /\ Values \in Nat \ {0}  BY Constants DEF RingInv, Types
<1> HIDE DEF n
<1>10. made \in Seq(Byte) /\ Len(made) = n
  <2>1. \A k \in 1 .. n : (next + k - 1) % Values \in 0 .. Values  BY <1>1, <1>9
  <2>2. made \in [1 .. n -> Byte]  BY <2>1 DEF Byte, Blank
  <2> HIDE DEF made
  <2> QED BY <1>1, <2>2, SequenceOver
<1>11. ASSUME NEW k \in 1 .. Used PROVE Queue'[k] = Queue[k]
  <2>1. k \in 1 .. Used'  BY <1>1, <1>3
  <2> QED BY <1>3, <1>5, <2>1
<1>12. ASSUME NEW k \in 1 .. n PROVE Queue'[Used + k] = made[k]
  <2>1. k - 1 \in 0 .. n - 1 /\ Used + k \in 1 .. Used' /\ (Used + k) - 1 = Used + (k - 1)
    BY <1>1, <1>3
  <2>2. Queue'[Used + k] = buf[Ahead(tail, Used + (k - 1))]  BY <1>5, <2>1
  <2>3. Ahead(tail, Used + (k - 1)) = Ahead(head, k - 1)
    <3>1. k - 1 \in 0 .. capacity - 1 /\ Used + (k - 1) < capacity  BY <1>1, <1>6, <2>1
    <3> QED BY <1>6, <1>7, <3>1, AheadAhead
  <2>4. buf[Ahead(head, k - 1)] = (next + (k - 1)) % Values  BY <1>8, <2>1 DEF n
  <2>5. next + (k - 1) = next + k - 1  BY <1>9
  <2> QED BY <2>2, <2>3, <2>4, <2>5
<1>13. Queue' = Queue \o made
  <2> HIDE DEF made
  <2>1. \A k \in 1 .. Len(Queue) : Queue'[k] = Queue[k]  BY <1>3, <1>11
  <2>2. \A k \in 1 .. Len(made) : Queue'[Len(Queue) + k] = made[k]  BY <1>3, <1>10, <1>12
  <2>3. Len(Queue') = Len(Queue) + Len(made)  BY <1>3, <1>4, <1>10
  <2> QED BY <1>3, <1>4, <1>10, <2>1, <2>2, <2>3, Joined
<1>14. Room' = Room  BY <1>1, <1>2 DEF Room
<1>15. n \in 0 .. Room /\ Len(Queue) + n <= Room  BY <1>1, <1>3
<1>16. next' = (next + n) % Values  BY <1>2 DEF n
<1>17. Fifo!Put(n)
  BY <1>2, <1>13, <1>14, <1>15, <1>16 DEF Fifo!Put, Fifo!Made
<1> QED BY <1>15, <1>17 DEF Fifo!Next

(* A tail moved on is a Drop of as many. *)
LEMMA TakenQueue ==
  ASSUME RingInv, RingInv', use = "stream", NEW n \in Nat, n <= Used, tail' = Ahead(tail, n),
         UNCHANGED <<laid, buf, head, next>>
  PROVE  Fifo!Drop(n) /\ n \in 0 .. Room
<1>1. UNCHANGED <<capacity, segment_count, segment_bytes, use, buf, head, next>>  BY DEF laid
<1>2. Used' = Used - n  BY <1>1, Ranges, TakeMeasures DEF RingInv
<1>3. /\ Queue \in Seq(Byte) /\ Len(Queue) = Used /\ Used \in Nat /\ Used < capacity
      /\ Free \in Nat /\ Room = Used + Free
      /\ \A i \in 1 .. Used : Queue[i] = buf[Ahead(tail, i - 1)]
  BY StreamQueue DEF StreamHeld
<1>4. Queue' \in Seq(Byte) /\ Len(Queue') = Used - n
  BY <1>1, <1>2, StreamQueueNext DEF StreamHeld, Byte
<1>5. \A i \in 1 .. Used' : Queue'[i] = buf[Ahead(tail', i - 1)]
  BY <1>1, StreamQueueNext DEF StreamHeld, Ahead
<1>6. capacity \in Nat \ {0} /\ tail \in 0 .. capacity - 1  BY Ranges DEF RingInv
<1>7. ASSUME NEW i \in 1 .. Used - n PROVE Queue'[i] = Queue[n + i]
  <2>1. i \in 1 .. Used' /\ n + i \in 1 .. Used /\ (n + i) - 1 = n + (i - 1)  BY <1>2, <1>3
  <2>2. n \in 0 .. capacity - 1 /\ i - 1 \in 0 .. capacity - 1 /\ n + (i - 1) < capacity
    BY <1>3, <1>6
  <2>3. Ahead(tail', i - 1) = Ahead(tail, n + (i - 1))  BY <1>6, <2>2, AheadAhead
  <2> QED BY <1>3, <1>5, <2>1, <2>3
<1>8. Queue' = SubSeq(Queue, n + 1, n + (Used - n))
  <2>1. Used - n \in Nat /\ n + (Used - n) <= Len(Queue)  BY <1>3
  <2> QED BY <1>3, <1>4, <1>7, <2>1, CutFrom
<1>9. n + (Used - n) = Len(Queue) /\ n <= Len(Queue) /\ n \in 0 .. Room  BY <1>3
<1>10. Room' = Room  BY <1>1 DEF Room
<1> QED BY <1>1, <1>8, <1>9, <1>10 DEF Fifo!Drop

(* A finished copy out is a stretch of the queue. *)
LEMMA CopiedOut ==
  ASSUME RingInv, cons.pc \in {"read", "peek"}, Len(cons.dst) = RunCarries(cons.bytes)
  PROVE  LET from == Past(tail, cons.at)
         IN  /\ from \in 0 .. Room /\ cons.bytes \in 0 .. Room /\ from + cons.bytes <= Len(Queue)
             /\ cons.dst = SubSeq(Queue, from + 1, from + cons.bytes)
<1> DEFINE from == Past(tail, cons.at)
<1>1. /\ use = "stream" /\ cons.at \in 0 .. capacity - 1 /\ from + cons.bytes <= Used
      /\ \A k \in 1 .. Len(cons.dst) : cons.dst[k] = buf[Ahead(cons.at, k - 1)]
      /\ cons.dst \in Seq(Byte) /\ cons.bytes \in Nat
  BY DEF RingInv, Views, Streaming, Types, ConsState
<1>2. capacity \in Nat \ {0} /\ tail \in 0 .. capacity - 1  BY Ranges DEF RingInv
<1>3. /\ Queue \in Seq(Byte) /\ Len(Queue) = Used /\ Used \in Nat /\ Used < capacity
      /\ Free \in Nat /\ Room = Used + Free
      /\ \A i \in 1 .. Used : Queue[i] = buf[Ahead(tail, i - 1)]
  BY <1>1, StreamQueue DEF StreamHeld
<1>4. from \in 0 .. capacity - 1 /\ cons.at = Ahead(tail, from)  BY <1>1, <1>2, AheadPast
<1> HIDE DEF from
<1>5. Len(cons.dst) = cons.bytes  BY <1>1, <1>2, <1>3, <1>4 DEF RunCarries
<1>6. ASSUME NEW k \in 1 .. cons.bytes PROVE cons.dst[k] = Queue[from + k]
  <2>1. /\ from + k \in 1 .. Used /\ (from + k) - 1 = from + (k - 1)
        /\ k - 1 \in 0 .. capacity - 1 /\ from + (k - 1) < capacity
    BY <1>1, <1>2, <1>3, <1>4
  <2>2. Ahead(cons.at, k - 1) = Ahead(tail, from + (k - 1))  BY <1>2, <1>4, <2>1, AheadAhead
  <2>3. cons.dst[k] = buf[Ahead(cons.at, k - 1)]  BY <1>1, <1>5
  <2> QED BY <1>3, <2>1, <2>2, <2>3
<1>7. from \in Nat /\ from + cons.bytes <= Len(Queue)  BY <1>1, <1>3, <1>4
<1>8. cons.dst = SubSeq(Queue, from + 1, from + cons.bytes)
  BY <1>1, <1>3, <1>5, <1>6, <1>7, CutFrom
<1>9. from \in 0 .. Room /\ cons.bytes \in 0 .. Room  BY <1>1, <1>3, <1>7
<1> QED BY <1>7, <1>8, <1>9 DEF from

LEMMA ReadDoneQueue ==
  ASSUME RingInv, RingInv', ReadDone
  PROVE  Fifo!Next
<1> DEFINE n == cons.bytes
<1>1. /\ use = "stream" /\ n \in Nat /\ n <= Used /\ cons.at = tail /\ tail' = Ahead(tail, n)
  BY ReadDoneMoves
<1>2. UNCHANGED <<laid, buf, head, next>> /\ handed' = cons.dst  BY DEF ReadDone
<1>3. Fifo!Drop(n) /\ n \in 0 .. Room
  <2> HIDE DEF n
  <2> QED BY <1>1, <1>2, TakenQueue
<1>4. Past(tail, cons.at) = 0
  <2>1. tail \in 0 .. capacity - 1 /\ capacity \in Nat  BY Ranges DEF RingInv
  <2> QED BY <1>1, <2>1 DEF Past
<1>5. cons.dst = SubSeq(Queue, Past(tail, cons.at) + 1, Past(tail, cons.at) + cons.bytes)
  BY CopiedOut DEF ReadDone
<1>6. 0 + 1 = 1 /\ 0 + cons.bytes = cons.bytes  BY <1>1
<1>7. handed' = SubSeq(Queue, 1, n)  BY <1>2, <1>4, <1>5, <1>6
<1>8. Fifo!Take(n)  BY <1>3, <1>7 DEF Fifo!Take
<1> QED BY <1>3, <1>8 DEF Fifo!Next

LEMMA PeekDoneQueue ==
  ASSUME RingInv, PeekDone
  PROVE  Fifo!Next
<1> DEFINE from == Past(tail, cons.at)
<1>1. /\ from \in 0 .. Room /\ cons.bytes \in 0 .. Room /\ from + cons.bytes <= Len(Queue)
      /\ cons.dst = SubSeq(Queue, from + 1, from + cons.bytes)
  BY CopiedOut DEF PeekDone
<1>2. handed' = cons.dst /\ next' = next  BY DEF PeekDone
<1>3. UNCHANGED <<capacity, segment_count, segment_bytes, use, head, tail, claimed, released, buf>>
  BY DEF PeekDone, laid, stream, segs
<1>4. Used' = Used /\ InFlight' = InFlight  BY <1>3 DEF Used, InFlight
<1>5. Queue' = Queue /\ Room' = Room
  BY <1>3, <1>4 DEF Queue, Room, Streamed, Filled, Wrap, SegAt
<1> HIDE DEF from
<1>6. Fifo!Look(from, cons.bytes)  BY <1>1, <1>2, <1>5 DEF Fifo!Look
<1> QED BY <1>1, <1>6 DEF Fifo!Next

LEMMA ConsumeQueue ==
  ASSUME RingInv, RingInv', NEW bytes \in Nat, Consume(bytes)
  PROVE  Fifo!Next
<1>1. cons.seen \in Nat /\ bytes <= cons.seen /\ cons.seen <= Used /\ use = "stream"
  BY DEF Consume, RingInv, Streaming, Types, ConsState
<1>2. Used \in 0 .. capacity - 1 /\ capacity \in Nat \ {0} /\ tail \in 0 .. capacity - 1
  BY Ranges, UsedIs DEF RingInv
<1>3. bytes \in 0 .. capacity /\ bytes <= Used  BY <1>1, <1>2
<1>4. tail' = Ahead(tail, bytes)  BY <1>2, <1>3, WrapAhead DEF Consume
<1>5. UNCHANGED <<laid, buf, head, next>> /\ handed' = handed  BY DEF Consume
<1>6. Fifo!Drop(bytes) /\ bytes \in 0 .. Room  BY <1>1, <1>3, <1>4, <1>5, TakenQueue
<1> QED BY <1>5, <1>6 DEF Fifo!Next

(* A byte filled is not in the queue yet. *)
LEMMA SegFillQueue ==
  ASSUME RingInv, RingInv', SegFill
  PROVE  UNCHANGED <<Room, Queue, next, handed>>
<1>1. UNCHANGED <<capacity, segment_count, segment_bytes, use, claimed, released, next, handed>>
  BY DEF SegFill, laid, segs
<1>2. /\ use = "segments"
      /\ \A j \in 0 .. InFlight - 1, k \in 0 .. segment_bytes - 1 :
           buf'[SegAt(Slot(j)) + k] = buf[SegAt(Slot(j)) + k]
  BY SegFillWrites
<1>3. InFlight' = InFlight  BY <1>1 DEF InFlight
<1>4. /\ Queue \in Seq(Byte) /\ Len(Queue) = InFlight * segment_bytes
      /\ InFlight \in Nat /\ segment_bytes \in Nat
      /\ \A j \in 0 .. InFlight - 1, k \in 0 .. segment_bytes - 1 :
           Queue[(j * segment_bytes + k) + 1] = buf[SegAt(Slot(j)) + k]
  BY <1>2, SegmentQueue DEF SegmentsHeld
<1>5. Queue' \in Seq(Byte) /\ Len(Queue') = InFlight * segment_bytes
  BY <1>1, <1>2, <1>3, SegmentQueueNext DEF SegmentsHeld, Byte
<1>6. \A j \in 0 .. InFlight - 1, k \in 0 .. segment_bytes - 1 :
        Queue'[(j * segment_bytes + k) + 1] = buf'[SegAt(Slot(j)) + k]
  BY <1>1, <1>2, <1>3, SegmentQueueNext DEF SegmentsHeld, SegAt, Slot, Wrap
<1>7. ASSUME NEW i \in 1 .. InFlight * segment_bytes PROVE Queue'[i] = Queue[i]
  <2>1. PICK j \in 0 .. InFlight - 1, k \in 0 .. segment_bytes - 1 : i = (j * segment_bytes + k) + 1
    BY <1>4, InBlock
  <2> QED BY <1>2, <1>4, <1>6, <2>1
<1>8. Queue' = Queue  BY <1>4, <1>5, <1>7, SeqEqual
<1>9. Room' = Room  BY <1>1 DEF Room
<1> QED BY <1>1, <1>8, <1>9

(* One block more of a row is so many places more. *)
LEMMA BlockMore ==
  ASSUME NEW size \in Nat, NEW n \in Nat
  PROVE  (n + 1) * size = n * size + size /\ n * size \in Nat
OBVIOUS

LEMMA BlocksFit ==
  ASSUME NEW size \in Nat, NEW n \in Nat, NEW m \in Nat, n <= m
  PROVE  n * size <= m * size /\ n * size \in Nat /\ m * size \in Nat
<1>1. PICK k \in Nat : m = n + k  OBVIOUS
<1>2. m * size = n * size + k * size /\ k * size \in Nat /\ n * size \in Nat  BY <1>1
<1> QED BY <1>2

(* A published segment is one Put of its bytes. *)
LEMMA SegPublishQueue ==
  ASSUME RingInv, RingInv', SegPublish
  PROVE  Fifo!Next
<1> DEFINE size == segment_bytes
           made == [k \in 1 .. size |-> (next + k - 1) % Values]
           base == InFlight * size
<1>1. UNCHANGED <<capacity, segment_count, segment_bytes, use, released, buf, handed>>
      /\ next' = (next + size) % Values
  BY DEF SegPublish, laid
<1>2. InFlight' = InFlight + 1  BY SegPublishCounts
<1>3. use = "segments" /\ InFlight < segment_count /\ prod.pc = "fill" /\ prod.done = size
  BY DEF SegPublish, RingInv, Views, Segmented
<1>4. /\ Queue \in Seq(Byte) /\ Len(Queue) = base
      /\ InFlight \in Nat /\ size \in Nat /\ Room = segment_count * size
      /\ \A j \in 0 .. InFlight - 1, k \in 0 .. size - 1 :
           Queue[(j * size + k) + 1] = buf[SegAt(Slot(j)) + k]
  BY <1>3, SegmentQueue DEF SegmentsHeld
<1>5. Queue' \in Seq(Byte) /\ Len(Queue') = (InFlight + 1) * size
  BY <1>1, <1>2, <1>3, SegmentQueueNext DEF SegmentsHeld, Byte
<1>6. \A j \in 0 .. InFlight' - 1, k \in 0 .. size - 1 :
        Queue'[(j * size + k) + 1] = buf[SegAt(Slot(j)) + k]
  BY <1>1, <1>3, SegmentQueueNext DEF SegmentsHeld, SegAt, Slot, Wrap
<1>7. segment_count \in Nat /\ next \in Nat /\ Values \in Nat \ {0}
  BY Constants, Ranges DEF RingInv, Types
<1>8. (InFlight + 1) * size = base + size /\ base \in Nat  BY <1>4, BlockMore
<1>9. \A k \in 0 .. size - 1 : buf[SegAt(Slot(InFlight)) + k] = (next + k) % Values
  <2>1. \A k \in 0 .. prod.done - 1 :
          buf[SegAt(Wrap(claimed, segment_count)) + k] = (next + k) % Values
    BY <1>3 DEF RingInv, Segmented
  <2>2. Wrap(claimed, segment_count) = Slot(InFlight)  BY InFlightIs DEF RingInv
  <2> QED BY <1>3, <2>1, <2>2
<1>10. made \in Seq(Byte) /\ Len(made) = size
  <2>1. \A k \in 1 .. size : (next + k - 1) % Values \in 0 .. Values  BY <1>4, <1>7
  <2>2. made \in [1 .. size -> Byte]  BY <2>1 DEF Byte, Blank
  <2> HIDE DEF made
  <2> QED BY <1>4, <2>2, SequenceOver
<1>11. ASSUME NEW i \in 1 .. base PROVE Queue'[i] = Queue[i]
  <2>1. PICK j \in 0 .. InFlight - 1, k \in 0 .. size - 1 : i = (j * size + k) + 1
    BY <1>4, InBlock
  <2>2. j \in 0 .. InFlight' - 1  BY <1>2, <1>4
  <2> QED BY <1>4, <1>6, <2>1, <2>2
<1>12. ASSUME NEW i \in 1 .. size PROVE Queue'[base + i] = made[i]
  <2>1. InFlight \in 0 .. InFlight' - 1 /\ i - 1 \in 0 .. size - 1  BY <1>2, <1>4
  <2>2. Queue'[(InFlight * size + (i - 1)) + 1] = buf[SegAt(Slot(InFlight)) + (i - 1)]
    BY <1>6, <2>1
  <2>3. (InFlight * size + (i - 1)) + 1 = base + i
    <3> HIDE DEF size
    <3>1. InFlight * size \in Nat  BY <1>4
    <3> QED BY <1>4, <3>1
  <2>4. buf[SegAt(Slot(InFlight)) + (i - 1)] = (next + (i - 1)) % Values  BY <1>9, <2>1
  <2>5. next + (i - 1) = next + i - 1  BY <1>7
  <2> QED BY <2>2, <2>3, <2>4, <2>5
<1>13. Queue' = Queue \o made
  <2> HIDE DEF made, base
  <2>1. \A k \in 1 .. Len(Queue) : Queue'[k] = Queue[k]  BY <1>4, <1>11
  <2>2. \A k \in 1 .. Len(made) : Queue'[Len(Queue) + k] = made[k]  BY <1>4, <1>10, <1>12
  <2>3. Len(Queue') = Len(Queue) + Len(made)  BY <1>4, <1>5, <1>8, <1>10
  <2> QED BY <1>4, <1>5, <1>10, <2>1, <2>2, <2>3, Joined
<1>14. Room' = Room  BY <1>1 DEF Room
<1>15. size \in 0 .. Room /\ Len(Queue) + size <= Room
  <2>1. InFlight + 1 <= segment_count /\ InFlight + 1 \in Nat  BY <1>3, <1>4, <1>7
  <2>2. (InFlight + 1) * size <= segment_count * size /\ segment_count * size \in Nat
    BY <1>4, <1>7, <2>1, BlocksFit
  <2> HIDE DEF base, size
  <2> QED BY <1>4, <1>8, <2>2
<1>16. Fifo!Put(size)
  BY <1>1, <1>13, <1>14, <1>15 DEF Fifo!Put, Fifo!Made
<1> QED BY <1>15, <1>16 DEF Fifo!Next

(* The segment after a released one is the first. *)
LEMMA SlotReleased ==
  ASSUME RingInv, SegRelease, NEW j \in Nat
  PROVE  Wrap(released' + j, segment_count) = Slot(j + 1)
<1>1. /\ Modulus \in Nat \ {0} /\ released \in 0 .. Modulus - 1 /\ segment_count \in Nat \ {0}
  BY Ranges DEF RingInv
<1>2. released' = (released + 1) % Modulus  BY DEF SegRelease, Modulus
<1>3. released + (j + 1) = (released + 1) + j  BY <1>1
<1>4. CASE released + 1 < Modulus
  <2>1. released' = released + 1
    <3> HIDE DEF Modulus
    <3> QED BY <1>1, <1>2, <1>4
  <2> QED BY <1>3, <2>1 DEF Slot
<1>5. CASE released + 1 >= Modulus
  <2>1. released' = 0 /\ released + 1 = Modulus
    <3> HIDE DEF Modulus
    <3>1. released + 1 = Modulus  BY <1>1, <1>5
    <3>2. Modulus % Modulus = 0  BY <1>1
    <3> QED BY <1>2, <3>1, <3>2
  <2>2. PICK q \in Nat : Modulus = segment_count * q  BY CountDivides DEF RingInv
  <2>3. j \in Int /\ q \in Int  OBVIOUS
  <2>4. (j + segment_count * q) % segment_count = j % segment_count  BY <1>1, <2>3, ModTurns
  <2>5. released + (j + 1) = j + segment_count * q
    <3> HIDE DEF Modulus
    <3> QED BY <1>1, <2>1, <2>2
  <2>6. released' + j = j  BY <2>1
  <2> QED BY <2>4, <2>5, <2>6 DEF Slot, Wrap
<1> QED BY <1>1, <1>4, <1>5

(* A released segment is one Take of its bytes. *)
LEMMA SegReleaseQueue ==
  ASSUME RingInv, RingInv', SegRelease
  PROVE  Fifo!Next
<1> DEFINE size == segment_bytes
           base == InFlight * size
<1>1. UNCHANGED <<capacity, segment_count, segment_bytes, use, claimed, buf, next>>
      /\ handed' = cons.dst
  BY DEF SegRelease, laid
<1>2. InFlight' = InFlight - 1  BY SegReleaseCounts
<1>3. /\ use = "segments" /\ InFlight > 0 /\ cons.at = SegAt(Wrap(released, segment_count))
      /\ InFlight <= segment_count /\ Len(cons.dst) = size /\ cons.dst \in Seq(Byte)
      /\ \A k \in 1 .. Len(cons.dst) : cons.dst[k] = buf[cons.at + (k - 1)]
  BY DEF SegRelease, RingInv, Views, Segmented, Types, ConsState
<1>4. /\ Queue \in Seq(Byte) /\ Len(Queue) = base
      /\ InFlight \in Nat /\ size \in Nat /\ Room = segment_count * size
      /\ \A j \in 0 .. InFlight - 1, k \in 0 .. size - 1 :
           Queue[(j * size + k) + 1] = buf[SegAt(Slot(j)) + k]
  BY <1>3, SegmentQueue DEF SegmentsHeld
<1>5. Queue' \in Seq(Byte) /\ Len(Queue') = (InFlight - 1) * size
  BY <1>1, <1>2, <1>3, SegmentQueueNext DEF SegmentsHeld, Byte
<1>6. \A j \in 0 .. InFlight' - 1, k \in 0 .. size - 1 :
        Queue'[(j * size + k) + 1] = buf[SegAt(Wrap(released' + j, segment_count)) + k]
  BY <1>1, <1>3, SegmentQueueNext DEF SegmentsHeld, SegAt, Slot, Wrap
<1>7. base = (InFlight - 1) * size + size /\ (InFlight - 1) * size \in Nat /\ base \in Nat
  <2>1. InFlight - 1 \in Nat /\ (InFlight - 1) + 1 = InFlight  BY <1>3, <1>4
  <2>2. ((InFlight - 1) + 1) * size = (InFlight - 1) * size + size /\ (InFlight - 1) * size \in Nat
    BY <1>4, <2>1, BlockMore
  <2> QED BY <1>4, <2>1, <2>2
<1>8. ASSUME NEW i \in 1 .. (InFlight - 1) * size PROVE Queue'[i] = Queue[size + i]
  <2>1. InFlight - 1 \in Nat  BY <1>3, <1>4
  <2>2. PICK j \in 0 .. (InFlight - 1) - 1, k \in 0 .. size - 1 : i = (j * size + k) + 1
    BY <1>4, <2>1, InBlock
  <2>3. j \in Nat /\ j \in 0 .. InFlight' - 1 /\ j + 1 \in 0 .. InFlight - 1  BY <1>2, <1>4, <2>1
  <2>4. Queue'[i] = buf[SegAt(Slot(j + 1)) + k]  BY <1>6, <2>2, <2>3, SlotReleased
  <2>5. Queue[((j + 1) * size + k) + 1] = buf[SegAt(Slot(j + 1)) + k]  BY <1>4, <2>2, <2>3
  <2>6. ((j + 1) * size + k) + 1 = size + i
    <3>1. (j + 1) * size = j * size + size /\ j * size \in Nat  BY <1>4, <2>3, BlockMore
    <3> HIDE DEF size
    <3> QED BY <1>4, <2>2, <3>1
  <2> QED BY <2>4, <2>5, <2>6
<1>9. ASSUME NEW i \in 1 .. size PROVE cons.dst[i] = Queue[i]
  <2>1. 0 \in 0 .. InFlight - 1 /\ i - 1 \in 0 .. size - 1  BY <1>3, <1>4
  <2>2. Queue[(0 * size + (i - 1)) + 1] = buf[SegAt(Slot(0)) + (i - 1)]  BY <1>4, <2>1
  <2>3. (0 * size + (i - 1)) + 1 = i
    <3>1. 0 * size = 0  BY <1>4
    <3> QED BY <1>4, <3>1
  <2>4. cons.at = SegAt(Slot(0))  BY <1>3, InFlightIs DEF RingInv
  <2> QED BY <1>3, <2>2, <2>3, <2>4
<1> HIDE DEF size, base
<1>10. Queue' = SubSeq(Queue, size + 1, size + (InFlight - 1) * size)
  <2> DEFINE m == (InFlight - 1) * size
  <2>1. m \in Nat /\ size + m <= Len(Queue) /\ size \in Nat  BY <1>4, <1>7
  <2>2. Len(Queue') = m /\ \A i \in 1 .. m : Queue'[i] = Queue[size + i]  BY <1>5, <1>8
  <2> HIDE DEF m
  <2>3. Queue' = SubSeq(Queue, size + 1, size + m)  BY <1>4, <1>5, <2>1, <2>2, CutFrom
  <2> QED BY <2>3 DEF m
<1>11. size + (InFlight - 1) * size = Len(Queue)  BY <1>4, <1>7
<1>12. cons.dst = SubSeq(Queue, 0 + 1, 0 + size)
  <2>1. 0 \in Nat /\ 0 + size <= Len(Queue) /\ size \in Nat  BY <1>4, <1>7
  <2>2. Len(cons.dst) = size /\ \A i \in 1 .. size : cons.dst[i] = Queue[0 + i]  BY <1>3, <1>9
  <2> QED BY <1>3, <1>4, <2>1, <2>2, CutFrom
<1>13. 0 + 1 = 1 /\ 0 + size = size  BY <1>4
<1>14. size <= Len(Queue)  BY <1>4, <1>7
<1>15. size \in 0 .. Room
  <2>1. segment_count \in Nat  BY Ranges DEF RingInv
  <2>2. base <= segment_count * size /\ segment_count * size \in Nat
    BY <1>3, <1>4, <2>1, BlocksFit DEF base
  <2> QED BY <1>4, <1>7, <2>2
<1>16. Room' = Room  BY <1>1 DEF Room
<1>17. Fifo!Take(size)
  BY <1>1, <1>10, <1>11, <1>12, <1>13, <1>14, <1>16 DEF Fifo!Take, Fifo!Drop
<1> QED BY <1>15, <1>17 DEF Fifo!Next

Abstract == <<Room, Queue, next, handed>>

LEMMA InitFifo == ASSUME Init PROVE Fifo!Init
<1>1. RingInv  BY InitInv
<1>2. next = 0 /\ handed = <<>> /\ head = 0 /\ tail = 0 /\ claimed = 0 /\ released = 0
  BY DEF Init
<1>3. CASE use = "segments"
  <2>1. /\ Queue \in Seq(Byte) /\ Len(Queue) = InFlight * segment_bytes /\ segment_bytes \in Nat
        /\ Room = segment_count * segment_bytes
    BY <1>1, <1>3, SegmentQueue DEF SegmentsHeld
  <2>2. InFlight = 0 /\ segment_count \in Nat  BY <1>1, <1>2, InFlightIs, Ranges DEF RingInv
  <2>3. Len(Queue) = 0 /\ Room \in Nat  BY <2>1, <2>2
  <2>4. Queue = <<>>  BY <2>1, <2>3, EmptySeq
  <2> QED BY <1>2, <2>3, <2>4 DEF Fifo!Init
<1>4. CASE use # "segments"
  <2>1. Queue \in Seq(Byte) /\ Len(Queue) = Used /\ Used \in Nat /\ Free \in Nat /\ Room = Used + Free
    BY <1>1, <1>4, StreamQueue DEF StreamHeld
  <2>2. Used = 0
    <3>1. Used = Past(tail, head)  BY <1>1, UsedIs, Ranges DEF RingInv
    <3> QED BY <1>2, <3>1 DEF Past
  <2>3. Len(Queue) = 0 /\ Room \in Nat  BY <2>1, <2>2
  <2>4. Queue = <<>>  BY <2>1, <2>3, EmptySeq
  <2> QED BY <1>2, <2>3, <2>4 DEF Fifo!Init
<1> QED BY <1>3, <1>4

(* Every step is one of the queue's, or leaves the queue as it is. *)
LEMMA NextFifo ==
  ASSUME RingInv, RingInv', [Next]_vars
  PROVE  Fifo!Next \/ UNCHANGED Abstract
<1>1. \A bytes \in 0 .. CapacityMost : bytes \in Nat  BY Constants
<1>2. CASE UNCHANGED vars
  <2>1. UNCHANGED <<laid, buf, stream, segs, next, handed>>  BY <1>2 DEF vars
  <2> QED BY <2>1, QueueKept DEF Abstract
<1>3. CASE Producer
  <2>1. CASE PutDone  BY <2>1, PutDoneQueue
  <2>2. CASE SegPublish  BY <2>2, SegPublishQueue
  <2>3. CASE MoveIn  BY <2>3, MoveInQueue DEF Abstract
  <2>4. CASE SegFill  BY <2>4, SegFillQueue DEF Abstract
  <2>5. CASE Vacant \/ SegNext \/ \E bytes \in 0 .. CapacityMost : Put(bytes)
    <3>1. UNCHANGED <<laid, buf, stream, segs, next, handed>>
      BY <2>5 DEF Vacant, SegNext, Put
    <3> QED BY <3>1, QueueKept DEF Abstract
  <2> QED BY <1>3, <2>1, <2>2, <2>3, <2>4, <2>5 DEF Producer
<1>4. CASE Consumer
  <2>1. CASE ReadDone  BY <2>1, ReadDoneQueue
  <2>2. CASE PeekDone  BY <2>2, PeekDoneQueue
  <2>3. CASE SegRelease  BY <2>3, SegReleaseQueue
  <2>4. CASE \E bytes \in 0 .. CapacityMost : Consume(bytes)  BY <1>1, <2>4, ConsumeQueue
  <2>5. CASE Available \/ ReadByte \/ MoveOut \/ SegFront \/ SegRead
             \/ \E bytes \in 0 .. CapacityMost :
                  Read(bytes) \/ \E offset \in 0 .. CapacityMost : Peek(offset, bytes)
    <3>1. UNCHANGED <<laid, buf, stream, segs, next, handed>>
      BY <2>5 DEF Available, ReadByte, MoveOut, SegFront, SegRead, Read, Peek
    <3> QED BY <3>1, QueueKept DEF Abstract
  <2> QED BY <1>4, <2>1, <2>2, <2>3, <2>4, <2>5 DEF Consumer
<1>5. ASSUME NEW h \in Holders, Holding(h) PROVE UNCHANGED Abstract
  <2>1. UNCHANGED <<laid, buf, stream, segs, next, handed>>
    BY <1>5 DEF Holding, LoculusNamed, LoculusGratis, LoculusReady, LoculusNext, LoculusHold,
       LoculusRecord, Recorded, LoculusDrop, LoculusMark, LoculusStep
  <2> QED BY <2>1, QueueKept DEF Abstract
<1> QED BY <1>2, <1>3, <1>4, <1>5 DEF Next

(* ImplementsFifo: every step of the ring is a step of a bounded queue that *)
(* is put into whole and taken from the front, for every capacity, segment  *)
(* size and counter width: no byte of mmgr_anular_put is lost, repeated,    *)
(* torn or handed over out of order, across the wrap of the buffer and of   *)
(* the counters.                                                           *)
THEOREM RingImplementsFifo == Spec => ImplementsFifo
<1>1. Init => Fifo!Init  BY InitFifo
<1>2. RingInv /\ RingInv' /\ [Next]_vars => [Fifo!Next]_Abstract
  BY NextFifo
<1>3. Init /\ [][Next]_vars /\ []RingInv => Fifo!Init /\ [][Fifo!Next]_Abstract
  BY <1>1, <1>2, PTL
<1> QED BY <1>3, Invariance, PTL DEF Spec, ImplementsFifo, Fifo!Spec, Fifo!fifoVars, Abstract

----------------------------------------------------------------------------
(* The twin, confinium_exclusivum_infinitas.c: each of its steps is one of *)
(* the ring's, or none.                                                    *)

Viewed ==
  /\ prod = Twin!ProducerView /\ cons = Twin!ConsumerView
  /\ holder = Twin!HolderView /\ keepout = Twin!KeepoutView

(* Where a move of want bytes from at stands: in its first pass, in its     *)
(* second, or through.                                                     *)
InRun(at, want, pos, n, done, moved) ==
  LET r == Twin!ring_run(at, want)
  IN  \/ done = 0 /\ pos = at /\ n = r.first /\ 0 <= moved /\ moved < n
      \/ done = r.first /\ pos = 0 /\ n = r.n - done /\ done <= moved /\ moved < r.n
      \/ done = r.n /\ moved = r.n

FillerState ==
  [pc : {"idle", "vacant tail", "vacant head", "put", "move_in", "seg_next", "fill"},
   bytes : Nat, h : Nat, t : Nat, to : Nat, n : Nat, done : Nat, moved : Nat, idx : Nat,
   promise : Nat]

DrainerState ==
  [pc : {"idle", "available head", "available tail", "read", "read_byte", "byte", "read out",
         "peek out", "seg_front", "front"},
   bytes : Nat, h : Nat, at : Nat, from : Nat, n : Nat, done : Nat, dst : Seq(Byte), seen : Nat]

OpenerState ==
  [pc : {"idle", "ready", "ready pinned", "ready gratis", "next", "hold"} \cup Granted,
   mask : SUBSET Indices, idx : 0 .. Loculi]

(* What a call has loaded of its own cursor still stands there. *)
FillerLink ==
  /\ filler \in FillerState
  /\ filler.pc \notin {"move_in", "fill"} => filler.moved = 0 /\ filler.done = 0
  /\ filler.pc \in {"vacant tail", "put", "move_in"} => filler.h = head
  /\ filler.pc = "move_in" =>
       InRun(head, filler.bytes, filler.to, filler.n, filler.done, filler.moved)
  /\ filler.pc = "seg_next" => filler.h = claimed
  /\ filler.pc = "fill" => filler.idx = Wrap(claimed, segment_count)

DrainerLink ==
  /\ drainer \in DrainerState
  /\ drainer.pc \notin {"byte", "read out", "peek out", "front"} =>
       drainer.dst = <<>> /\ drainer.done = 0
  /\ drainer.pc \in {"available head", "read", "read_byte", "byte", "read out"} =>
       drainer.at = tail
  /\ drainer.pc = "byte" => drainer.bytes = 1 /\ Len(drainer.dst) <= 1
  /\ drainer.pc \in {"read out", "peek out"} =>
       InRun(drainer.at, drainer.bytes, drainer.from, drainer.n, drainer.done, Len(drainer.dst))
  /\ drainer.pc = "seg_front" => drainer.at = released

KeepState == [Indices -> [buf : Holders \cup {"null"}, cap : Holders \cup {"none"}, pos : {0}]]

OpenerFits(o) ==
  /\ o.pc \notin {"hold"} \cup Granted => o.idx = 0
  /\ o.pc \in {"idle", "ready", "hold"} \cup Granted => o.mask = {}
  /\ o.pc = "ready pinned" => o.mask = Indices

OpenerLink ==
  /\ opener \in [Holders -> OpenerState] /\ \A c \in Holders : OpenerFits(opener[c])
  /\ keep \in KeepState

Link == Viewed /\ FillerLink /\ DrainerLink /\ OpenerLink

(* A move's bytes go where the two runs of the ring have them, and after    *)
(* each the move stands one further.                                       *)
LEMMA RunStep ==
  ASSUME capacity \in Nat \ {0}, NEW at \in 0 .. capacity - 1, NEW want \in Nat,
         NEW pos \in Nat, NEW n \in Nat, NEW done \in Nat, NEW moved \in Nat,
         InRun(at, want, pos, n, done, moved), done < Twin!ring_run(at, want).n
  PROVE  /\ moved < RunCarries(want)
         /\ pos + (moved - done) = RunAt(at, want, moved)
         /\ moved + 1 < done + n => InRun(at, want, pos, n, done, moved + 1)
         /\ ~(moved + 1 < done + n) =>
              /\ Twin!ring_run(at, want).n - (moved + 1) \in Nat
              /\ InRun(at, want, 0, Twin!ring_run(at, want).n - (moved + 1), moved + 1, moved + 1)
<1> DEFINE r == Twin!ring_run(at, want)
           carried == IF want > capacity THEN capacity ELSE want
           first == IF capacity - at < carried THEN capacity - at ELSE carried
<1>1. r.n = carried /\ r.first = first /\ RunCarries(want) = carried
  BY DEF Twin!ring_run, RunCarries
<1>2. RunAt(at, want, moved) = IF moved < first THEN at + moved ELSE moved - first
  BY DEF RunAt
<1>3. /\ carried \in Nat /\ first \in Nat /\ first <= carried /\ first <= capacity - at
      /\ carried > 0 => first > 0
  OBVIOUS
<1> HIDE DEF carried, first
<1> QED BY <1>1, <1>2, <1>3 DEF InRun

(* A move through has carried all it is to. *)
LEMMA RunEnd ==
  ASSUME capacity \in Nat \ {0}, NEW at \in 0 .. capacity - 1, NEW want \in Nat,
         NEW pos \in Nat, NEW n \in Nat, NEW done \in Nat, NEW moved \in Nat,
         InRun(at, want, pos, n, done, moved), done >= Twin!ring_run(at, want).n
  PROVE  moved = RunCarries(want) /\ Twin!ring_run(at, want).n = RunCarries(want)
BY DEF InRun, Twin!ring_run, RunCarries

(* A move about to begin. *)
LEMMA RunBegins ==
  ASSUME capacity \in Nat \ {0}, NEW at \in 0 .. capacity - 1, NEW want \in Nat
  PROVE  /\ Twin!ring_run(at, want).first \in Nat
         /\ InRun(at, want, at, Twin!ring_run(at, want).first, 0, 0)
BY DEF InRun, Twin!ring_run

(* What a step of the producer leaves of the rest. *)
LEMMA FillsLeave ==
  ASSUME Link, Viewed', NEW view, NEW pc, NEW to, Twin!Fills(view, pc, to)
  PROVE  /\ UNCHANGED <<laid, tail, released, loculi, cons, handed>>
         /\ DrainerLink' /\ OpenerLink' /\ use = view /\ filler.pc = pc /\ filler' = to
<1>1. /\ UNCHANGED <<laid, tail, released, gratis, pinned, keep, opener, drainer, handed>>
      /\ use = view /\ filler.pc = pc /\ filler' = to
  BY DEF Twin!Fills, Twin!laid, Twin!loculi, laid
<1>2. cons' = cons
  BY <1>1 DEF Link, Viewed, Twin!ConsumerView, Twin!Copying, Twin!Idling, Twin!ring_used, laid
<1>3. holder' = holder /\ keepout' = keepout
  BY <1>1 DEF Link, Viewed, Twin!HolderView, Twin!KeepoutView, Twin!ring_loculus_all
<1>4. DrainerLink' /\ OpenerLink'
  BY <1>1 DEF Link, DrainerLink, OpenerLink, InRun, Twin!ring_run, laid
<1> QED BY <1>1, <1>2, <1>3, <1>4 DEF loculi

(* What is seen of the producer, one local state after the other.           *)
IdleSeen(promise) == [pc |-> "idle", bytes |-> 0, done |-> 0, promise |-> promise]

LEMMA ProducerSeen ==
  ASSUME Viewed
  PROVE  /\ filler.pc \notin {"move_in", "fill", "vacant head"} => prod = IdleSeen(filler.promise)
         /\ filler.pc = "vacant head" =>
              prod = IdleSeen((capacity - 1) - ((head - filler.t) % capacity))
         /\ filler.pc = "move_in" =>
              prod = [pc |-> "put", bytes |-> filler.bytes, done |-> filler.moved,
                      promise |-> filler.promise]
         /\ filler.pc = "fill" =>
              prod = [pc |-> "fill", bytes |-> segment_bytes, done |-> filler.moved,
                      promise |-> filler.promise]
BY DEF Viewed, Twin!ProducerView, IdleSeen, Twin!ring_free, Twin!ring_used, Twin!WRAP

LEMMA ProducerSeenNext ==
  ASSUME Viewed', UNCHANGED laid
  PROVE  /\ filler'.pc \notin {"move_in", "fill", "vacant head"} =>
              prod' = IdleSeen(filler'.promise)
         /\ filler'.pc = "vacant head" =>
              prod' = IdleSeen((capacity - 1) - ((head' - filler'.t) % capacity))
         /\ filler'.pc = "move_in" =>
              prod' = [pc |-> "put", bytes |-> filler'.bytes, done |-> filler'.moved,
                       promise |-> filler'.promise]
         /\ filler'.pc = "fill" =>
              prod' = [pc |-> "fill", bytes |-> segment_bytes, done |-> filler'.moved,
                       promise |-> filler'.promise]
BY DEF Viewed, Twin!ProducerView, IdleSeen, Twin!ring_free, Twin!ring_used, Twin!WRAP, laid

LEMMA IdlePromises ==
  ASSUME NEW p, NEW q, prod = IdleSeen(p), prod' = IdleSeen(q)
  PROVE  prod.pc = "idle" /\ prod' = [prod EXCEPT !.promise = q]
BY DEF IdleSeen

LEMMA PutStarts ==
  ASSUME NEW p \in Nat, NEW b \in Nat, prod = IdleSeen(p),
         prod' = [pc |-> "put", bytes |-> b, done |-> 0, promise |-> p]
  PROVE  prod.pc = "idle" /\ prod' = [prod EXCEPT !.pc = "put", !.bytes = b, !.done = 0]
<1>1. prod \in ProdState /\ prod' \in ProdState  BY DEF IdleSeen, ProdState
<1>2. prod'.pc = "put" /\ prod'.bytes = b /\ prod'.done = 0 /\ prod'.promise = prod.promise
  BY DEF IdleSeen
<1>3. prod' = [prod EXCEPT !.pc = "put", !.bytes = b, !.done = 0]
  BY <1>1, <1>2 DEF ProdState
<1> QED BY <1>3 DEF IdleSeen

LEMMA FillingLinks ==
  ASSUME NEW promise \in Nat, filler' = Twin!Filling(promise)
  PROVE  FillerLink' /\ filler'.pc = "idle" /\ filler'.promise = promise
BY DEF FillerLink, FillerState, Twin!Filling

(* The ring's steps and its pauses, seen from the twin. *)
Same == UNCHANGED vars

LEMMA Pauses ==
  ASSUME UNCHANGED <<laid, buf, stream, segs, loculi, prod, cons, next, handed>>
  PROVE  Same
BY DEF Same, vars

LEMMA InfinVacant ==
  ASSUME RingInv, Link, Viewed', Twin!infin_vacant
  PROVE  (Vacant \/ Same) /\ Link'
<1>1. UNCHANGED <<buf, head, claimed, next>>  BY DEF Twin!infin_vacant
<1>2. /\ FillerLink /\ Viewed /\ Viewed' /\ filler \in FillerState /\ prod \in ProdState
      /\ capacity \in Nat \ {0} /\ head \in 0 .. capacity - 1 /\ tail \in 0 .. capacity - 1
  BY Ranges DEF Link, FillerLink, RingInv, Types
<1>3. Free = (capacity - 1) - ((head - tail) % capacity) /\ Free \in Nat
  BY <1>2, UsedIs DEF Free, Used, Wrap
<1>4. CASE Twin!Fills("stream", "idle", [filler EXCEPT !.pc = "vacant tail", !.h = head])
  <2>1. /\ UNCHANGED <<laid, tail, released, loculi, cons, handed>> /\ DrainerLink' /\ OpenerLink'
        /\ filler.pc = "idle" /\ filler' = [filler EXCEPT !.pc = "vacant tail", !.h = head]
    BY <1>2, <1>4, FillsLeave
  <2>a. /\ filler' \in FillerState /\ filler'.pc = "vacant tail" /\ filler'.h = head
        /\ filler'.promise = filler.promise /\ filler'.moved = 0 /\ filler'.done = 0
    <3>1. filler.moved = 0 /\ filler.done = 0  BY <1>2, <2>1 DEF FillerLink
    <3>2. head \in Nat /\ filler \in FillerState  BY <1>2
    <3> QED BY <2>1, <3>1, <3>2 DEF FillerState
  <2>2. FillerLink' /\ filler'.pc = "vacant tail" /\ filler'.promise = filler.promise
    BY <1>1, <2>a DEF FillerLink
  <2>3. prod' = prod  BY <1>2, <2>1, <2>2, ProducerSeen, ProducerSeenNext
  <2> QED BY <1>1, <1>2, <2>1, <2>2, <2>3, Pauses DEF Link, stream, segs
<1>5. CASE Twin!Fills("stream", "idle", [filler EXCEPT !.pc = "vacant head", !.t = tail])
  <2>1. /\ UNCHANGED <<laid, tail, released, loculi, cons, handed>> /\ DrainerLink' /\ OpenerLink'
        /\ filler.pc = "idle" /\ filler' = [filler EXCEPT !.pc = "vacant head", !.t = tail]
        /\ use = "stream"
    BY <1>2, <1>5, FillsLeave
  <2>a. /\ filler' \in FillerState /\ filler'.pc = "vacant head" /\ filler'.t = tail
        /\ filler'.moved = 0 /\ filler'.done = 0
    <3>1. filler.moved = 0 /\ filler.done = 0  BY <1>2, <2>1 DEF FillerLink
    <3>2. tail \in Nat /\ filler \in FillerState  BY <1>2
    <3> QED BY <2>1, <3>1, <3>2 DEF FillerState
  <2>2. FillerLink' /\ filler'.pc = "vacant head" /\ filler'.t = tail
    BY <2>a DEF FillerLink
  <2>3. prod = IdleSeen(filler.promise) /\ prod' = IdleSeen(Free)
    BY <1>1, <1>2, <1>3, <2>1, <2>2, ProducerSeen, ProducerSeenNext
  <2>4. Vacant  BY <1>1, <2>1, <2>3, IdlePromises DEF Vacant, stream, segs
  <2> QED BY <1>2, <2>1, <2>2, <2>4 DEF Link
<1>6. CASE Twin!Fills("stream", "vacant tail", Twin!Filling(Twin!ring_free(filler.h, tail)))
  <2>1. /\ UNCHANGED <<laid, tail, released, loculi, cons, handed>> /\ DrainerLink' /\ OpenerLink'
        /\ filler.pc = "vacant tail" /\ filler' = Twin!Filling(Twin!ring_free(filler.h, tail))
        /\ use = "stream"
    BY <1>2, <1>6, FillsLeave
  <2>2. filler' = Twin!Filling(Free)
    BY <1>2, <1>3, <2>1 DEF FillerLink, Twin!ring_free, Twin!ring_used, Twin!WRAP
  <2>3. FillerLink' /\ filler'.pc = "idle" /\ filler'.promise = Free
    BY <1>3, <2>2, FillingLinks
  <2>4. prod = IdleSeen(filler.promise) /\ prod' = IdleSeen(Free)
    BY <1>2, <2>1, <2>3, ProducerSeen, ProducerSeenNext
  <2>5. Vacant  BY <1>1, <2>1, <2>4, IdlePromises DEF Vacant, stream, segs
  <2> QED BY <1>2, <2>1, <2>3, <2>5 DEF Link
<1>7. CASE Twin!Fills("stream", "vacant head", Twin!Filling(Twin!ring_free(head, filler.t)))
  <2> DEFINE free == (capacity - 1) - ((head - filler.t) % capacity)
  <2>1. /\ UNCHANGED <<laid, tail, released, loculi, cons, handed>> /\ DrainerLink' /\ OpenerLink'
        /\ filler.pc = "vacant head" /\ filler' = Twin!Filling(free)
    BY <1>2, <1>7, FillsLeave DEF Twin!ring_free, Twin!ring_used, Twin!WRAP
  <2>2. prod = IdleSeen(free)  BY <1>2, <2>1, ProducerSeen
  <2>3. free \in Nat  BY <1>2, <2>2 DEF ProdState, IdleSeen
  <2> HIDE DEF free
  <2>4. FillerLink' /\ filler'.pc = "idle" /\ filler'.promise = free
    BY <2>1, <2>3, FillingLinks
  <2>5. prod' = prod  BY <1>2, <2>1, <2>2, <2>4, ProducerSeenNext
  <2> QED BY <1>1, <1>2, <2>1, <2>4, <2>5, Pauses DEF Link, stream, segs
<1> QED BY <1>4, <1>5, <1>6, <1>7 DEF Twin!infin_vacant

LEMMA InfinPut ==
  ASSUME RingInv, Link, Viewed', Twin!infin_put
  PROVE  Same /\ Link'
<1>1. /\ UNCHANGED <<buf, head, claimed, next>> /\ FillerLink /\ Viewed /\ Viewed'
      /\ head \in 0 .. capacity - 1 /\ capacity \in Nat
  BY Ranges DEF Twin!infin_put, Link, RingInv
<1>2. /\ UNCHANGED <<laid, tail, released, loculi, cons, handed>> /\ DrainerLink' /\ OpenerLink'
      /\ filler.pc = "idle" /\ filler' = [filler EXCEPT !.pc = "put", !.h = head]
  BY FillsLeave DEF Twin!infin_put
<1>a. /\ filler' \in FillerState /\ filler'.pc = "put" /\ filler'.h = head
      /\ filler'.promise = filler.promise /\ filler'.moved = 0 /\ filler'.done = 0
  <2>1. filler.moved = 0 /\ filler.done = 0 /\ filler \in FillerState
    BY <1>1, <1>2 DEF FillerLink
  <2>2. head \in Nat  BY <1>1
  <2> QED BY <1>2, <2>1, <2>2 DEF FillerState
<1>3. FillerLink' /\ filler'.pc = "put" /\ filler'.promise = filler.promise
  BY <1>1, <1>a DEF FillerLink
<1>4. prod' = prod  BY <1>1, <1>2, <1>3, ProducerSeen, ProducerSeenNext
<1> QED BY <1>1, <1>2, <1>3, <1>4, Pauses DEF Link, stream, segs

LEMMA InfinPutFits ==
  ASSUME RingInv, Link, Viewed', NEW bytes \in 0 .. CapacityMost, Twin!infin_put_fits(bytes)
  PROVE  (Put(bytes) \/ Same) /\ Link'
<1> DEFINE r == Twin!ring_run(filler.h, bytes)
           moving == [filler EXCEPT !.pc = "move_in", !.bytes = bytes, !.to = filler.h,
                                    !.n = r.first]
<1>1. /\ UNCHANGED <<buf, head, claimed, next>> /\ FillerLink /\ Viewed /\ Viewed'
      /\ filler \in FillerState
  BY DEF Twin!infin_put_fits, Link, FillerLink
<1>0. head \in 0 .. capacity - 1 /\ capacity \in Nat \ {0} /\ bytes \in Nat
  BY Ranges, Constants DEF RingInv
<1>2. /\ UNCHANGED <<laid, tail, released, loculi, cons, handed>> /\ DrainerLink' /\ OpenerLink'
      /\ use = "stream" /\ filler.pc = "put"
      /\ filler' = IF bytes > Twin!ring_free(filler.h, tail) THEN Twin!Filling(filler.promise)
                   ELSE moving
  BY FillsLeave DEF Twin!infin_put_fits
<1>3. Twin!ring_free(filler.h, tail) = Free /\ filler.h = head /\ filler.moved = 0
      /\ filler.done = 0
  BY <1>0, <1>1, <1>2 DEF FillerLink, Twin!ring_free, Twin!ring_used, Twin!WRAP, Free, Used, Wrap
<1>4. prod = IdleSeen(filler.promise)  BY <1>0, <1>1, <1>2, ProducerSeen
<1>5. Free \in Nat
  BY <1>0, <1>1, Ranges, UsedIs DEF RingInv
<1>6. CASE bytes > Free
  <2>1. FillerLink' /\ filler'.pc = "idle" /\ filler'.promise = filler.promise
    BY <1>0, <1>1, <1>2, <1>3, <1>6, FillingLinks DEF FillerState
  <2>2. prod' = prod  BY <1>0, <1>1, <1>2, <1>4, <2>1, ProducerSeenNext
  <2> QED BY <1>0, <1>1, <1>2, <2>1, <2>2, Pauses DEF Link, stream, segs
<1>7. CASE ~(bytes > Free)
  <2>1. filler' = moving  BY <1>2, <1>3, <1>7
  <2>2. r.first \in Nat /\ InRun(head, bytes, head, r.first, 0, 0)
    BY <1>0, <1>1, <1>3, RunBegins
  <2> HIDE DEF r
  <2>3. /\ filler' \in FillerState /\ filler'.pc = "move_in" /\ filler'.promise = filler.promise
        /\ filler'.bytes = bytes /\ filler'.moved = 0 /\ filler'.done = 0 /\ filler'.h = head
        /\ filler'.to = head /\ filler'.n = r.first
    BY <1>0, <1>1, <1>3, <2>1, <2>2 DEF FillerState
  <2>4. InRun(head', filler'.bytes, filler'.to, filler'.n, filler'.done, filler'.moved)
    BY <1>0, <1>1, <2>2, <2>3
  <2>5. InRun(head, filler.bytes, filler.to, filler.n, filler.done, filler.moved)'
    BY <1>2, <2>4 DEF InRun, Twin!ring_run, laid
  <2>6. FillerLink'  BY <1>0, <1>1, <2>3, <2>5 DEF FillerLink
  <2>7. prod' = [pc |-> "put", bytes |-> bytes, done |-> 0, promise |-> filler.promise]
    BY <1>0, <1>1, <1>2, <2>3, ProducerSeenNext
  <2>8. prod.pc = "idle" /\ prod' = [prod EXCEPT !.pc = "put", !.bytes = bytes, !.done = 0]
    BY <1>0, <1>1, <1>4, <2>7, PutStarts DEF FillerState
  <2>9. bytes <= Free  BY <1>0, <1>5, <1>7
  <2>10. Put(bytes)  BY <1>1, <1>2, <2>8, <2>9 DEF Put, stream, segs
  <2> QED BY <1>0, <1>1, <1>2, <2>6, <2>10 DEF Link
<1> QED BY <1>6, <1>7

LEMMA InfinMoveIn ==
  ASSUME RingInv, Link, Viewed', Twin!ring_move_in
  PROVE  MoveIn /\ Link'
<1> DEFINE r == Twin!ring_run(filler.h, filler.bytes)
           moved == filler.moved + 1
           to == IF moved < filler.done + filler.n THEN [filler EXCEPT !.moved = moved]
                 ELSE [filler EXCEPT !.moved = moved, !.done = moved, !.to = 0,
                                     !.n = r.n - moved]
<1>1. /\ UNCHANGED <<head, claimed, next>> /\ FillerLink /\ Viewed /\ Viewed'
      /\ filler \in FillerState /\ filler.done < r.n
      /\ buf' = [buf EXCEPT ![filler.to + (filler.moved - filler.done)]
                              = (next + filler.moved) % Values]
  BY DEF Twin!ring_move_in, Link, FillerLink
<1>2. head \in 0 .. capacity - 1 /\ capacity \in Nat \ {0} /\ prod \in ProdState
  BY Ranges DEF RingInv, Types
<1>3. /\ UNCHANGED <<laid, tail, released, loculi, cons, handed>> /\ DrainerLink' /\ OpenerLink'
      /\ filler.pc = "move_in" /\ filler' = to
  BY FillsLeave DEF Twin!ring_move_in
<1>4. /\ filler.h = head
      /\ InRun(head, filler.bytes, filler.to, filler.n, filler.done, filler.moved)
      /\ filler.bytes \in Nat /\ filler.to \in Nat /\ filler.n \in Nat /\ filler.done \in Nat
      /\ filler.moved \in Nat /\ filler.promise \in Nat
  BY <1>1, <1>3 DEF FillerLink, FillerState
<1>a. r = Twin!ring_run(head, filler.bytes) /\ filler.done < Twin!ring_run(head, filler.bytes).n
  BY <1>1, <1>4
<1> HIDE DEF r
<1>5. /\ filler.moved < RunCarries(filler.bytes)
      /\ filler.to + (filler.moved - filler.done) = RunAt(head, filler.bytes, filler.moved)
      /\ moved < filler.done + filler.n =>
           InRun(head, filler.bytes, filler.to, filler.n, filler.done, moved)
      /\ ~(moved < filler.done + filler.n) =>
           r.n - moved \in Nat /\ InRun(head, filler.bytes, 0, r.n - moved, moved, moved)
  <2> DEFINE q == Twin!ring_run(head, filler.bytes)
  <2>1. /\ filler.moved < RunCarries(filler.bytes)
        /\ filler.to + (filler.moved - filler.done) = RunAt(head, filler.bytes, filler.moved)
        /\ filler.moved + 1 < filler.done + filler.n =>
             InRun(head, filler.bytes, filler.to, filler.n, filler.done, filler.moved + 1)
        /\ ~(filler.moved + 1 < filler.done + filler.n) =>
             /\ q.n - (filler.moved + 1) \in Nat
             /\ InRun(head, filler.bytes, 0, q.n - (filler.moved + 1), filler.moved + 1,
                       filler.moved + 1)
    <3>1. /\ filler.bytes \in Nat /\ filler.to \in Nat /\ filler.n \in Nat
          /\ filler.done \in Nat /\ filler.moved \in Nat
          /\ InRun(head, filler.bytes, filler.to, filler.n, filler.done, filler.moved)
          /\ filler.done < Twin!ring_run(head, filler.bytes).n
          /\ head \in 0 .. capacity - 1 /\ capacity \in Nat \ {0}
      BY <1>a, <1>2, <1>4
    <3> HIDE DEF moved, to, r
    <3> QED BY <3>1, RunStep
  <2> QED BY <1>a, <2>1
<1>b. filler \in FillerState /\ filler' = to /\ moved \in Nat /\ filler.pc = "move_in"
  BY <1>1, <1>3, <1>4
<1>6. /\ filler' \in FillerState /\ filler'.pc = "move_in" /\ filler'.h = filler.h
      /\ filler'.bytes = filler.bytes /\ filler'.moved = moved
      /\ filler'.promise = filler.promise
  <2>1. CASE moved < filler.done + filler.n
    <3>1. filler' = [filler EXCEPT !.moved = moved]  BY <1>b, <2>1
    <3> HIDE DEF moved, to
    <3> QED BY <1>b, <3>1 DEF FillerState
  <2>2. CASE ~(moved < filler.done + filler.n)
    <3> DEFINE rest == r.n - moved
    <3>1. /\ filler' = [filler EXCEPT !.moved = moved, !.done = moved, !.to = 0, !.n = rest]
          /\ rest \in Nat
      BY <1>b, <1>5, <2>2
    <3> HIDE DEF moved, to, r, rest
    <3>2. filler' \in FillerState
      <4> DEFINE g == [filler EXCEPT !.moved = moved, !.done = moved]
      <4>1. g \in FillerState  BY <1>b DEF FillerState
      <4>2. filler' = [g EXCEPT !.to = 0, !.n = rest]  BY <3>1
      <4>3. rest \in Nat  BY <3>1
      <4> HIDE DEF g
      <4> QED BY <4>1, <4>2, <4>3 DEF FillerState
    <3>3. filler'.pc = "move_in" /\ filler'.h = filler.h /\ filler'.bytes = filler.bytes
          /\ filler'.promise = filler.promise
      BY <1>b, <3>1 DEF FillerState
    <3>4. filler'.moved = moved  BY <1>b, <3>1 DEF FillerState
    <3> QED BY <3>2, <3>3, <3>4
  <2> QED BY <2>1, <2>2
<1>7. InRun(head, filler'.bytes, filler'.to, filler'.n, filler'.done, filler'.moved)
  <2>1. CASE moved < filler.done + filler.n
    <3>1. filler'.to = filler.to /\ filler'.n = filler.n /\ filler'.done = filler.done
      BY <1>1, <1>3, <2>1 DEF FillerState
    <3> QED BY <1>5, <1>6, <2>1, <3>1
  <2>2. CASE ~(moved < filler.done + filler.n)
    <3>1. filler'.to = 0 /\ filler'.n = r.n - moved /\ filler'.done = moved
      BY <1>1, <1>3, <2>2 DEF FillerState
    <3> QED BY <1>5, <1>6, <2>2, <3>1
  <2> QED BY <2>1, <2>2
<1>8. InRun(head, filler.bytes, filler.to, filler.n, filler.done, filler.moved)'
  BY <1>1, <1>3, <1>7 DEF InRun, Twin!ring_run, laid
<1>9. FillerLink'  BY <1>1, <1>4, <1>6, <1>8 DEF FillerLink
<1>10. /\ prod = [pc |-> "put", bytes |-> filler.bytes, done |-> filler.moved,
                  promise |-> filler.promise]
       /\ prod' = [pc |-> "put", bytes |-> filler.bytes, done |-> moved,
                   promise |-> filler.promise]
  BY <1>1, <1>3, <1>6, ProducerSeen, ProducerSeenNext
<1>11. prod' \in ProdState  BY <1>4, <1>10 DEF ProdState
<1>12. prod' = [prod EXCEPT !.done = @ + 1]
  <2>1. /\ prod'.pc = prod.pc /\ prod'.bytes = prod.bytes /\ prod'.promise = prod.promise
        /\ prod'.done = prod.done + 1
    BY <1>10
  <2> QED BY <1>2, <1>11, <2>1 DEF ProdState
<1>13. prod.pc = "put" /\ prod.bytes = filler.bytes /\ prod.done = filler.moved  BY <1>10
<1>14. MoveIn
  BY <1>1, <1>3, <1>5, <1>12, <1>13 DEF MoveIn, stream, segs
<1> QED BY <1>1, <1>3, <1>9, <1>14 DEF Link

LEMMA InfinPutDone ==
  ASSUME RingInv, Link, Viewed', Twin!infin_put_done
  PROVE  PutDone /\ Link'
<1> DEFINE r == Twin!ring_run(filler.h, filler.bytes)
           left == IF filler.bytes < filler.promise THEN filler.promise - filler.bytes ELSE 0
<1>1. /\ UNCHANGED <<buf, claimed>> /\ FillerLink /\ Viewed /\ Viewed'
      /\ filler \in FillerState /\ filler.done >= r.n
      /\ head' = Wrap(filler.h + r.n, capacity) /\ next' = (next + filler.bytes) % Values
  BY DEF Twin!infin_put_done, Link, FillerLink, Twin!WRAP, Wrap
<1>2. head \in 0 .. capacity - 1 /\ capacity \in Nat \ {0} /\ prod \in ProdState
  BY Ranges DEF RingInv, Types
<1>3. /\ UNCHANGED <<laid, tail, released, loculi, cons, handed>> /\ DrainerLink' /\ OpenerLink'
      /\ filler.pc = "move_in" /\ filler' = Twin!Filling(left)
  BY FillsLeave DEF Twin!infin_put_done
<1>4. /\ filler.h = head
      /\ InRun(head, filler.bytes, filler.to, filler.n, filler.done, filler.moved)
      /\ filler.bytes \in Nat /\ filler.to \in Nat /\ filler.n \in Nat /\ filler.done \in Nat
      /\ filler.moved \in Nat /\ filler.promise \in Nat
  BY <1>1, <1>3 DEF FillerLink, FillerState
<1>5. filler.moved = RunCarries(filler.bytes) /\ r.n = RunCarries(filler.bytes)
  BY <1>1, <1>2, <1>4, RunEnd
<1>6. left \in Nat  BY <1>4
<1>7. FillerLink' /\ filler'.pc = "idle" /\ filler'.promise = left
  BY <1>3, <1>6, FillingLinks
<1>8. /\ prod = [pc |-> "put", bytes |-> filler.bytes, done |-> filler.moved,
                 promise |-> filler.promise]
      /\ prod' = IdleSeen(left)
  BY <1>1, <1>3, <1>7, ProducerSeen, ProducerSeenNext
<1>9. prod' \in ProdState  BY <1>6, <1>8 DEF ProdState, IdleSeen
<1>10. prod.pc = "put" /\ prod.bytes = filler.bytes /\ prod.done = filler.moved
       /\ prod.promise = filler.promise
  BY <1>8
<1>11. prod' = [prod EXCEPT !.pc = "idle", !.bytes = 0, !.done = 0,
                  !.promise = IF prod.bytes < @ THEN @ - prod.bytes ELSE 0]
  <2>1. prod'.pc = "idle" /\ prod'.bytes = 0 /\ prod'.done = 0
        /\ prod'.promise = IF prod.bytes < prod.promise THEN prod.promise - prod.bytes ELSE 0
    BY <1>8, <1>10 DEF IdleSeen
  <2> QED BY <1>2, <1>9, <2>1 DEF ProdState
<1>12. PutDone
  BY <1>1, <1>3, <1>4, <1>5, <1>10, <1>11 DEF PutDone, segs
<1> QED BY <1>1, <1>3, <1>7, <1>12 DEF Link

LEMMA InfinSegNext ==
  ASSUME RingInv, Link, Viewed', Twin!infin_seg_next
  PROVE  Same /\ Link'
<1>1. /\ UNCHANGED <<buf, head, claimed, next>> /\ FillerLink /\ Viewed /\ Viewed'
  BY DEF Twin!infin_seg_next, Link
<1>2. /\ UNCHANGED <<laid, tail, released, loculi, cons, handed>> /\ DrainerLink' /\ OpenerLink'
      /\ filler.pc = "idle" /\ filler' = [filler EXCEPT !.pc = "seg_next", !.h = claimed]
  BY FillsLeave DEF Twin!infin_seg_next
<1>3. /\ filler' \in FillerState /\ filler'.pc = "seg_next" /\ filler'.h = claimed
      /\ filler'.promise = filler.promise /\ filler'.moved = 0 /\ filler'.done = 0
  <2>1. filler.moved = 0 /\ filler.done = 0 /\ filler \in FillerState
    BY <1>1, <1>2 DEF FillerLink
  <2>2. claimed \in Nat  BY Ranges DEF RingInv
  <2> QED BY <1>2, <2>1, <2>2 DEF FillerState
<1>4. FillerLink'  BY <1>1, <1>3 DEF FillerLink
<1>5. prod' = prod  BY <1>1, <1>2, <1>3, ProducerSeen, ProducerSeenNext
<1> QED BY <1>1, <1>2, <1>4, <1>5, Pauses DEF Link, stream, segs

LEMMA InfinSegNextPick ==
  ASSUME RingInv, Link, Viewed', Twin!infin_seg_next_pick
  PROVE  (SegNext \/ Same) /\ Link'
<1> DEFINE filling == [filler EXCEPT !.pc = "fill", !.idx = Twin!WRAP(filler.h, segment_count)]
<1>1. /\ UNCHANGED <<buf, head, claimed, next>> /\ FillerLink /\ Viewed /\ Viewed'
      /\ filler \in FillerState
  BY DEF Twin!infin_seg_next_pick, Link, FillerLink
<1>2. /\ UNCHANGED <<laid, tail, released, loculi, cons, handed>> /\ DrainerLink' /\ OpenerLink'
      /\ use = "segments" /\ filler.pc = "seg_next"
      /\ filler' = IF (filler.h - released) % 2 ^ Width < segment_count THEN filling
                   ELSE Twin!Filling(filler.promise)
  BY FillsLeave DEF Twin!infin_seg_next_pick
<1>3. /\ filler.h = claimed /\ filler.moved = 0 /\ filler.done = 0 /\ filler.promise \in Nat
      /\ prod = IdleSeen(filler.promise) /\ prod \in ProdState
      /\ segment_count \in Nat \ {0} /\ segment_bytes \in Nat /\ claimed \in Nat
  BY <1>1, <1>2, ProducerSeen, Ranges DEF FillerLink, FillerState, RingInv, Types
<1>4. CASE ~(InFlight < segment_count)
  <2>1. FillerLink' /\ filler'.pc = "idle" /\ filler'.promise = filler.promise
    BY <1>2, <1>3, <1>4, FillingLinks DEF InFlight
  <2>2. prod' = prod  BY <1>1, <1>2, <1>3, <2>1, ProducerSeenNext
  <2> QED BY <1>1, <1>2, <2>1, <2>2, Pauses DEF Link, stream, segs
<1>5. CASE InFlight < segment_count
  <2>1. filler' = filling  BY <1>2, <1>3, <1>5 DEF InFlight
  <2>2. Twin!WRAP(filler.h, segment_count) = Wrap(claimed, segment_count)
        /\ Wrap(claimed, segment_count) \in Nat
    BY <1>3 DEF Twin!WRAP, Wrap
  <2>3. /\ filler' \in FillerState /\ filler'.pc = "fill" /\ filler'.moved = 0
        /\ filler'.idx = Wrap(claimed, segment_count) /\ filler'.promise = filler.promise
    BY <1>1, <1>3, <2>1, <2>2 DEF FillerState
  <2>4. FillerLink'  BY <1>1, <1>2, <2>3 DEF FillerLink, laid
  <2>5. prod' = [pc |-> "fill", bytes |-> segment_bytes, done |-> 0, promise |-> filler.promise]
    BY <1>1, <1>2, <2>3, ProducerSeenNext
  <2>6. prod' \in ProdState  BY <1>3, <2>5 DEF ProdState
  <2>7. prod.pc = "idle" /\ prod'.pc = "fill" /\ prod'.bytes = segment_bytes /\ prod'.done = 0
        /\ prod'.promise = prod.promise
    BY <1>3, <2>5 DEF IdleSeen
  <2>8. prod' = [prod EXCEPT !.pc = "fill", !.bytes = segment_bytes, !.done = 0]
    BY <1>3, <2>6, <2>7 DEF ProdState
  <2>9. SegNext  BY <1>1, <1>2, <1>5, <2>7, <2>8 DEF SegNext, stream, segs
  <2> QED BY <1>1, <1>2, <2>4, <2>9 DEF Link
<1> QED BY <1>4, <1>5

LEMMA InfinSegFill ==
  ASSUME RingInv, Link, Viewed', Twin!infin_seg_fill
  PROVE  SegFill /\ Link'
<1>1. /\ UNCHANGED <<head, claimed, next>> /\ FillerLink /\ Viewed /\ Viewed'
      /\ filler \in FillerState /\ filler.moved < segment_bytes
      /\ buf' = [buf EXCEPT ![filler.idx * segment_bytes + filler.moved]
                              = (next + filler.moved) % Values]
  BY DEF Twin!infin_seg_fill, Twin!infin_seg_at, Link, FillerLink
<1>2. /\ UNCHANGED <<laid, tail, released, loculi, cons, handed>> /\ DrainerLink' /\ OpenerLink'
      /\ filler.pc = "fill" /\ filler' = [filler EXCEPT !.moved = @ + 1]
  BY FillsLeave DEF Twin!infin_seg_fill
<1>3. /\ filler.idx = Wrap(claimed, segment_count) /\ filler.moved \in Nat
      /\ filler.promise \in Nat /\ segment_bytes \in Nat /\ prod \in ProdState
  BY <1>1, <1>2, Ranges DEF FillerLink, FillerState, RingInv, Types
<1>4. /\ filler' \in FillerState /\ filler'.pc = "fill" /\ filler'.moved = filler.moved + 1
      /\ filler'.idx = filler.idx /\ filler'.promise = filler.promise
  <2>1. filler' = [filler EXCEPT !.moved = filler.moved + 1] /\ filler \in FillerState
        /\ filler.moved + 1 \in Nat
    BY <1>1, <1>2, <1>3
  <2> QED BY <1>2, <2>1 DEF FillerState
<1>5. FillerLink'  BY <1>1, <1>2, <1>3, <1>4 DEF FillerLink, laid
<1>6. /\ prod = [pc |-> "fill", bytes |-> segment_bytes, done |-> filler.moved,
                 promise |-> filler.promise]
      /\ prod' = [pc |-> "fill", bytes |-> segment_bytes, done |-> filler.moved + 1,
                  promise |-> filler.promise]
  BY <1>1, <1>2, <1>4, ProducerSeen, ProducerSeenNext
<1>7. prod' \in ProdState  BY <1>3, <1>6 DEF ProdState
<1>8. /\ prod'.pc = prod.pc /\ prod'.bytes = prod.bytes /\ prod'.promise = prod.promise
      /\ prod'.done = prod.done + 1 /\ prod.pc = "fill" /\ prod.done = filler.moved
  BY <1>6
<1>9. prod' = [prod EXCEPT !.done = @ + 1]  BY <1>3, <1>7, <1>8 DEF ProdState
<1>10. SegFill  BY <1>1, <1>2, <1>3, <1>8, <1>9 DEF SegFill, SegAt, stream, segs
<1> QED BY <1>1, <1>2, <1>5, <1>10 DEF Link

LEMMA InfinSegPublish ==
  ASSUME RingInv, Link, Viewed', Twin!infin_seg_publish
  PROVE  SegPublish /\ Link'
<1>1. /\ UNCHANGED <<buf, head>> /\ FillerLink /\ Viewed /\ Viewed' /\ filler \in FillerState
      /\ filler.moved = segment_bytes /\ claimed' = (claimed + 1) % 2 ^ Width
      /\ next' = (next + segment_bytes) % Values
  BY DEF Twin!infin_seg_publish, Link, FillerLink
<1>2. /\ UNCHANGED <<laid, tail, released, loculi, cons, handed>> /\ DrainerLink' /\ OpenerLink'
      /\ filler.pc = "fill" /\ filler' = Twin!Filling(filler.promise)
  BY FillsLeave DEF Twin!infin_seg_publish
<1>3. filler.promise \in Nat /\ prod \in ProdState  BY <1>1 DEF FillerState, RingInv, Types
<1>4. FillerLink' /\ filler'.pc = "idle" /\ filler'.promise = filler.promise
  BY <1>2, <1>3, FillingLinks
<1>5. /\ prod = [pc |-> "fill", bytes |-> segment_bytes, done |-> filler.moved,
                 promise |-> filler.promise]
      /\ prod' = IdleSeen(filler.promise)
  BY <1>1, <1>2, <1>4, ProducerSeen, ProducerSeenNext
<1>6. prod' \in ProdState  BY <1>3, <1>5 DEF ProdState, IdleSeen
<1>7. /\ prod.pc = "fill" /\ prod.done = segment_bytes
      /\ prod'.pc = "idle" /\ prod'.bytes = 0 /\ prod'.done = 0 /\ prod'.promise = prod.promise
  BY <1>1, <1>5 DEF IdleSeen
<1>8. prod' = [prod EXCEPT !.pc = "idle", !.bytes = 0, !.done = 0]
  BY <1>3, <1>6, <1>7 DEF ProdState
<1>9. SegPublish  BY <1>1, <1>2, <1>7, <1>8 DEF SegPublish, stream
<1> QED BY <1>1, <1>2, <1>4, <1>9 DEF Link

----------------------------------------------------------------------------
(* The consumer's side. *)

LEMMA DrainsLeave ==
  ASSUME Link, Viewed', NEW view, NEW pc, NEW to, Twin!Drains(view, pc, to)
  PROVE  /\ UNCHANGED <<laid, buf, head, claimed, loculi, prod, next>>
         /\ FillerLink' /\ OpenerLink' /\ use = view /\ drainer.pc = pc /\ drainer' = to
<1>1. /\ UNCHANGED <<laid, buf, head, claimed, gratis, pinned, keep, opener, filler, next>>
      /\ use = view /\ drainer.pc = pc /\ drainer' = to
  BY DEF Twin!Drains, Twin!laid, Twin!loculi, laid
<1>2. prod' = prod
  BY <1>1 DEF Link, Viewed, Twin!ProducerView, Twin!ring_free, Twin!ring_used, laid
<1>3. holder' = holder /\ keepout' = keepout
  BY <1>1 DEF Link, Viewed, Twin!HolderView, Twin!KeepoutView, Twin!ring_loculus_all
<1>4. FillerLink' /\ OpenerLink'
  BY <1>1 DEF Link, FillerLink, OpenerLink, InRun, Twin!ring_run, laid
<1> QED BY <1>1, <1>2, <1>3, <1>4 DEF loculi

(* What is seen of the consumer, one local state after the other.           *)
IdlingSeen(seen) == [pc |-> "idle", at |-> 0, bytes |-> 0, dst |-> <<>>, seen |-> seen]
CopySeen(pc, at, bytes, dst, seen) ==
  [pc |-> pc, at |-> at, bytes |-> bytes, dst |-> dst, seen |-> seen]

LEMMA ConsumerSeen ==
  ASSUME Viewed
  PROVE  /\ drainer.pc \notin {"byte", "read out", "peek out", "front", "available tail"} =>
              cons = IdlingSeen(drainer.seen)
         /\ drainer.pc = "available tail" => cons = IdlingSeen((drainer.h - tail) % capacity)
         /\ drainer.pc \in {"byte", "read out"} =>
              cons = CopySeen("read", drainer.at, drainer.bytes, drainer.dst, drainer.seen)
         /\ drainer.pc = "peek out" =>
              cons = CopySeen("peek", drainer.at, drainer.bytes, drainer.dst, drainer.seen)
         /\ drainer.pc = "front" =>
              cons = CopySeen("front", drainer.at, segment_bytes, drainer.dst, drainer.seen)
BY DEF Viewed, Twin!ConsumerView, Twin!Copying, Twin!Idling, Twin!ring_used, Twin!WRAP,
       IdlingSeen, CopySeen

LEMMA ConsumerSeenNext ==
  ASSUME Viewed', UNCHANGED laid
  PROVE  /\ drainer'.pc \notin {"byte", "read out", "peek out", "front", "available tail"} =>
              cons' = IdlingSeen(drainer'.seen)
         /\ drainer'.pc = "available tail" => cons' = IdlingSeen((drainer'.h - tail') % capacity)
         /\ drainer'.pc \in {"byte", "read out"} =>
              cons' = CopySeen("read", drainer'.at, drainer'.bytes, drainer'.dst, drainer'.seen)
         /\ drainer'.pc = "peek out" =>
              cons' = CopySeen("peek", drainer'.at, drainer'.bytes, drainer'.dst, drainer'.seen)
         /\ drainer'.pc = "front" =>
              cons' = CopySeen("front", drainer'.at, segment_bytes, drainer'.dst, drainer'.seen)
BY DEF Viewed, Twin!ConsumerView, Twin!Copying, Twin!Idling, Twin!ring_used, Twin!WRAP,
       IdlingSeen, CopySeen, laid

LEMMA SeenTyped ==
  ASSUME NEW seen \in Nat, NEW pc \in {"read", "peek", "front"}, NEW at \in Nat,
         NEW bytes \in Nat, NEW dst \in Seq(Byte)
  PROVE  IdlingSeen(seen) \in ConsState /\ CopySeen(pc, at, bytes, dst, seen) \in ConsState
BY DEF IdlingSeen, CopySeen, ConsState

LEMMA IdleSees ==
  ASSUME NEW p, NEW q, cons = IdlingSeen(p), cons' = IdlingSeen(q)
  PROVE  cons.pc = "idle" /\ cons' = [cons EXCEPT !.seen = q]
BY DEF IdlingSeen

(* A copy out begins, takes a byte, ends. *)
LEMMA CopyBegins ==
  ASSUME NEW pc \in {"read", "peek", "front"}, NEW at \in Nat, NEW bytes \in Nat, NEW seen \in Nat,
         cons = IdlingSeen(seen), cons' = CopySeen(pc, at, bytes, <<>>, seen)
  PROVE  /\ cons \in ConsState /\ cons' \in ConsState
         /\ cons.pc = "idle" /\ cons.seen = seen /\ cons'.pc = pc /\ cons'.at = at
         /\ cons'.bytes = bytes /\ cons'.dst = <<>> /\ cons'.seen = cons.seen
<1>1. <<>> \in Seq(Byte)  OBVIOUS
<1>2. cons \in ConsState /\ cons' \in ConsState  BY <1>1, SeenTyped
<1> QED BY <1>2 DEF IdlingSeen, CopySeen

LEMMA CopyGoesOn ==
  ASSUME NEW pc \in {"read", "peek", "front"}, NEW at, NEW bytes, NEW seen, NEW dst, NEW to,
         cons = CopySeen(pc, at, bytes, dst, seen), cons' = CopySeen(pc, at, bytes, to, seen)
  PROVE  /\ cons.pc = pc /\ cons.at = at /\ cons.bytes = bytes /\ cons.dst = dst
         /\ cons' = [cons EXCEPT !.dst = to]
BY DEF CopySeen

LEMMA CopyEnds ==
  ASSUME NEW pc \in {"read", "peek", "front"}, NEW at \in Nat, NEW bytes \in Nat, NEW seen \in Nat,
         NEW dst \in Seq(Byte), NEW left \in Nat,
         cons = CopySeen(pc, at, bytes, dst, seen), cons' = IdlingSeen(left)
  PROVE  /\ cons.pc = pc /\ cons.at = at /\ cons.bytes = bytes /\ cons.dst = dst
         /\ cons.seen = seen
         /\ cons' = [cons EXCEPT !.pc = "idle", !.at = 0, !.bytes = 0, !.dst = <<>>, !.seen = left]
         /\ left = seen =>
              cons' = [cons EXCEPT !.pc = "idle", !.at = 0, !.bytes = 0, !.dst = <<>>]
<1>1. cons \in ConsState /\ cons' \in ConsState  BY SeenTyped
<1>2. /\ cons.pc = pc /\ cons.at = at /\ cons.bytes = bytes /\ cons.dst = dst
      /\ cons.seen = seen /\ cons'.pc = "idle" /\ cons'.at = 0 /\ cons'.bytes = 0
      /\ cons'.dst = <<>> /\ cons'.seen = left
  BY DEF IdlingSeen, CopySeen
<1>3. cons' = [cons EXCEPT !.pc = "idle", !.at = 0, !.bytes = 0, !.dst = <<>>, !.seen = left]
  BY <1>1, <1>2 DEF ConsState
<1>4. ASSUME left = seen
      PROVE  cons' = [cons EXCEPT !.pc = "idle", !.at = 0, !.bytes = 0, !.dst = <<>>]
  <2>1. cons'.seen = cons.seen  BY <1>2, <1>4
  <2> QED BY <1>1, <1>2, <2>1 DEF ConsState
<1> QED BY <1>2, <1>3, <1>4

LEMMA DrainingLinks ==
  ASSUME NEW seen \in Nat, drainer' = Twin!Draining(seen)
  PROVE  DrainerLink' /\ drainer'.pc = "idle" /\ drainer'.seen = seen
BY DEF DrainerLink, DrainerState, Twin!Draining

LEMMA OffsetsNat ==
  ASSUME RingInv
  PROVE  tail \in Nat /\ head \in Nat /\ released \in Nat /\ capacity \in Nat /\ segment_bytes \in Nat
BY Ranges DEF RingInv

LEMMA PlaceNat == ASSUME capacity \in Nat, NEW at \in 0 .. capacity - 1 PROVE at \in Nat
OBVIOUS

(* A load of the consumer's own offset.                                    *)
LEMMA TailLoaded ==
  ASSUME RingInv, Link, Viewed', NEW pc \in {"available head", "read", "read_byte"},
         Twin!Drains("stream", "idle", [drainer EXCEPT !.pc = pc, !.at = tail]),
         UNCHANGED <<tail, released, handed>>
  PROVE  Same /\ Link'
<1>0. tail \in Nat  BY OffsetsNat
<1>1. DrainerLink /\ Viewed /\ Viewed'  BY DEF Link
<1>2. /\ UNCHANGED <<laid, buf, head, claimed, loculi, prod, next>> /\ FillerLink' /\ OpenerLink'
      /\ drainer.pc = "idle" /\ drainer' = [drainer EXCEPT !.pc = pc, !.at = tail]
  BY DrainsLeave
<1>3. /\ drainer' \in DrainerState /\ drainer'.pc = pc /\ drainer'.at = tail
      /\ drainer'.seen = drainer.seen /\ drainer'.dst = <<>> /\ drainer'.done = 0
  <2>1. drainer \in DrainerState /\ drainer.dst = <<>> /\ drainer.done = 0
    BY <1>1, <1>2 DEF DrainerLink
  <2> QED BY <1>0, <1>2, <2>1 DEF DrainerState
<1>4. DrainerLink'  BY <1>3 DEF DrainerLink
<1>5. cons' = cons  BY <1>1, <1>2, <1>3, ConsumerSeen, ConsumerSeenNext
<1> QED BY <1>1, <1>2, <1>4, <1>5, Pauses DEF Link, stream, segs

LEMMA InfinAvailable ==
  ASSUME RingInv, Link, Viewed', Twin!infin_available
  PROVE  (Available \/ Same) /\ Link'
<1>1. UNCHANGED <<tail, released, handed>>  BY DEF Twin!infin_available
<1>2. /\ DrainerLink /\ Viewed /\ Viewed' /\ drainer \in DrainerState /\ cons \in ConsState
      /\ capacity \in Nat \ {0} /\ head \in 0 .. capacity - 1 /\ tail \in 0 .. capacity - 1
  BY Ranges DEF Link, DrainerLink, RingInv, Types
<1>3. Used = (head - tail) % capacity /\ Used \in Nat
  BY <1>2, UsedIs DEF Used, Wrap
<1>4. CASE Twin!Drains("stream", "idle", [drainer EXCEPT !.pc = "available head", !.at = tail])
  BY <1>1, <1>4, TailLoaded
<1>5. CASE Twin!Drains("stream", "idle", [drainer EXCEPT !.pc = "available tail", !.h = head])
  <2>1. /\ UNCHANGED <<laid, buf, head, claimed, loculi, prod, next>> /\ FillerLink' /\ OpenerLink'
        /\ drainer.pc = "idle" /\ drainer' = [drainer EXCEPT !.pc = "available tail", !.h = head]
        /\ use = "stream"
    BY <1>2, <1>5, DrainsLeave
  <2>a. /\ drainer' \in DrainerState /\ drainer'.pc = "available tail" /\ drainer'.h = head
        /\ drainer'.dst = <<>> /\ drainer'.done = 0
    <3>1. drainer.dst = <<>> /\ drainer.done = 0  BY <1>2, <2>1 DEF DrainerLink
    <3>2. head \in Nat /\ drainer \in DrainerState  BY <1>2
    <3> QED BY <2>1, <3>1, <3>2 DEF DrainerState
  <2>2. DrainerLink'  BY <2>a DEF DrainerLink
  <2>3. cons = IdlingSeen(drainer.seen) /\ cons' = IdlingSeen(Used)
    BY <1>1, <1>2, <1>3, <2>1, <2>a, ConsumerSeen, ConsumerSeenNext
  <2>4. Available  BY <1>1, <2>1, <2>3, IdleSees DEF Available, stream, segs
  <2> QED BY <1>2, <2>1, <2>2, <2>4 DEF Link
<1>6. CASE Twin!Drains("stream", "available head", Twin!Draining(Twin!ring_used(head, drainer.at)))
  <2>1. /\ UNCHANGED <<laid, buf, head, claimed, loculi, prod, next>> /\ FillerLink' /\ OpenerLink'
        /\ drainer.pc = "available head"
        /\ drainer' = Twin!Draining(Twin!ring_used(head, drainer.at))
        /\ use = "stream"
    BY <1>2, <1>6, DrainsLeave
  <2>2. drainer' = Twin!Draining(Used)
    BY <1>2, <1>3, <2>1 DEF DrainerLink, Twin!ring_used, Twin!WRAP
  <2>3. DrainerLink' /\ drainer'.pc = "idle" /\ drainer'.seen = Used
    BY <1>3, <2>2, DrainingLinks
  <2>4. cons = IdlingSeen(drainer.seen) /\ cons' = IdlingSeen(Used)
    BY <1>2, <2>1, <2>3, ConsumerSeen, ConsumerSeenNext
  <2>5. Available  BY <1>1, <2>1, <2>4, IdleSees DEF Available, stream, segs
  <2> QED BY <1>2, <2>1, <2>3, <2>5 DEF Link
<1>7. CASE Twin!Drains("stream", "available tail", Twin!Draining(Twin!ring_used(drainer.h, tail)))
  <2> DEFINE used == (drainer.h - tail) % capacity
  <2>1. /\ UNCHANGED <<laid, buf, head, claimed, loculi, prod, next>> /\ FillerLink' /\ OpenerLink'
        /\ drainer.pc = "available tail" /\ drainer' = Twin!Draining(used)
    BY <1>2, <1>7, DrainsLeave DEF Twin!ring_used, Twin!WRAP
  <2>2. cons = IdlingSeen(used)  BY <1>2, <2>1, ConsumerSeen
  <2>3. used \in Nat  BY <1>2, <2>2 DEF ConsState, IdlingSeen
  <2> HIDE DEF used
  <2>4. DrainerLink' /\ drainer'.pc = "idle" /\ drainer'.seen = used
    BY <2>1, <2>3, DrainingLinks
  <2>5. cons' = cons  BY <1>2, <2>1, <2>2, <2>4, ConsumerSeenNext
  <2> QED BY <1>1, <1>2, <2>1, <2>4, <2>5, Pauses DEF Link, stream, segs
<1> QED BY <1>4, <1>5, <1>6, <1>7 DEF Twin!infin_available

LEMMA InfinReadByte ==
  ASSUME RingInv, Link, Viewed', Twin!infin_read_byte
  PROVE  Same /\ Link'
BY TailLoaded DEF Twin!infin_read_byte

LEMMA InfinRead ==
  ASSUME RingInv, Link, Viewed', Twin!infin_read
  PROVE  Same /\ Link'
BY TailLoaded DEF Twin!infin_read

LEMMA InfinReadByteAny ==
  ASSUME RingInv, Link, Viewed', Twin!infin_read_byte_any
  PROVE  (ReadByte \/ Same) /\ Link'
<1> DEFINE taking == [drainer EXCEPT !.pc = "byte", !.bytes = 1]
<1>1. /\ UNCHANGED <<tail, released, handed>> /\ DrainerLink /\ Viewed /\ Viewed'
      /\ drainer \in DrainerState
  BY DEF Twin!infin_read_byte_any, Link, DrainerLink
<1>2. /\ capacity \in Nat \ {0} /\ head \in 0 .. capacity - 1 /\ tail \in 0 .. capacity - 1
      /\ tail \in Nat
  BY Ranges DEF RingInv
<1>3. /\ UNCHANGED <<laid, buf, head, claimed, loculi, prod, next>> /\ FillerLink' /\ OpenerLink'
      /\ use = "stream" /\ drainer.pc = "read_byte"
      /\ drainer' = IF drainer.at = head THEN Twin!Draining(drainer.seen) ELSE taking
  BY DrainsLeave DEF Twin!infin_read_byte_any
<1>4. /\ drainer.at = tail /\ drainer.dst = <<>> /\ drainer.done = 0 /\ drainer.seen \in Nat
      /\ cons = IdlingSeen(drainer.seen)
  BY <1>1, <1>3, ConsumerSeen DEF DrainerLink, DrainerState
<1>5. CASE tail = head
  <2>1. DrainerLink' /\ drainer'.pc = "idle" /\ drainer'.seen = drainer.seen
    BY <1>3, <1>4, <1>5, DrainingLinks
  <2>2. cons' = cons  BY <1>1, <1>3, <1>4, <2>1, ConsumerSeenNext
  <2> QED BY <1>1, <1>3, <2>1, <2>2, Pauses DEF Link, stream, segs
<1>6. CASE tail # head
  <2>1. drainer' = taking  BY <1>3, <1>4, <1>6
  <2>2. /\ drainer' \in DrainerState /\ drainer'.pc = "byte" /\ drainer'.bytes = 1
        /\ drainer'.at = tail /\ drainer'.dst = <<>> /\ drainer'.seen = drainer.seen
    BY <1>1, <1>4, <2>1 DEF DrainerState
  <2>3. DrainerLink'
    <3>1. Len(<<>>) <= 1  OBVIOUS
    <3> QED BY <1>1, <2>2, <3>1 DEF DrainerLink
  <2>4. cons' = CopySeen("read", tail, 1, <<>>, drainer.seen)
    BY <1>1, <1>3, <2>2, ConsumerSeenNext
  <2>5. ~(Used < 1)  BY <1>2, <1>6, UsedIs DEF Past
  <2>6. /\ cons \in ConsState /\ cons' \in ConsState /\ cons.pc = "idle" /\ cons'.pc = "read"
        /\ cons'.at = tail /\ cons'.bytes = 1 /\ cons'.dst = <<>> /\ cons'.seen = cons.seen
    BY <1>2, <1>4, <2>4, CopyBegins
  <2>a. cons' = [cons EXCEPT !.pc = "read", !.at = tail, !.dst = <<>>, !.bytes = 1]
    BY <2>6 DEF ConsState
  <2>7. Read(1)  BY <1>1, <1>3, <2>5, <2>6, <2>a DEF Read, stream, segs
  <2> QED BY <1>1, <1>3, <1>6, <2>3, <2>7 DEF Link, ReadByte
<1> QED BY <1>5, <1>6

LEMMA InfinReadByteCopy ==
  ASSUME RingInv, Link, Viewed', Twin!infin_read_byte_copy
  PROVE  MoveOut /\ Link'
<1> DEFINE byte == buf[tail]
<1>1. /\ UNCHANGED <<tail, released, handed>> /\ DrainerLink /\ Viewed /\ Viewed'
      /\ drainer \in DrainerState /\ drainer.dst = <<>>
  BY DEF Twin!infin_read_byte_copy, Link, DrainerLink
<1>2. capacity \in Nat \ {0} /\ tail \in 0 .. capacity - 1 /\ byte \in Byte
  <2>1. capacity \in Nat \ {0} /\ tail \in 0 .. capacity - 1  BY Ranges DEF RingInv
  <2>2. buf \in [DOMAIN buf -> Byte] /\ 0 .. capacity - 1 \subseteq DOMAIN buf
    BY DEF RingInv, Types
  <2> QED BY <2>1, <2>2
<1>3. /\ UNCHANGED <<laid, buf, head, claimed, loculi, prod, next>> /\ FillerLink' /\ OpenerLink'
      /\ use = "stream" /\ drainer.pc = "byte"
      /\ drainer' = [drainer EXCEPT !.dst = <<buf[drainer.at]>>]
  BY DrainsLeave DEF Twin!infin_read_byte_copy
<1>4. /\ drainer.at = tail /\ drainer.bytes = 1
      /\ cons = CopySeen("read", tail, 1, <<>>, drainer.seen)
  BY <1>1, <1>3, ConsumerSeen DEF DrainerLink
<1> HIDE DEF byte
<1>5. /\ drainer' \in DrainerState /\ drainer'.pc = "byte" /\ drainer'.at = tail
      /\ drainer'.bytes = 1 /\ drainer'.dst = <<byte>> /\ drainer'.seen = drainer.seen
  <2>1. <<byte>> \in Seq(Byte)  BY <1>2
  <2>2. drainer' = [drainer EXCEPT !.dst = <<byte>>]  BY <1>3, <1>4 DEF byte
  <2> QED BY <1>1, <1>3, <1>4, <2>1, <2>2 DEF DrainerState
<1>6. DrainerLink'
  <2>1. Len(<<byte>>) <= 1  OBVIOUS
  <2> QED BY <1>1, <1>5, <2>1 DEF DrainerLink
<1>7. cons' = CopySeen("read", tail, 1, <<byte>>, drainer.seen)
  BY <1>1, <1>3, <1>5, ConsumerSeenNext
<1>8. /\ cons.pc = "read" /\ cons.at = tail /\ cons.bytes = 1 /\ cons.dst = <<>>
      /\ cons' = [cons EXCEPT !.dst = <<byte>>]
  BY <1>4, <1>7, CopyGoesOn
<1>9. Len(<<>>) = 0 /\ Append(<<>>, byte) = <<byte>>  OBVIOUS
<1>10. RunAt(tail, 1, 0) = tail /\ 0 < RunCarries(1)  BY <1>2 DEF RunAt, RunCarries
<1>11. cons' = [cons EXCEPT !.dst = Append(@, buf[RunAt(cons.at, cons.bytes, Len(@))])]
  BY <1>8, <1>9, <1>10 DEF byte
<1>12. MoveOut  BY <1>1, <1>3, <1>8, <1>9, <1>10, <1>11 DEF MoveOut, stream, segs
<1> QED BY <1>1, <1>3, <1>6, <1>12 DEF Link

LEMMA InfinReadByteDone ==
  ASSUME RingInv, Link, Viewed', Twin!infin_read_byte_done
  PROVE  ReadDone /\ Link'
<1> DEFINE left == IF 1 < drainer.seen THEN drainer.seen - 1 ELSE 0
<1>1. /\ UNCHANGED <<released>> /\ DrainerLink /\ Viewed /\ Viewed'
      /\ drainer \in DrainerState /\ drainer.dst # <<>> /\ handed' = drainer.dst
      /\ tail' = Wrap(drainer.at + 1, capacity)
  BY DEF Twin!infin_read_byte_done, Link, DrainerLink, Twin!WRAP, Wrap
<1>2. capacity \in Nat \ {0} /\ tail \in 0 .. capacity - 1 /\ tail \in Nat
  BY Ranges DEF RingInv
<1>3. /\ UNCHANGED <<laid, buf, head, claimed, loculi, prod, next>> /\ FillerLink' /\ OpenerLink'
      /\ use = "stream" /\ drainer.pc = "byte" /\ drainer' = Twin!Draining(left)
  BY DrainsLeave DEF Twin!infin_read_byte_done, Twin!Left
<1>4. /\ drainer.at = tail /\ drainer.bytes = 1 /\ drainer.dst \in Seq(Byte)
      /\ Len(drainer.dst) <= 1 /\ drainer.seen \in Nat
      /\ cons = CopySeen("read", tail, 1, drainer.dst, drainer.seen)
  BY <1>1, <1>3, ConsumerSeen DEF DrainerLink, DrainerState
<1>5. Len(drainer.dst) = 1 /\ RunCarries(1) = 1
  <2>1. Len(drainer.dst) \in Nat /\ Len(drainer.dst) # 0  BY <1>1, <1>4, EmptySeq
  <2>2. RunCarries(1) = 1  BY <1>2 DEF RunCarries
  <2> DEFINE l == Len(drainer.dst)
  <2>3. l \in Nat /\ l # 0 /\ l <= 1  BY <1>4, <2>1
  <2> HIDE DEF l
  <2>4. l = 1  BY <2>3
  <2> QED BY <2>2, <2>4 DEF l
<1>6. left \in Nat  BY <1>4
<1>7. DrainerLink' /\ drainer'.pc = "idle" /\ drainer'.seen = left  BY <1>3, <1>6, DrainingLinks
<1> HIDE DEF left
<1>8. cons' = IdlingSeen(left)  BY <1>1, <1>3, <1>7, ConsumerSeenNext
<1>9. /\ cons.pc = "read" /\ cons.bytes = 1 /\ cons.dst = drainer.dst
      /\ cons.seen = drainer.seen
      /\ cons' = [cons EXCEPT !.pc = "idle", !.at = 0, !.bytes = 0, !.dst = <<>>, !.seen = left]
  BY <1>2, <1>4, <1>6, <1>8, CopyEnds
<1>10. left = IF cons.bytes < cons.seen THEN cons.seen - cons.bytes ELSE 0
  BY <1>9 DEF left
<1>11. cons' = [cons EXCEPT !.pc = "idle", !.at = 0, !.bytes = 0, !.dst = <<>>,
                  !.seen = IF cons.bytes < @ THEN @ - cons.bytes ELSE 0]
  BY <1>9, <1>10
<1>12. ReadDone
  BY <1>1, <1>3, <1>4, <1>5, <1>9, <1>11 DEF ReadDone, segs
<1> QED BY <1>1, <1>3, <1>7, <1>12 DEF Link

(* The first pass of a copy out.                                           *)
LEMMA MoveOutBegins ==
  ASSUME RingInv, drainer \in DrainerState, drainer.dst = <<>>, drainer.done = 0,
         NEW call \in {"read out", "peek out"}, NEW at \in 0 .. capacity - 1, NEW want \in Nat,
         UNCHANGED <<laid, tail>>, call = "read out" => at = tail,
         NEW to, drainer' = to, to = Twin!MoveOutOf(call, at, want)
  PROVE  /\ DrainerLink' /\ drainer'.pc = call /\ drainer'.at = at /\ drainer'.bytes = want
         /\ drainer'.dst = <<>> /\ drainer'.seen = drainer.seen
<1> DEFINE first == Twin!ring_run(at, want).first
           g == [drainer EXCEPT !.pc = call, !.at = at, !.bytes = want]
<1>1. capacity \in Nat \ {0} /\ at \in Nat /\ tail \in Nat
  <2>1. capacity \in Nat \ {0} /\ tail \in Nat  BY OffsetsNat, Ranges DEF RingInv
  <2> QED BY <2>1, PlaceNat
<1>2. first \in Nat /\ InRun(at, want, at, first, 0, 0)  BY <1>1, RunBegins
<1>3. drainer' = [g EXCEPT !.from = at, !.n = first]  BY DEF Twin!MoveOutOf
<1> HIDE DEF first
<1>4. /\ g \in DrainerState /\ g.pc = call /\ g.at = at /\ g.bytes = want /\ g.dst = <<>>
      /\ g.done = 0 /\ g.seen = drainer.seen
  BY <1>1 DEF DrainerState
<1> HIDE DEF g
<1>5. /\ drainer' \in DrainerState /\ drainer'.pc = call /\ drainer'.at = at
      /\ drainer'.bytes = want /\ drainer'.dst = <<>> /\ drainer'.done = 0
      /\ drainer'.seen = drainer.seen /\ drainer'.from = at /\ drainer'.n = first
  BY <1>1, <1>2, <1>3, <1>4 DEF DrainerState
<1>6. Len(drainer'.dst) = 0  BY <1>5
<1>7. InRun(drainer.at, drainer.bytes, drainer.from, drainer.n, drainer.done, Len(drainer.dst))'
  BY <1>2, <1>5, <1>6 DEF InRun, Twin!ring_run, laid
<1>8. DrainerLink'  BY <1>5, <1>7 DEF DrainerLink
<1> QED BY <1>5, <1>8

LEMMA InfinReadHave ==
  ASSUME RingInv, Link, Viewed', NEW bytes \in 0 .. CapacityMost, Twin!infin_read_have(bytes)
  PROVE  Read(bytes) /\ Link'
<1> DEFINE least == IF Used < bytes THEN Used ELSE bytes
           to == Twin!MoveOutOf("read out", drainer.at,
                   IF Twin!ring_used(head, drainer.at) < bytes
                   THEN Twin!ring_used(head, drainer.at) ELSE bytes)
<1>1. /\ UNCHANGED <<tail, released, handed>> /\ DrainerLink /\ Viewed /\ Viewed'
      /\ drainer \in DrainerState
  BY DEF Twin!infin_read_have, Link, DrainerLink
<1>2. /\ capacity \in Nat \ {0} /\ head \in 0 .. capacity - 1 /\ tail \in 0 .. capacity - 1
      /\ bytes \in Nat
  BY Ranges, Constants DEF RingInv
<1>3. /\ UNCHANGED <<laid, buf, head, claimed, loculi, prod, next>> /\ FillerLink' /\ OpenerLink'
      /\ use = "stream" /\ drainer.pc = "read" /\ drainer' = to
  <2>1. Twin!Drains("stream", "read", to)  BY DEF Twin!infin_read_have
  <2> HIDE DEF to
  <2> QED BY <1>1, <2>1, DrainsLeave
<1>4. /\ drainer.at = tail /\ drainer.dst = <<>> /\ drainer.done = 0 /\ drainer.seen \in Nat
      /\ cons = IdlingSeen(drainer.seen)
  BY <1>1, <1>3, ConsumerSeen DEF DrainerLink, DrainerState
<1>5. Twin!ring_used(head, drainer.at) = Used /\ least \in Nat
  BY <1>2, <1>4, UsedIs DEF Twin!ring_used, Twin!WRAP, Used, Wrap
<1>6. to = Twin!MoveOutOf("read out", tail, least)  BY <1>4, <1>5
<1> HIDE DEF to, least
<1>7. /\ DrainerLink' /\ drainer'.pc = "read out" /\ drainer'.at = tail /\ drainer'.bytes = least
      /\ drainer'.dst = <<>> /\ drainer'.seen = drainer.seen
  BY <1>1, <1>2, <1>3, <1>4, <1>5, <1>6, MoveOutBegins
<1>8. cons' = CopySeen("read", tail, least, <<>>, drainer.seen)
  BY <1>1, <1>3, <1>7, ConsumerSeenNext
<1>9. /\ cons \in ConsState /\ cons' \in ConsState /\ cons.pc = "idle" /\ cons'.pc = "read"
      /\ cons'.at = tail /\ cons'.bytes = least /\ cons'.dst = <<>> /\ cons'.seen = cons.seen
  BY <1>4, <1>5, <1>8, OffsetsNat, CopyBegins
<1>10. cons' = [cons EXCEPT !.pc = "read", !.at = tail, !.dst = <<>>, !.bytes = least]
  BY <1>9 DEF ConsState
<1>11. Read(bytes)  BY <1>1, <1>3, <1>9, <1>10 DEF Read, least, stream, segs
<1> QED BY <1>1, <1>3, <1>7, <1>11 DEF Link

LEMMA InfinPeek ==
  ASSUME RingInv, Link, Viewed', NEW off \in 0 .. CapacityMost, NEW bytes \in 0 .. CapacityMost,
         Twin!infin_peek(off, bytes)
  PROVE  Peek(off, bytes) /\ Link'
<1> DEFINE at == Wrap(tail + off, capacity)
           to == Twin!MoveOutOf("peek out", Twin!WRAP(tail + off, capacity), bytes)
<1>1. /\ UNCHANGED <<tail, released, handed>> /\ DrainerLink /\ Viewed /\ Viewed'
      /\ drainer \in DrainerState /\ off + bytes <= drainer.seen
  BY DEF Twin!infin_peek, Link, DrainerLink
<1>2. /\ capacity \in Nat \ {0} /\ tail \in 0 .. capacity - 1
      /\ bytes \in Nat /\ off \in Nat
  BY Ranges, Constants DEF RingInv
<1>3. /\ UNCHANGED <<laid, buf, head, claimed, loculi, prod, next>> /\ FillerLink' /\ OpenerLink'
      /\ use = "stream" /\ drainer.pc = "idle" /\ drainer' = to
  BY DrainsLeave DEF Twin!infin_peek
<1>4. /\ drainer.dst = <<>> /\ drainer.done = 0 /\ drainer.seen \in Nat
      /\ cons = IdlingSeen(drainer.seen)
  BY <1>1, <1>3, ConsumerSeen DEF DrainerLink, DrainerState
<1>5. at \in 0 .. capacity - 1 /\ at \in Nat
  <2>1. at \in 0 .. capacity - 1  BY <1>2 DEF Wrap
  <2> QED BY <1>2, <2>1
<1>6. to = Twin!MoveOutOf("peek out", at, bytes)  BY DEF Twin!WRAP, Wrap
<1> HIDE DEF to, at
<1>7. /\ DrainerLink' /\ drainer'.pc = "peek out" /\ drainer'.at = at /\ drainer'.bytes = bytes
      /\ drainer'.dst = <<>> /\ drainer'.seen = drainer.seen
  BY <1>1, <1>2, <1>3, <1>4, <1>5, <1>6, MoveOutBegins
<1>8. cons' = CopySeen("peek", at, bytes, <<>>, drainer.seen)
  BY <1>1, <1>3, <1>7, ConsumerSeenNext
<1>9. /\ cons \in ConsState /\ cons' \in ConsState /\ cons.pc = "idle" /\ cons'.pc = "peek"
      /\ cons'.at = at /\ cons'.bytes = bytes /\ cons'.dst = <<>> /\ cons'.seen = cons.seen
      /\ cons.seen = drainer.seen
  BY <1>2, <1>4, <1>5, <1>8, CopyBegins
<1>10. cons' = [cons EXCEPT !.pc = "peek", !.at = at, !.bytes = bytes, !.dst = <<>>]
  BY <1>9 DEF ConsState
<1>11. Peek(off, bytes)  BY <1>1, <1>3, <1>9, <1>10 DEF Peek, at, stream, segs
<1> QED BY <1>1, <1>3, <1>7, <1>11 DEF Link

LEMMA InfinPeekDone ==
  ASSUME RingInv, Link, Viewed', Twin!infin_peek_done
  PROVE  PeekDone /\ Link'
<1>1. /\ UNCHANGED <<tail, released>> /\ DrainerLink /\ Viewed /\ Viewed'
      /\ drainer \in DrainerState /\ handed' = drainer.dst
      /\ drainer.done >= Twin!ring_run(drainer.at, drainer.bytes).n
  BY DEF Twin!infin_peek_done, Link, DrainerLink
<1>2. /\ UNCHANGED <<laid, buf, head, claimed, loculi, prod, next>> /\ FillerLink' /\ OpenerLink'
      /\ use = "stream" /\ drainer.pc = "peek out" /\ drainer' = Twin!Draining(drainer.seen)
  BY DrainsLeave DEF Twin!infin_peek_done
<1>3. /\ drainer.at \in Nat /\ drainer.bytes \in Nat /\ drainer.dst \in Seq(Byte)
      /\ drainer.seen \in Nat /\ drainer.from \in Nat /\ drainer.n \in Nat /\ drainer.done \in Nat
      /\ InRun(drainer.at, drainer.bytes, drainer.from, drainer.n, drainer.done, Len(drainer.dst))
  BY <1>1, <1>2 DEF DrainerLink, DrainerState
<1>4. cons = CopySeen("peek", drainer.at, drainer.bytes, drainer.dst, drainer.seen)
  BY <1>1, <1>2, ConsumerSeen
<1>5. DrainerLink' /\ drainer'.pc = "idle" /\ drainer'.seen = drainer.seen
  BY <1>2, <1>3, DrainingLinks
<1>6. cons' = IdlingSeen(drainer.seen)  BY <1>1, <1>2, <1>5, ConsumerSeenNext
<1>7. /\ cons.pc = "peek" /\ cons.at = drainer.at /\ cons.bytes = drainer.bytes
      /\ cons.dst = drainer.dst
      /\ cons' = [cons EXCEPT !.pc = "idle", !.at = 0, !.bytes = 0, !.dst = <<>>]
  BY <1>3, <1>4, <1>6, CopyEnds
<1>8. drainer.at \in 0 .. capacity - 1 /\ capacity \in Nat \ {0}
  BY <1>7, Ranges DEF RingInv, Streaming
<1>9. Len(drainer.dst) = RunCarries(drainer.bytes)
  <2>1. Len(drainer.dst) \in Nat  BY <1>3
  <2> QED BY <1>1, <1>3, <1>8, <2>1, RunEnd
<1>10. PeekDone  BY <1>1, <1>2, <1>7, <1>9 DEF PeekDone, stream, segs
<1> QED BY <1>1, <1>2, <1>5, <1>10 DEF Link

LEMMA InfinReadDone ==
  ASSUME RingInv, Link, Viewed', Twin!infin_read_done
  PROVE  ReadDone /\ Link'
<1> DEFINE left == IF drainer.bytes < drainer.seen THEN drainer.seen - drainer.bytes ELSE 0
<1>1. /\ UNCHANGED released /\ DrainerLink /\ Viewed /\ Viewed'
      /\ drainer \in DrainerState /\ handed' = drainer.dst
      /\ drainer.done >= Twin!ring_run(drainer.at, drainer.bytes).n
      /\ tail' = Wrap(drainer.at + Twin!ring_run(drainer.at, drainer.bytes).n, capacity)
  BY DEF Twin!infin_read_done, Link, DrainerLink, Twin!WRAP, Wrap
<1>2. /\ UNCHANGED <<laid, buf, head, claimed, loculi, prod, next>> /\ FillerLink' /\ OpenerLink'
      /\ use = "stream" /\ drainer.pc = "read out" /\ drainer' = Twin!Draining(left)
  <2>1. Twin!Drains("stream", "read out", Twin!Draining(left))
    BY DEF Twin!infin_read_done, Twin!Left
  <2> HIDE DEF left
  <2> QED BY <1>1, <2>1, DrainsLeave
<1>3. /\ drainer.at = tail /\ drainer.bytes \in Nat /\ drainer.dst \in Seq(Byte)
      /\ drainer.seen \in Nat /\ drainer.from \in Nat /\ drainer.n \in Nat /\ drainer.done \in Nat
      /\ InRun(tail, drainer.bytes, drainer.from, drainer.n, drainer.done, Len(drainer.dst))
  BY <1>1, <1>2 DEF DrainerLink, DrainerState
<1>4. cons = CopySeen("read", tail, drainer.bytes, drainer.dst, drainer.seen)
  BY <1>1, <1>2, <1>3, ConsumerSeen
<1>5. left \in Nat  BY <1>3
<1>6. DrainerLink' /\ drainer'.pc = "idle" /\ drainer'.seen = left  BY <1>2, <1>5, DrainingLinks
<1> HIDE DEF left
<1>7. cons' = IdlingSeen(left)  BY <1>1, <1>2, <1>6, ConsumerSeenNext
<1>8. /\ cons.pc = "read" /\ cons.bytes = drainer.bytes /\ cons.dst = drainer.dst
      /\ cons.seen = drainer.seen
      /\ cons' = [cons EXCEPT !.pc = "idle", !.at = 0, !.bytes = 0, !.dst = <<>>, !.seen = left]
  BY <1>3, <1>4, <1>5, <1>7, OffsetsNat, CopyEnds
<1>9. tail \in 0 .. capacity - 1 /\ capacity \in Nat \ {0}
  BY Ranges DEF RingInv
<1>10. /\ Len(drainer.dst) = RunCarries(drainer.bytes)
       /\ Twin!ring_run(drainer.at, drainer.bytes).n = RunCarries(drainer.bytes)
  <2>1. Len(drainer.dst) \in Nat  BY <1>3
  <2> QED BY <1>1, <1>3, <1>9, <2>1, RunEnd
<1>11. cons' = [cons EXCEPT !.pc = "idle", !.at = 0, !.bytes = 0, !.dst = <<>>,
                  !.seen = IF cons.bytes < @ THEN @ - cons.bytes ELSE 0]
  BY <1>8 DEF left
<1>12. ReadDone
  BY <1>1, <1>2, <1>3, <1>8, <1>10, <1>11 DEF ReadDone, segs
<1> QED BY <1>1, <1>2, <1>6, <1>12 DEF Link

LEMMA InfinConsume ==
  ASSUME RingInv, Link, Viewed', NEW bytes \in 0 .. CapacityMost, Twin!infin_consume(bytes)
  PROVE  Consume(bytes) /\ Link'
<1> DEFINE left == drainer.seen - bytes
<1>1. /\ UNCHANGED <<released, handed>> /\ DrainerLink /\ Viewed /\ Viewed'
      /\ drainer \in DrainerState /\ bytes <= drainer.seen
      /\ tail' = Wrap(tail + bytes, capacity)
  BY DEF Twin!infin_consume, Link, DrainerLink, Twin!WRAP, Wrap
<1>2. /\ UNCHANGED <<laid, buf, head, claimed, loculi, prod, next>> /\ FillerLink' /\ OpenerLink'
      /\ use = "stream" /\ drainer.pc = "idle" /\ drainer' = Twin!Draining(left)
  BY DrainsLeave DEF Twin!infin_consume
<1>3. drainer.seen \in Nat /\ cons = IdlingSeen(drainer.seen) /\ bytes \in Nat
  <2>1. drainer.seen \in Nat  BY <1>1 DEF DrainerState
  <2>2. cons = IdlingSeen(drainer.seen)  BY <1>1, <1>2, ConsumerSeen
  <2>3. bytes \in Nat  BY Constants
  <2> QED BY <2>1, <2>2, <2>3
<1>4. left \in Nat  BY <1>1, <1>3
<1>5. DrainerLink' /\ drainer'.pc = "idle" /\ drainer'.seen = left  BY <1>2, <1>4, DrainingLinks
<1> HIDE DEF left
<1>6. cons' = IdlingSeen(left)  BY <1>1, <1>2, <1>5, ConsumerSeenNext
<1>7. cons.pc = "idle" /\ cons.seen = drainer.seen /\ cons' = [cons EXCEPT !.seen = left]
  BY <1>3, <1>6, IdleSees DEF IdlingSeen
<1>8. Consume(bytes)  BY <1>1, <1>2, <1>7 DEF Consume, left, segs
<1> QED BY <1>1, <1>2, <1>5, <1>8 DEF Link

LEMMA ByteAppended ==
  ASSUME NEW dst \in Seq(Byte), NEW byte \in Byte
  PROVE  Append(dst, byte) \in Seq(Byte) /\ Len(Append(dst, byte)) = Len(dst) + 1
OBVIOUS

LEMMA LengthNat == ASSUME NEW dst \in Seq(Byte) PROVE Len(dst) \in Nat
OBVIOUS

LEMMA OneMore == ASSUME NEW n \in Nat PROVE n + 1 \in Nat
OBVIOUS

LEMMA RunAtPlace ==
  ASSUME capacity \in Nat \ {0}, NEW at \in 0 .. capacity - 1, NEW want \in Nat, NEW k \in Nat,
         k < RunCarries(want)
  PROVE  RunAt(at, want, k) \in 0 .. capacity - 1
BY DEF RunAt, RunCarries

LEMMA InfinMoveOut ==
  ASSUME RingInv, Link, Viewed', NEW call \in {"read out", "peek out"}, Twin!ring_move_out(call)
  PROVE  MoveOut /\ Link'
<1> DEFINE r == Twin!ring_run(drainer.at, drainer.bytes)
           had == Len(drainer.dst)
           place == drainer.from + (had - drainer.done)
           byte == buf[place]
           dst == Append(drainer.dst, byte)
           rest == r.n - (had + 1)
           to == IF had + 1 < drainer.done + drainer.n THEN [drainer EXCEPT !.dst = dst]
                 ELSE [drainer EXCEPT !.dst = dst, !.done = had + 1, !.from = 0, !.n = rest]
           copy == IF call = "read out" THEN "read" ELSE "peek"
<1>1. /\ UNCHANGED <<tail, released, handed>> /\ DrainerLink /\ Viewed /\ Viewed'
      /\ drainer \in DrainerState /\ drainer.done < r.n
  BY DEF Twin!ring_move_out, Link, DrainerLink
<1>2. /\ UNCHANGED <<laid, buf, head, claimed, loculi, prod, next>> /\ FillerLink' /\ OpenerLink'
      /\ use = "stream" /\ drainer.pc = call /\ drainer' = to
  <2>1. Twin!Drains("stream", call, to)  BY DEF Twin!ring_move_out
  <2> HIDE DEF to
  <2> QED BY <2>1, <1>1, DrainsLeave
<1>3. /\ drainer.at \in Nat /\ drainer.bytes \in Nat /\ drainer.dst \in Seq(Byte) /\ had \in Nat
      /\ drainer.seen \in Nat /\ drainer.from \in Nat /\ drainer.n \in Nat /\ drainer.done \in Nat
      /\ InRun(drainer.at, drainer.bytes, drainer.from, drainer.n, drainer.done, had)
      /\ call = "read out" => drainer.at = tail
  <2>1. /\ drainer.at \in Nat /\ drainer.bytes \in Nat /\ drainer.dst \in Seq(Byte)
        /\ drainer.seen \in Nat /\ drainer.from \in Nat /\ drainer.n \in Nat
        /\ drainer.done \in Nat
    BY <1>1 DEF DrainerState
  <2>2. /\ InRun(drainer.at, drainer.bytes, drainer.from, drainer.n, drainer.done, had)
        /\ call = "read out" => drainer.at = tail
    BY <1>1, <1>2 DEF DrainerLink
  <2>3. had \in Nat  BY <2>1, LengthNat
  <2> QED BY <2>1, <2>2, <2>3
<1>4. cons = CopySeen(copy, drainer.at, drainer.bytes, drainer.dst, drainer.seen)
      /\ copy \in {"read", "peek", "front"}
  BY <1>1, <1>2, ConsumerSeen
<1>5. cons.pc = copy /\ cons.at = drainer.at /\ cons.bytes = drainer.bytes
      /\ cons.dst = drainer.dst
  BY <1>4 DEF CopySeen
<1>6. drainer.at \in 0 .. capacity - 1 /\ capacity \in Nat \ {0}
  BY <1>5, Ranges DEF RingInv, Streaming
<1> HIDE DEF r, had, place, byte, dst, rest, to, copy
<1>7. /\ had < RunCarries(drainer.bytes)
      /\ place = RunAt(drainer.at, drainer.bytes, had)
      /\ had + 1 < drainer.done + drainer.n =>
           InRun(drainer.at, drainer.bytes, drainer.from, drainer.n, drainer.done, had + 1)
      /\ ~(had + 1 < drainer.done + drainer.n) =>
           rest \in Nat /\ InRun(drainer.at, drainer.bytes, 0, rest, had + 1, had + 1)
  <2>1. drainer.done < Twin!ring_run(drainer.at, drainer.bytes).n  BY <1>1 DEF r
  <2>2. /\ had < RunCarries(drainer.bytes)
        /\ drainer.from + (had - drainer.done) = RunAt(drainer.at, drainer.bytes, had)
        /\ had + 1 < drainer.done + drainer.n =>
             InRun(drainer.at, drainer.bytes, drainer.from, drainer.n, drainer.done, had + 1)
        /\ ~(had + 1 < drainer.done + drainer.n) =>
             /\ Twin!ring_run(drainer.at, drainer.bytes).n - (had + 1) \in Nat
             /\ InRun(drainer.at, drainer.bytes, 0,
                      Twin!ring_run(drainer.at, drainer.bytes).n - (had + 1), had + 1, had + 1)
    BY <1>3, <1>6, <2>1, RunStep
  <2> QED BY <2>2 DEF r, rest, place
<1>8. byte \in Byte
  <2>1. place \in 0 .. capacity - 1
    <3>1. had \in Nat /\ had < RunCarries(drainer.bytes) /\ drainer.bytes \in Nat
      BY <1>3, <1>7
    <3> QED BY <1>6, <1>7, <3>1, RunAtPlace
  <2>2. buf \in [DOMAIN buf -> Byte] /\ 0 .. capacity - 1 \subseteq DOMAIN buf
    BY DEF RingInv, Types
  <2> QED BY <2>1, <2>2 DEF byte
<1>9. dst \in Seq(Byte) /\ Len(dst) = had + 1  BY <1>3, <1>8, ByteAppended DEF dst, had
<1>10. /\ drainer' \in DrainerState /\ drainer'.pc = call /\ drainer'.at = drainer.at
       /\ drainer'.bytes = drainer.bytes /\ drainer'.dst = dst /\ drainer'.seen = drainer.seen
       /\ InRun(drainer.at, drainer.bytes, drainer'.from, drainer'.n, drainer'.done, had + 1)
  <2>1. CASE had + 1 < drainer.done + drainer.n
    <3>1. drainer' = [drainer EXCEPT !.dst = dst]  BY <1>2, <2>1 DEF to
    <3>2. /\ drainer' \in DrainerState /\ drainer'.pc = call /\ drainer'.at = drainer.at
          /\ drainer'.bytes = drainer.bytes /\ drainer'.dst = dst /\ drainer'.seen = drainer.seen
          /\ drainer'.from = drainer.from /\ drainer'.n = drainer.n
          /\ drainer'.done = drainer.done
      BY <1>1, <1>2, <1>9, <3>1 DEF DrainerState
    <3> QED BY <1>7, <2>1, <3>2
  <2>2. CASE ~(had + 1 < drainer.done + drainer.n)
    <3> DEFINE g == [drainer EXCEPT !.dst = dst, !.done = had + 1]
    <3>1. drainer' = [g EXCEPT !.from = 0, !.n = rest]  BY <1>2, <2>2 DEF to
    <3>2. rest \in Nat /\ had + 1 \in Nat
      <4>1. rest \in Nat  BY <1>7, <2>2
      <4>2. had \in Nat  BY <1>3
      <4>3. had + 1 \in Nat  BY <4>2, OneMore
      <4> QED BY <4>1, <4>3
    <3>3. /\ g \in DrainerState /\ g.pc = call /\ g.at = drainer.at /\ g.bytes = drainer.bytes
          /\ g.dst = dst /\ g.seen = drainer.seen /\ g.done = had + 1
      BY <1>1, <1>2, <1>9, <3>2 DEF DrainerState
    <3> HIDE DEF g
    <3>4. /\ drainer' \in DrainerState /\ drainer'.pc = call /\ drainer'.at = drainer.at
          /\ drainer'.bytes = drainer.bytes /\ drainer'.dst = dst /\ drainer'.seen = drainer.seen
          /\ drainer'.from = 0 /\ drainer'.n = rest /\ drainer'.done = had + 1
      BY <3>1, <3>2, <3>3 DEF DrainerState
    <3> QED BY <1>7, <2>2, <3>4
  <2> QED BY <2>1, <2>2
<1>11. InRun(drainer.at, drainer.bytes, drainer.from, drainer.n, drainer.done, Len(drainer.dst))'
  BY <1>2, <1>9, <1>10 DEF InRun, Twin!ring_run, laid
<1>12. DrainerLink'  BY <1>1, <1>3, <1>10, <1>11 DEF DrainerLink
<1>13. cons' = CopySeen(copy, drainer.at, drainer.bytes, dst, drainer.seen)
  BY <1>1, <1>2, <1>10, ConsumerSeenNext DEF copy
<1>14. cons' = [cons EXCEPT !.dst = dst]  BY <1>4, <1>13, CopyGoesOn
<1>15. dst = Append(cons.dst, buf[RunAt(cons.at, cons.bytes, Len(cons.dst))])
  BY <1>5, <1>7 DEF dst, byte, had
<1>16. cons' = [cons EXCEPT !.dst = Append(@, buf[RunAt(cons.at, cons.bytes, Len(@))])]
  BY <1>14, <1>15
<1>17. cons.pc \in {"read", "peek"} /\ Len(cons.dst) < RunCarries(cons.bytes)
  BY <1>5, <1>7 DEF had, copy
<1>18. MoveOut  BY <1>1, <1>2, <1>16, <1>17 DEF MoveOut, stream, segs
<1> QED BY <1>1, <1>2, <1>12, <1>18 DEF Link

LEMMA InfinSegFront ==
  ASSUME RingInv, Link, Viewed', Twin!infin_seg_front
  PROVE  Same /\ Link'
<1>1. UNCHANGED <<tail, released, handed>> /\ DrainerLink /\ Viewed /\ Viewed'
  BY DEF Twin!infin_seg_front, Link
<1>2. /\ UNCHANGED <<laid, buf, head, claimed, loculi, prod, next>> /\ FillerLink' /\ OpenerLink'
      /\ drainer.pc = "idle" /\ drainer' = [drainer EXCEPT !.pc = "seg_front", !.at = released]
  BY DrainsLeave DEF Twin!infin_seg_front
<1>3. /\ drainer' \in DrainerState /\ drainer'.pc = "seg_front" /\ drainer'.at = released
      /\ drainer'.seen = drainer.seen /\ drainer'.dst = <<>> /\ drainer'.done = 0
  <2>1. drainer \in DrainerState /\ drainer.dst = <<>> /\ drainer.done = 0
    BY <1>1, <1>2 DEF DrainerLink
  <2>2. released \in Nat  BY OffsetsNat
  <2> QED BY <1>2, <2>1, <2>2 DEF DrainerState
<1>4. DrainerLink'  BY <1>1, <1>3 DEF DrainerLink
<1>5. cons' = cons  BY <1>1, <1>2, <1>3, ConsumerSeen, ConsumerSeenNext
<1> QED BY <1>1, <1>2, <1>4, <1>5, Pauses DEF Link, stream, segs

LEMMA InfinSegFrontPick ==
  ASSUME RingInv, Link, Viewed', Twin!infin_seg_front_pick
  PROVE  (SegFront \/ Same) /\ Link'
<1> DEFINE at == Twin!infin_seg_at(Twin!WRAP(drainer.at, segment_count))
           to == IF claimed # drainer.at THEN [drainer EXCEPT !.pc = "front", !.at = at]
                 ELSE Twin!Draining(drainer.seen)
<1>1. /\ UNCHANGED <<tail, released, handed>> /\ DrainerLink /\ Viewed /\ Viewed'
      /\ drainer \in DrainerState
  BY DEF Twin!infin_seg_front_pick, Link, DrainerLink
<1>2. /\ UNCHANGED <<laid, buf, head, claimed, loculi, prod, next>> /\ FillerLink' /\ OpenerLink'
      /\ use = "segments" /\ drainer.pc = "seg_front" /\ drainer' = to
  <2>1. Twin!Drains("segments", "seg_front", to)  BY DEF Twin!infin_seg_front_pick
  <2> HIDE DEF to
  <2> QED BY <1>1, <2>1, DrainsLeave
<1>3. /\ drainer.at = released /\ drainer.dst = <<>> /\ drainer.done = 0
      /\ drainer.seen \in Nat /\ cons = IdlingSeen(drainer.seen)
  BY <1>1, <1>2, ConsumerSeen DEF DrainerLink, DrainerState
<1>4. at = SegAt(Wrap(released, segment_count))
  BY <1>3 DEF Twin!infin_seg_at, Twin!WRAP, SegAt, Wrap
<1>5. at \in Nat /\ segment_bytes \in Nat
  <2>1. segment_count \in Nat \ {0} /\ segment_bytes \in Nat /\ released \in Nat
    BY OffsetsNat, Ranges DEF RingInv
  <2> DEFINE w == released % segment_count
  <2>2. w \in Nat  BY <2>1
  <2>3. at = w * segment_bytes  BY <1>4 DEF SegAt, Wrap
  <2> HIDE DEF w, at
  <2> QED BY <2>1, <2>2, <2>3
<1> HIDE DEF at
<1>6. CASE claimed = released
  <2>1. DrainerLink' /\ drainer'.pc = "idle" /\ drainer'.seen = drainer.seen
    BY <1>2, <1>3, <1>6, DrainingLinks
  <2>2. cons' = cons  BY <1>1, <1>2, <1>3, <2>1, ConsumerSeenNext
  <2> QED BY <1>1, <1>2, <2>1, <2>2, Pauses DEF Link, stream, segs
<1>7. CASE claimed # released
  <2>1. drainer' = [drainer EXCEPT !.pc = "front", !.at = at]  BY <1>2, <1>3, <1>7
  <2>2. /\ drainer' \in DrainerState /\ drainer'.pc = "front"
        /\ drainer'.at = at /\ drainer'.dst = <<>> /\ drainer'.seen = drainer.seen
    BY <1>1, <1>3, <1>5, <2>1 DEF DrainerState
  <2>3. DrainerLink'  BY <2>2 DEF DrainerLink
  <2>4. cons' = CopySeen("front", at, segment_bytes, <<>>, drainer.seen)
    BY <1>1, <1>2, <2>2, ConsumerSeenNext
  <2>5. /\ cons \in ConsState /\ cons' \in ConsState /\ cons.pc = "idle" /\ cons'.pc = "front"
        /\ cons'.at = at /\ cons'.bytes = segment_bytes /\ cons'.dst = <<>>
        /\ cons'.seen = cons.seen
    BY <1>3, <1>5, <2>4, CopyBegins
  <2>6. cons' = [cons EXCEPT !.pc = "front", !.dst = <<>>, !.bytes = segment_bytes, !.at = at]
    BY <2>5 DEF ConsState
  <2>7. SegFront  BY <1>1, <1>2, <1>4, <1>7, <2>5, <2>6 DEF SegFront, stream, segs
  <2> QED BY <1>1, <1>2, <2>3, <2>7 DEF Link
<1> QED BY <1>6, <1>7

LEMMA InfinSegRead ==
  ASSUME RingInv, Link, Viewed', Twin!infin_seg_read
  PROVE  SegRead /\ Link'
<1> DEFINE byte == buf[drainer.at + Len(drainer.dst)]
           dst == Append(drainer.dst, byte)
<1>1. /\ UNCHANGED <<tail, released, handed>> /\ DrainerLink /\ Viewed /\ Viewed'
      /\ drainer \in DrainerState /\ Len(drainer.dst) < segment_bytes
  BY DEF Twin!infin_seg_read, Link, DrainerLink
<1>2. /\ UNCHANGED <<laid, buf, head, claimed, loculi, prod, next>> /\ FillerLink' /\ OpenerLink'
      /\ use = "segments" /\ drainer.pc = "front" /\ drainer' = [drainer EXCEPT !.dst = dst]
  BY DrainsLeave DEF Twin!infin_seg_read
<1>3. /\ drainer.at \in Nat /\ drainer.dst \in Seq(Byte) /\ Len(drainer.dst) \in Nat
      /\ cons = CopySeen("front", drainer.at, segment_bytes, drainer.dst, drainer.seen)
  <2>1. drainer.at \in Nat /\ drainer.dst \in Seq(Byte)  BY <1>1 DEF DrainerState
  <2>2. cons = CopySeen("front", drainer.at, segment_bytes, drainer.dst, drainer.seen)
    BY <1>1, <1>2, ConsumerSeen
  <2> QED BY <2>1, <2>2, LengthNat
<1>4. cons.pc = "front" /\ cons.at = drainer.at /\ cons.bytes = segment_bytes
      /\ cons.dst = drainer.dst
  BY <1>3 DEF CopySeen
<1>5. byte \in Byte
  <2>1. Types /\ segment_bytes \in Nat  BY OffsetsNat DEF RingInv
  <2>2. cons.at = SegAt(Slot(0))
    BY <1>4, <2>1, InFlightIs DEF RingInv, Segmented
  <2>3. Len(drainer.dst) \in 0 .. segment_bytes - 1  BY <1>1, <1>3, <2>1
  <2>4. drainer.at + Len(drainer.dst) \in DOMAIN buf  BY <1>4, <2>1, <2>2, <2>3, SlotInside
  <2>5. buf \in [DOMAIN buf -> Byte]  BY <2>1 DEF Types
  <2> QED BY <2>4, <2>5
<1> HIDE DEF byte
<1>6. dst \in Seq(Byte)  BY <1>3, <1>5, ByteAppended
<1> HIDE DEF dst
<1>7. /\ drainer' \in DrainerState /\ drainer'.pc = "front"
      /\ drainer'.at = drainer.at /\ drainer'.dst = dst /\ drainer'.seen = drainer.seen
  BY <1>1, <1>2, <1>6 DEF DrainerState
<1>8. DrainerLink'  BY <1>7 DEF DrainerLink
<1>9. cons' = CopySeen("front", drainer.at, segment_bytes, dst, drainer.seen)
  BY <1>1, <1>2, <1>7, ConsumerSeenNext
<1>10. cons' = [cons EXCEPT !.dst = dst]  BY <1>3, <1>9, CopyGoesOn
<1>11. dst = Append(cons.dst, buf[cons.at + Len(cons.dst)])  BY <1>4 DEF dst, byte
<1>12. cons' = [cons EXCEPT !.dst = Append(@, buf[cons.at + Len(@)])]  BY <1>10, <1>11
<1>13. SegRead  BY <1>1, <1>2, <1>4, <1>12 DEF SegRead, stream, segs
<1> QED BY <1>1, <1>2, <1>8, <1>13 DEF Link

LEMMA InfinSegRelease ==
  ASSUME RingInv, Link, Viewed', Twin!infin_seg_release
  PROVE  SegRelease /\ Link'
<1>1. /\ UNCHANGED tail /\ DrainerLink /\ Viewed /\ Viewed'
      /\ drainer \in DrainerState /\ Len(drainer.dst) = segment_bytes
      /\ released' = (released + 1) % 2 ^ Width /\ handed' = drainer.dst
  BY DEF Twin!infin_seg_release, Link, DrainerLink
<1>2. /\ UNCHANGED <<laid, buf, head, claimed, loculi, prod, next>> /\ FillerLink' /\ OpenerLink'
      /\ use = "segments" /\ drainer.pc = "front" /\ drainer' = Twin!Draining(drainer.seen)
  BY DrainsLeave DEF Twin!infin_seg_release
<1>3. /\ drainer.at \in Nat /\ drainer.dst \in Seq(Byte) /\ drainer.seen \in Nat
      /\ segment_bytes \in Nat
      /\ cons = CopySeen("front", drainer.at, segment_bytes, drainer.dst, drainer.seen)
  BY <1>1, <1>2, ConsumerSeen, OffsetsNat DEF DrainerState
<1>4. DrainerLink' /\ drainer'.pc = "idle" /\ drainer'.seen = drainer.seen
  BY <1>2, <1>3, DrainingLinks
<1>5. cons' = IdlingSeen(drainer.seen)  BY <1>1, <1>2, <1>4, ConsumerSeenNext
<1>6. /\ cons.pc = "front" /\ cons.dst = drainer.dst
      /\ cons' = [cons EXCEPT !.pc = "idle", !.at = 0, !.bytes = 0, !.dst = <<>>]
  BY <1>3, <1>5, CopyEnds
<1>7. SegRelease  BY <1>1, <1>2, <1>6 DEF SegRelease, stream
<1> QED BY <1>1, <1>2, <1>4, <1>7 DEF Link

----------------------------------------------------------------------------
(* The contexts that hold loculi. *)

(* What is seen of one, and of a record. *)
HolderSeen(o) ==
  [pc |-> CASE o.pc = "ready pinned" -> "ready" [] o.pc = "ready gratis" -> "next"
            [] OTHER -> o.pc,
   mask |-> IF o.pc \in {"ready", "ready pinned"} THEN Indices ELSE o.mask,
   index |-> o.idx]
KeepSeen(k) == [buf |-> k.buf, bytes |-> k.cap, read_offset |-> k.pos]

LEMMA HoldersSeen ==
  ASSUME Link
  PROVE  /\ holder = [c \in Holders |-> HolderSeen(opener[c])]
         /\ keepout = [i \in Indices |-> KeepSeen(keep[i])]
BY DEF Link, Viewed, Twin!HolderView, Twin!KeepoutView, HolderSeen, KeepSeen,
       Twin!ring_loculus_all, Indices

LEMMA HoldersSeenNext ==
  ASSUME Viewed'
  PROVE  /\ holder' = [c \in Holders |-> HolderSeen(opener'[c])]
         /\ keepout' = [i \in Indices |-> KeepSeen(keep'[i])]
BY DEF Viewed, Twin!HolderView, Twin!KeepoutView, HolderSeen, KeepSeen,
       Twin!ring_loculus_all, Indices

(* What a step of one such context leaves of the rest. *)
LEMMA OpensLeave ==
  ASSUME Link, Viewed', NEW c \in Holders, NEW pc, NEW to \in OpenerState, OpenerFits(to),
         Twin!Opens(c, pc, to), keep' \in KeepState
  PROVE  /\ UNCHANGED <<laid, buf, stream, segs, prod, cons, next, handed>>
         /\ Link' /\ use = "loculi" /\ opener[c].pc = pc
         /\ holder' = [holder EXCEPT ![c] = HolderSeen(to)]
         /\ holder[c] = HolderSeen(opener[c]) /\ holder = [holder EXCEPT ![c] = holder[c]]
         /\ keep' = keep => keepout' = keepout
<1>1. /\ UNCHANGED <<laid, buf, head, tail, claimed, released, filler, drainer, next, handed>>
      /\ use = "loculi" /\ opener[c].pc = pc /\ opener' = [opener EXCEPT ![c] = to]
  BY DEF Twin!Opens, Twin!laid, Twin!cursors, laid
<1>2. prod' = prod
  BY <1>1 DEF Link, Viewed, Twin!ProducerView, Twin!ring_free, Twin!ring_used, laid
<1>3. cons' = cons
  BY <1>1 DEF Link, Viewed, Twin!ConsumerView, Twin!Copying, Twin!Idling, Twin!ring_used, laid
<1>4. FillerLink' /\ DrainerLink'
  <2>1. FillerLink'  BY <1>1 DEF Link, FillerLink, InRun, Twin!ring_run, laid
  <2>2. DrainerLink'  BY <1>1 DEF Link, DrainerLink, InRun, Twin!ring_run, laid
  <2> QED BY <2>1, <2>2
<1>5. OpenerLink /\ opener \in [Holders -> OpenerState]  BY DEF Link, OpenerLink
<1>6. OpenerLink'
  <2>1. opener' \in [Holders -> OpenerState]  BY <1>1, <1>5
  <2>2. \A h \in Holders : opener'[h] = IF h = c THEN to ELSE opener[h]  BY <1>1, <1>5
  <2>3. \A h \in Holders : OpenerFits(opener[h])  BY <1>5 DEF OpenerLink
  <2>4. ASSUME NEW h \in Holders PROVE OpenerFits(opener'[h])
    <3>1. CASE h = c  BY <2>2, <3>1
    <3>2. CASE h # c
      <4>1. opener'[h] = opener[h]  BY <2>2, <3>2
      <4> QED BY <2>3, <4>1
    <3> QED BY <3>1, <3>2
  <2> QED BY <2>1, <2>4 DEF OpenerLink
<1>7. /\ holder = [h \in Holders |-> HolderSeen(opener[h])]
      /\ holder' = [h \in Holders |-> HolderSeen(opener'[h])]
  BY HoldersSeen, HoldersSeenNext
<1>8. \A h \in Holders : opener'[h] = IF h = c THEN to ELSE opener[h]  BY <1>1, <1>5
<1>9. holder' = [holder EXCEPT ![c] = HolderSeen(to)]  BY <1>7, <1>8
<1>10. keep' = keep => keepout' = keepout  BY HoldersSeen, HoldersSeenNext
<1>11. holder[c] = HolderSeen(opener[c]) /\ holder = [holder EXCEPT ![c] = holder[c]]  BY <1>7
<1> QED BY <1>1, <1>2, <1>3, <1>4, <1>6, <1>9, <1>10, <1>11 DEF Link, stream, segs

(* What Link says of one context before it steps. *)
LEMMA OpenerIs ==
  ASSUME RingInv, Link, NEW c \in Holders
  PROVE  /\ opener[c] \in OpenerState /\ OpenerFits(opener[c]) /\ keep \in KeepState
         /\ gratis = Indices /\ pinned \subseteq Indices /\ HolderPinned(c)
         /\ holder[c] = HolderSeen(opener[c])
<1>1. holder = [h \in Holders |-> HolderSeen(opener[h])]  BY HoldersSeen
<1> QED BY <1>1 DEF Link, OpenerLink, RingInv, Pinned

LEMMA HolderPauses ==
  ASSUME UNCHANGED <<laid, buf, stream, segs, prod, cons, next, handed>>,
         holder' = holder, UNCHANGED <<gratis, pinned, keepout>>
  PROVE  Same
BY Pauses DEF loculi

LEMMA InfinLoculusReady ==
  ASSUME RingInv, Link, Viewed', NEW c \in Holders, Twin!infin_loculus_ready(c)
  PROVE  (LoculusGratis(c) \/ LoculusReady(c) \/ Same) /\ Link'
<1> DEFINE o == opener[c]
<1>1. UNCHANGED <<gratis, pinned, keep>>  BY DEF Twin!infin_loculus_ready
<1>2. /\ o \in OpenerState /\ OpenerFits(o) /\ keep' \in KeepState
      /\ gratis = Indices /\ pinned \subseteq Indices /\ holder[c] = HolderSeen(o)
  BY <1>1, OpenerIs
<1> HIDE DEF o
<1>3. CASE Twin!Opens(c, "idle", [o EXCEPT !.pc = "ready"])
  <2> DEFINE to == [o EXCEPT !.pc = "ready"]
  <2>1. o.pc = "idle"  BY <1>3 DEF Twin!Opens, o
  <2>2. o.idx = 0 /\ o.mask = {}  BY <1>2, <2>1 DEF OpenerFits, Granted
  <2>3. /\ to \in OpenerState /\ to.pc = "ready" /\ to.idx = 0 /\ to.mask = {}
    BY <1>2, <2>2 DEF OpenerState
  <2> HIDE DEF to
  <2>4. OpenerFits(to)  BY <2>3 DEF OpenerFits, Granted
  <2>5. /\ UNCHANGED <<laid, buf, stream, segs, prod, cons, next, handed>>
        /\ Link' /\ use = "loculi" /\ holder' = [holder EXCEPT ![c] = HolderSeen(to)]
        /\ keepout' = keepout
    BY <1>1, <1>2, <1>3, <2>3, <2>4, OpensLeave DEF to
  <2>6. HolderSeen(to) = [pc |-> "ready", mask |-> gratis, index |-> 0]
    BY <1>2, <2>3 DEF HolderSeen
  <2>7. holder[c].pc = "idle"  BY <1>2, <2>1 DEF HolderSeen
  <2> QED BY <1>1, <2>5, <2>6, <2>7 DEF LoculusGratis, LoculusStep
<1>4. CASE Twin!Opens(c, "ready", [o EXCEPT !.pc = "ready pinned", !.mask = gratis])
  <2> DEFINE to == [o EXCEPT !.pc = "ready pinned", !.mask = gratis]
  <2>1. o.pc = "ready"  BY <1>4 DEF Twin!Opens, o
  <2>2. o.idx = 0  BY <1>2, <2>1 DEF OpenerFits, Granted
  <2>3. to \in OpenerState /\ to.pc = "ready pinned" /\ to.idx = 0 /\ to.mask = Indices
    BY <1>2, <2>2 DEF OpenerState
  <2> HIDE DEF to
  <2>4. OpenerFits(to)  BY <2>3 DEF OpenerFits, Granted
  <2>5. /\ UNCHANGED <<laid, buf, stream, segs, prod, cons, next, handed>>
        /\ Link' /\ holder' = [holder EXCEPT ![c] = HolderSeen(to)]
        /\ keepout' = keepout /\ holder = [holder EXCEPT ![c] = holder[c]]
    BY <1>1, <1>2, <1>4, <2>3, <2>4, OpensLeave DEF to
  <2>6. HolderSeen(to) = holder[c]  BY <1>2, <2>1, <2>2, <2>3 DEF HolderSeen
  <2> QED BY <1>1, <2>5, <2>6, HolderPauses
<1>5. CASE Twin!Opens(c, "ready", [o EXCEPT !.pc = "ready gratis",
                                            !.mask = Twin!ring_loculus_all \ pinned])
  <2> DEFINE to == [o EXCEPT !.pc = "ready gratis", !.mask = Twin!ring_loculus_all \ pinned]
  <2>1. o.pc = "ready"  BY <1>5 DEF Twin!Opens, o
  <2>2. o.idx = 0  BY <1>2, <2>1 DEF OpenerFits, Granted
  <2>3. to \in OpenerState /\ to.pc = "ready gratis" /\ to.idx = 0 /\ to.mask = Indices \ pinned
    <3>1. Twin!ring_loculus_all \ pinned = Indices \ pinned
      BY DEF Twin!ring_loculus_all, Indices
    <3>2. Indices \ pinned \in SUBSET Indices  OBVIOUS
    <3> QED BY <1>2, <2>2, <3>1, <3>2 DEF OpenerState
  <2> HIDE DEF to
  <2>4. OpenerFits(to)  BY <2>3 DEF OpenerFits, Granted
  <2>5. /\ UNCHANGED <<laid, buf, stream, segs, prod, cons, next, handed>>
        /\ Link' /\ use = "loculi" /\ holder' = [holder EXCEPT ![c] = HolderSeen(to)]
        /\ keepout' = keepout
    BY <1>1, <1>2, <1>5, <2>3, <2>4, OpensLeave DEF to
  <2>6. holder[c].pc = "ready" /\ holder[c].mask = Indices  BY <1>2, <2>1 DEF HolderSeen
  <2>7. HolderSeen(to) = [pc |-> "next", index |-> 0, mask |-> Indices \ pinned]
    BY <2>3 DEF HolderSeen
  <2>8. (holder[c].mask \ pinned) \cap (0 .. Loculi - 1) = Indices \ pinned
    BY <2>6 DEF Indices
  <2> QED BY <1>1, <2>5, <2>6, <2>7, <2>8 DEF LoculusReady, LoculusStep
<1>6. CASE Twin!Opens(c, "ready pinned",
             [o EXCEPT !.pc = "next", !.mask = (o.mask \ pinned) \cap Twin!ring_loculus_all])
  <2> DEFINE to == [o EXCEPT !.pc = "next",
                             !.mask = (o.mask \ pinned) \cap Twin!ring_loculus_all]
  <2>1. o.pc = "ready pinned"  BY <1>6 DEF Twin!Opens, o
  <2>2. o.idx = 0 /\ o.mask = Indices  BY <1>2, <2>1 DEF OpenerFits, Granted
  <2>3. to \in OpenerState /\ to.pc = "next" /\ to.idx = 0 /\ to.mask = Indices \ pinned
    <3>1. (o.mask \ pinned) \cap Twin!ring_loculus_all = Indices \ pinned
      BY <2>2 DEF Twin!ring_loculus_all, Indices
    <3>2. Indices \ pinned \in SUBSET Indices  OBVIOUS
    <3> QED BY <1>2, <2>2, <3>1, <3>2 DEF OpenerState
  <2> HIDE DEF to
  <2>4. OpenerFits(to)  BY <2>3 DEF OpenerFits, Granted
  <2>5. /\ UNCHANGED <<laid, buf, stream, segs, prod, cons, next, handed>>
        /\ Link' /\ use = "loculi" /\ holder' = [holder EXCEPT ![c] = HolderSeen(to)]
        /\ keepout' = keepout
    <3>1. Twin!Opens(c, "ready pinned", to)  BY <1>6 DEF to
    <3> QED BY <1>1, <1>2, <2>3, <2>4, <3>1, OpensLeave
  <2>6. holder[c].pc = "ready" /\ holder[c].mask = Indices
    <3>1. HolderSeen(o).pc = "ready" /\ HolderSeen(o).mask = Indices  BY <2>1 DEF HolderSeen
    <3> QED BY <1>2, <3>1
  <2>7. HolderSeen(to) = [pc |-> "next", index |-> 0, mask |-> Indices \ pinned]
    BY <2>3 DEF HolderSeen
  <2>8. (holder[c].mask \ pinned) \cap (0 .. Loculi - 1) = Indices \ pinned
    BY <2>6 DEF Indices
  <2> QED BY <1>1, <2>5, <2>6, <2>7, <2>8 DEF LoculusReady, LoculusStep
<1>7. CASE Twin!Opens(c, "ready gratis", [o EXCEPT !.pc = "next", !.mask = o.mask \cap gratis])
  <2> DEFINE to == [o EXCEPT !.pc = "next", !.mask = o.mask \cap gratis]
  <2>1. o.pc = "ready gratis"  BY <1>7 DEF Twin!Opens, o
  <2>2. o.idx = 0 /\ o.mask \subseteq Indices
    <3>1. o.idx = 0  BY <1>2, <2>1 DEF OpenerFits, Granted
    <3>2. o.mask \subseteq Indices  BY <1>2 DEF OpenerState
    <3> QED BY <3>1, <3>2
  <2>3. to \in OpenerState /\ to.pc = "next" /\ to.idx = 0 /\ to.mask = o.mask
    <3>1. o.mask \cap gratis = o.mask  BY <1>2, <2>2
    <3> QED BY <1>2, <2>2, <3>1 DEF OpenerState
  <2> HIDE DEF to
  <2>4. OpenerFits(to)  BY <2>3 DEF OpenerFits, Granted
  <2>5. /\ UNCHANGED <<laid, buf, stream, segs, prod, cons, next, handed>>
        /\ Link' /\ holder' = [holder EXCEPT ![c] = HolderSeen(to)]
        /\ keepout' = keepout /\ holder = [holder EXCEPT ![c] = holder[c]]
    <3>1. Twin!Opens(c, "ready gratis", to)  BY <1>7 DEF to
    <3>2. to \in OpenerState /\ keep' \in KeepState  BY <1>2, <2>3
    <3>3. keep' = keep => keepout' = keepout  BY <2>4, <3>1, <3>2, OpensLeave
    <3>4. /\ UNCHANGED <<laid, buf, stream, segs, prod, cons, next, handed>>
          /\ Link' /\ holder' = [holder EXCEPT ![c] = HolderSeen(to)]
          /\ holder = [holder EXCEPT ![c] = holder[c]]
      BY <2>4, <3>1, <3>2, OpensLeave
    <3> QED BY <1>1, <3>3, <3>4
  <2>6. HolderSeen(to) = holder[c]  BY <1>2, <2>1, <2>2, <2>3 DEF HolderSeen
  <2> QED BY <1>1, <2>5, <2>6, HolderPauses
<1> QED BY <1>3, <1>4, <1>5, <1>6, <1>7 DEF Twin!infin_loculus_ready, o

(* A context that gives up, or names the loculus it would hold.             *)
LEMMA OpeningFits ==
  /\ Twin!Opening \in OpenerState /\ OpenerFits(Twin!Opening)
  /\ HolderSeen(Twin!Opening) = [pc |-> "idle", mask |-> {}, index |-> 0]
<1>1. Twin!Opening \in OpenerState  BY Constants DEF Twin!Opening, OpenerState
<1>2. OpenerFits(Twin!Opening)  BY DEF Twin!Opening, OpenerFits, Granted
<1>3. HolderSeen(Twin!Opening) = [pc |-> "idle", mask |-> {}, index |-> 0]
  BY DEF Twin!Opening, HolderSeen
<1> QED BY <1>1, <1>2, <1>3

LEMMA NamedFits ==
  ASSUME NEW i \in 0 .. Loculi
  PROVE  LET to == [Twin!Opening EXCEPT !.pc = "hold", !.idx = i]
         IN  /\ to \in OpenerState /\ OpenerFits(to)
             /\ HolderSeen(to) = [pc |-> "hold", mask |-> {}, index |-> i]
<1> DEFINE to == [Twin!Opening EXCEPT !.pc = "hold", !.idx = i]
<1>1. to \in OpenerState /\ to.pc = "hold" /\ to.mask = {} /\ to.idx = i
  <2>1. Twin!Opening \in OpenerState /\ Twin!Opening.mask = {}
    BY OpeningFits DEF Twin!Opening
  <2> QED BY <2>1 DEF OpenerState
<1> HIDE DEF to
<1>2. to \in OpenerState  BY <1>1
<1>3. OpenerFits(to)  BY <1>1 DEF OpenerFits, Granted
<1>4. HolderSeen(to) = [pc |-> "hold", mask |-> {}, index |-> i]  BY <1>1 DEF HolderSeen
<1> QED BY <1>2, <1>3, <1>4 DEF to

LEMMA InfinLoculusNamed ==
  ASSUME RingInv, Link, Viewed', NEW c \in Holders, Twin!infin_loculus_named(c)
  PROVE  LoculusNamed(c) /\ Link'
<1>1. PICK i \in 0 .. Loculi :
        Twin!Opens(c, "idle", [Twin!Opening EXCEPT !.pc = "hold", !.idx = i])
  BY DEF Twin!infin_loculus_named
<1>2. UNCHANGED <<gratis, pinned, keep>>  BY DEF Twin!infin_loculus_named
<1> DEFINE to == [Twin!Opening EXCEPT !.pc = "hold", !.idx = i]
<1>3. /\ to \in OpenerState /\ OpenerFits(to)
      /\ HolderSeen(to) = [pc |-> "hold", mask |-> {}, index |-> i]
  BY NamedFits
<1>4. Twin!Opens(c, "idle", to)  BY <1>1
<1> HIDE DEF to
<1>5. keep' \in KeepState /\ holder[c] = HolderSeen(opener[c])  BY <1>2, OpenerIs
<1>6. /\ UNCHANGED <<laid, buf, stream, segs, prod, cons, next, handed>>
      /\ Link' /\ use = "loculi" /\ holder' = [holder EXCEPT ![c] = HolderSeen(to)]
      /\ opener[c].pc = "idle"
  BY <1>3, <1>4, <1>5, OpensLeave
<1>7. keepout' = keepout  BY <1>2, <1>3, <1>4, <1>5, OpensLeave
<1>8. holder[c].pc = "idle"
  <2>1. HolderSeen(opener[c]).pc = "idle"  BY <1>6 DEF HolderSeen
  <2> QED BY <1>5, <2>1
<1>9. LoculusStep(c, "idle", [pc |-> "hold", mask |-> {}, index |-> i])
  BY <1>3, <1>6, <1>8 DEF LoculusStep
<1> QED BY <1>2, <1>6, <1>7, <1>9 DEF LoculusNamed

LEMMA InfinLoculusNext ==
  ASSUME RingInv, Link, Viewed', NEW c \in Holders, Twin!infin_loculus_next(c)
  PROVE  LoculusNext(c) /\ Link'
<1> DEFINE mask == opener[c].mask
           lowest == CHOOSE i \in mask : \A j \in mask : i <= j
           to == IF mask = {} THEN Twin!Opening
                 ELSE [Twin!Opening EXCEPT !.pc = "hold", !.idx = lowest]
           then == IF mask = {} THEN [pc |-> "idle", mask |-> {}, index |-> 0]
                   ELSE [pc |-> "hold", mask |-> {}, index |-> lowest]
<1>1. UNCHANGED <<gratis, pinned, keep>> /\ Twin!Opens(c, "next", to)
  BY DEF Twin!infin_loculus_next
<1>2. /\ opener[c] \in OpenerState /\ keep' \in KeepState
      /\ holder[c] = HolderSeen(opener[c])
  BY <1>1, OpenerIs
<1>3. mask \subseteq Indices  BY <1>2 DEF OpenerState
<1>4. to \in OpenerState /\ OpenerFits(to) /\ HolderSeen(to) = then
  <2>1. CASE mask = {}  BY <2>1, OpeningFits
  <2>2. CASE mask # {}
    <3>1. lowest \in Indices  BY <1>3, <2>2, LowestBit
    <3> HIDE DEF lowest
    <3>2. lowest \in 0 .. Loculi  BY <3>1, Constants DEF Indices
    <3>3. to = [Twin!Opening EXCEPT !.pc = "hold", !.idx = lowest]
          /\ then = [pc |-> "hold", mask |-> {}, index |-> lowest]
      BY <2>2
    <3> HIDE DEF to, then
    <3> QED BY <3>2, <3>3, NamedFits
  <2> QED BY <2>1, <2>2
<1>5. opener[c].pc = "next"  BY <1>1 DEF Twin!Opens
<1>6. holder[c].pc = "next" /\ holder[c].mask = mask
  <2>1. HolderSeen(opener[c]).pc = "next" /\ HolderSeen(opener[c]).mask = opener[c].mask
    BY <1>5 DEF HolderSeen
  <2> QED BY <1>2, <2>1
<1>a. then = IF holder[c].mask = {} THEN [pc |-> "idle", mask |-> {}, index |-> 0]
             ELSE [pc |-> "hold", mask |-> {},
                   index |-> CHOOSE i \in holder[c].mask : \A j \in holder[c].mask : i <= j]
  BY <1>6
<1> HIDE DEF to, then, mask
<1>7. /\ UNCHANGED <<laid, buf, stream, segs, prod, cons, next, handed>>
      /\ Link' /\ use = "loculi" /\ holder' = [holder EXCEPT ![c] = HolderSeen(to)]
  BY <1>1, <1>2, <1>4, OpensLeave
<1>8. keepout' = keepout  BY <1>1, <1>2, <1>4, OpensLeave
<1>9. LoculusStep(c, "next", then)  BY <1>4, <1>6, <1>7 DEF LoculusStep
<1> QED BY <1>1, <1>7, <1>8, <1>9, <1>a DEF LoculusNext

LEMMA InfinLoculusHold ==
  ASSUME RingInv, Link, Viewed', NEW c \in Holders, Twin!infin_loculus_hold(c)
  PROVE  LoculusHold(c) /\ Link'
<1> DEFINE i == opener[c].idx
           bit == Twin!ring_loculus_bit(i)
           refused == i >= Loculi \/ i \in pinned
           to == IF bit = {} \/ pinned \cap bit # {} THEN Twin!Opening
                 ELSE [opener[c] EXCEPT !.pc = "buf"]
           then == IF refused THEN [pc |-> "idle", mask |-> {}, index |-> 0]
                   ELSE [pc |-> "buf", mask |-> {}, index |-> i]
<1>1. /\ UNCHANGED <<gratis, keep>> /\ pinned' = pinned \cup bit
      /\ Twin!Opens(c, "hold", to)
  BY DEF Twin!infin_loculus_hold
<1>2. /\ opener[c] \in OpenerState /\ OpenerFits(opener[c]) /\ keep' \in KeepState
      /\ pinned \subseteq Indices /\ holder[c] = HolderSeen(opener[c])
  BY <1>1, OpenerIs
<1>3. opener[c].pc = "hold"  BY <1>1 DEF Twin!Opens
<1>4. i \in 0 .. Loculi /\ opener[c].mask = {}
  BY <1>2, <1>3 DEF OpenerState, OpenerFits
<1>5. bit = {i} \cap (0 .. Loculi - 1)
  BY DEF Twin!ring_loculus_bit, Twin!ring_loculus_all
<1>6. (bit = {} \/ pinned \cap bit # {}) <=> refused
  <2>1. Loculi \in Nat  BY Constants
  <2>2. i \in 0 .. Loculi - 1 <=> ~(i >= Loculi)  BY <1>4, <2>1
  <2> HIDE DEF bit
  <2> QED BY <1>2, <1>5, <2>2 DEF Indices
<1>7. to \in OpenerState /\ OpenerFits(to) /\ HolderSeen(to) = then
  <2>1. CASE refused  BY <1>6, <2>1, OpeningFits
  <2>2. CASE ~refused
    <3> DEFINE held == [opener[c] EXCEPT !.pc = "buf"]
    <3>1. to = held /\ then = [pc |-> "buf", mask |-> {}, index |-> i]  BY <1>6, <2>2
    <3>2. held \in OpenerState /\ held.pc = "buf" /\ held.mask = {} /\ held.idx = i
      BY <1>2, <1>4 DEF OpenerState, Granted
    <3> HIDE DEF held
    <3>3. OpenerFits(held)  BY <3>2 DEF OpenerFits, Granted
    <3>4. HolderSeen(held) = [pc |-> "buf", mask |-> {}, index |-> i]  BY <3>2 DEF HolderSeen
    <3> QED BY <3>1, <3>2, <3>3, <3>4
  <2> QED BY <2>1, <2>2
<1>8. holder[c].pc = "hold" /\ holder[c].index = i
  <2>1. HolderSeen(opener[c]).pc = "hold" /\ HolderSeen(opener[c]).index = opener[c].idx
    BY <1>3 DEF HolderSeen
  <2> QED BY <1>2, <2>1
<1>a. then = IF holder[c].index >= Loculi \/ holder[c].index \in pinned
             THEN [pc |-> "idle", mask |-> {}, index |-> 0]
             ELSE [pc |-> "buf", mask |-> {}, index |-> holder[c].index]
  BY <1>8
<1>b. pinned' = pinned \cup ({holder[c].index} \cap (0 .. Loculi - 1))  BY <1>1, <1>5, <1>8
<1> HIDE DEF to, then, refused, bit, i
<1>9. /\ UNCHANGED <<laid, buf, stream, segs, prod, cons, next, handed>>
      /\ Link' /\ use = "loculi" /\ holder' = [holder EXCEPT ![c] = HolderSeen(to)]
  BY <1>1, <1>2, <1>7, OpensLeave
<1>10. keepout' = keepout  BY <1>1, <1>2, <1>7, OpensLeave
<1>11. LoculusStep(c, "hold", then)  BY <1>7, <1>8, <1>9 DEF LoculusStep
<1> QED BY <1>1, <1>9, <1>10, <1>11, <1>a, <1>b DEF LoculusHold

(* A context that was granted a loculus goes on with it. *)
LEMMA GrantedIs ==
  ASSUME RingInv, Link, NEW c \in Holders, opener[c].pc \in Granted
  PROVE  /\ opener[c].mask = {} /\ opener[c].idx \in Indices
         /\ holder[c] = [pc |-> opener[c].pc, mask |-> {}, index |-> opener[c].idx]
         /\ holder[c].pc = opener[c].pc /\ holder[c].index = opener[c].idx
<1>1. /\ opener[c] \in OpenerState /\ OpenerFits(opener[c]) /\ HolderPinned(c)
      /\ pinned \subseteq Indices /\ holder[c] = HolderSeen(opener[c])
  BY OpenerIs
<1>2. opener[c].mask = {}  BY <1>1 DEF OpenerFits
<1>3. HolderSeen(opener[c]) = [pc |-> opener[c].pc, mask |-> {}, index |-> opener[c].idx]
  <2>1. opener[c].pc \notin {"ready", "ready pinned", "ready gratis"}  BY DEF Granted
  <2> QED BY <1>2, <2>1 DEF HolderSeen
<1>4. holder[c].pc = opener[c].pc /\ holder[c].index = opener[c].idx  BY <1>1, <1>3
<1>5. opener[c].idx \in Indices  BY <1>1, <1>4 DEF HolderPinned
<1> QED BY <1>1, <1>2, <1>3, <1>4, <1>5

LEMMA GrantedFits ==
  ASSUME RingInv, Link, NEW c \in Holders, opener[c].pc \in Granted, NEW pc \in Granted
  PROVE  LET to == [opener[c] EXCEPT !.pc = pc]
         IN  /\ to \in OpenerState /\ OpenerFits(to)
             /\ HolderSeen(to) = [holder[c] EXCEPT !.pc = pc]
<1> DEFINE to == [opener[c] EXCEPT !.pc = pc]
<1>1. /\ opener[c].mask = {} /\ opener[c].idx \in Indices
      /\ holder[c] = [pc |-> opener[c].pc, mask |-> {}, index |-> opener[c].idx]
  BY GrantedIs
<1>2. opener[c] \in OpenerState  BY OpenerIs
<1>3. to \in OpenerState /\ to.pc = pc /\ to.mask = {} /\ to.idx = opener[c].idx
  BY <1>1, <1>2 DEF OpenerState
<1> HIDE DEF to
<1>4. OpenerFits(to)  BY <1>3 DEF OpenerFits, Granted
<1>5. HolderSeen(to) = [pc |-> pc, mask |-> {}, index |-> opener[c].idx]
  <2>1. to.pc \notin {"ready", "ready pinned", "ready gratis"}  BY <1>3 DEF Granted
  <2> QED BY <1>3, <2>1 DEF HolderSeen
<1>6. [holder[c] EXCEPT !.pc = pc] = [pc |-> pc, mask |-> {}, index |-> opener[c].idx]
  BY <1>1
<1> QED BY <1>3, <1>4, <1>5, <1>6 DEF to

LEMMA InfinLoculusDrop ==
  ASSUME RingInv, Link, Viewed', NEW c \in Holders, Twin!infin_loculus_drop(c)
  PROVE  LoculusDrop(c) /\ Link'
<1>1. /\ UNCHANGED <<gratis, keep>> /\ Twin!Opens(c, "held", Twin!Opening)
      /\ pinned' = pinned \ Twin!ring_loculus_bit(opener[c].idx)
  BY DEF Twin!infin_loculus_drop
<1>2. opener[c].pc = "held" /\ opener[c].pc \in Granted  BY <1>1 DEF Twin!Opens, Granted
<1>3. opener[c].idx \in Indices /\ holder[c].pc = "held" /\ holder[c].index = opener[c].idx
  BY <1>2, GrantedIs
<1>4. Twin!ring_loculus_bit(opener[c].idx) = {holder[c].index}
  BY <1>3 DEF Twin!ring_loculus_bit, Twin!ring_loculus_all, Indices
<1>5. keep' \in KeepState  BY <1>1, OpenerIs
<1>6. /\ UNCHANGED <<laid, buf, stream, segs, prod, cons, next, handed>>
      /\ Link' /\ use = "loculi" /\ holder' = [holder EXCEPT ![c] = HolderSeen(Twin!Opening)]
  BY <1>1, <1>5, OpeningFits, OpensLeave
<1>7. keepout' = keepout  BY <1>1, <1>5, OpeningFits, OpensLeave
<1>8. LoculusStep(c, "held", [pc |-> "idle", mask |-> {}, index |-> 0])
  BY <1>3, <1>6, OpeningFits DEF LoculusStep
<1> QED BY <1>1, <1>4, <1>6, <1>7, <1>8 DEF LoculusDrop

LEMMA InfinLoculusMark ==
  ASSUME RingInv, Link, Viewed', NEW c \in Holders, Twin!infin_loculus_mark(c)
  PROVE  LoculusMark(c) /\ Link'
<1>1. /\ UNCHANGED <<pinned, keep>> /\ Twin!Opens(c, "held", opener[c])
      /\ gratis' = gratis \cup Twin!ring_loculus_bit(opener[c].idx)
  BY DEF Twin!infin_loculus_mark
<1>2. opener[c].pc = "held" /\ opener[c].pc \in Granted  BY <1>1 DEF Twin!Opens, Granted
<1>3. opener[c].idx \in Indices /\ holder[c].pc = "held" /\ holder[c].index = opener[c].idx
  BY <1>2, GrantedIs
<1>4. Twin!ring_loculus_bit(opener[c].idx) = {holder[c].index}
  BY <1>3 DEF Twin!ring_loculus_bit, Twin!ring_loculus_all, Indices
<1>5. /\ keep' \in KeepState /\ opener[c] \in OpenerState /\ OpenerFits(opener[c])
      /\ holder[c] = HolderSeen(opener[c])
  BY <1>1, OpenerIs
<1>6. /\ UNCHANGED <<laid, buf, stream, segs, prod, cons, next, handed>>
      /\ Link' /\ use = "loculi" /\ holder' = [holder EXCEPT ![c] = HolderSeen(opener[c])]
  BY <1>1, <1>5, OpensLeave
<1>7. keepout' = keepout  BY <1>1, <1>5, OpensLeave
<1>8. LoculusStep(c, "held", holder[c])  BY <1>3, <1>5, <1>6 DEF LoculusStep
<1> QED BY <1>1, <1>4, <1>6, <1>7, <1>8 DEF LoculusMark

(* A store into one record. *)
LEMMA KeepStored ==
  ASSUME Link, Viewed', NEW i \in Indices, NEW k,
         k \in [buf : Holders \cup {"null"}, cap : Holders \cup {"none"}, pos : {0}],
         keep' = [keep EXCEPT ![i] = k]
  PROVE  /\ keep' \in KeepState /\ keepout' = [keepout EXCEPT ![i] = KeepSeen(k)]
         /\ keepout[i] = KeepSeen(keep[i])
<1>1. keep \in KeepState  BY DEF Link, OpenerLink
<1>2. /\ keepout = [j \in Indices |-> KeepSeen(keep[j])]
      /\ keepout' = [j \in Indices |-> KeepSeen(keep'[j])]
  BY HoldersSeen, HoldersSeenNext
<1>3. keep' \in KeepState /\ \A j \in Indices : keep'[j] = IF j = i THEN k ELSE keep[j]
  BY <1>1 DEF KeepState
<1> QED BY <1>2, <1>3

LEMMA InfinLoculusRecord ==
  ASSUME RingInv, Link, Viewed', NEW c \in Holders, Twin!infin_loculus_record(c)
  PROVE  LoculusRecord(c) /\ Link'
<1> DEFINE i == opener[c].idx
<1>1. UNCHANGED <<gratis, pinned>>  BY DEF Twin!infin_loculus_record
<1>2. opener[c].pc \in {"buf", "bytes", "read_offset"}
  BY DEF Twin!infin_loculus_record, Twin!Opens
<1>3. opener[c].pc \in Granted  BY <1>2 DEF Granted
<1>4. i \in Indices /\ holder[c].pc = opener[c].pc /\ holder[c].index = i
  BY <1>3, GrantedIs
<1>5. keep[i] \in [buf : Holders \cup {"null"}, cap : Holders \cup {"none"}, pos : {0}]
  BY <1>4 DEF Link, OpenerLink, KeepState
<1> HIDE DEF i
<1>6. ASSUME NEW from, NEW pc \in Granted, keep' \in KeepState,
             Twin!Opens(c, from, [opener[c] EXCEPT !.pc = pc])
      PROVE  LoculusStep(c, from, [holder[c] EXCEPT !.pc = pc]) /\ Link'
  <2> DEFINE to == [opener[c] EXCEPT !.pc = pc]
  <2>1. /\ to \in OpenerState /\ OpenerFits(to)
        /\ HolderSeen(to) = [holder[c] EXCEPT !.pc = pc]
    BY <1>3, GrantedFits
  <2>2. Twin!Opens(c, from, to)  BY <1>6
  <2> HIDE DEF to
  <2>3. /\ UNCHANGED <<laid, buf, stream, segs, prod, cons, next, handed>> /\ opener[c].pc = from
        /\ Link' /\ use = "loculi" /\ holder' = [holder EXCEPT ![c] = HolderSeen(to)]
    BY <1>6, <2>1, <2>2, OpensLeave
  <2> QED BY <1>4, <2>1, <2>3 DEF LoculusStep
<1>7. CASE Twin!Opens(c, "buf", [opener[c] EXCEPT !.pc = "bytes"])
           /\ keep' = [keep EXCEPT ![i].buf = c]
  <2> DEFINE k == [keep[i] EXCEPT !.buf = c]
  <2>1. k \in [buf : Holders \cup {"null"}, cap : Holders \cup {"none"}, pos : {0}]
        /\ KeepSeen(k) = [KeepSeen(keep[i]) EXCEPT !.buf = c]
    BY <1>5 DEF KeepSeen
  <2>2. keep' = [keep EXCEPT ![i] = k]  BY <1>7
  <2> HIDE DEF k
  <2>3. /\ keep' \in KeepState /\ keepout' = [keepout EXCEPT ![i] = KeepSeen(k)]
        /\ keepout[i] = KeepSeen(keep[i])
    BY <1>4, <2>1, <2>2, KeepStored
  <2>4. keepout' = [keepout EXCEPT ![i] = [keepout[i] EXCEPT !.buf = c]]  BY <2>1, <2>3
  <2>5. LoculusStep(c, "buf", [holder[c] EXCEPT !.pc = "bytes"]) /\ Link'
    BY <1>6, <1>7, <2>3 DEF Granted
  <2> QED BY <1>1, <1>4, <2>4, <2>5 DEF LoculusRecord, Recorded, Region
<1>8. CASE Twin!Opens(c, "bytes", [opener[c] EXCEPT !.pc = "read_offset"])
           /\ keep' = [keep EXCEPT ![i].cap = c]
  <2> DEFINE k == [keep[i] EXCEPT !.cap = c]
  <2>1. k \in [buf : Holders \cup {"null"}, cap : Holders \cup {"none"}, pos : {0}]
        /\ KeepSeen(k) = [KeepSeen(keep[i]) EXCEPT !.bytes = c]
    BY <1>5 DEF KeepSeen
  <2>2. keep' = [keep EXCEPT ![i] = k]  BY <1>8
  <2> HIDE DEF k
  <2>3. /\ keep' \in KeepState /\ keepout' = [keepout EXCEPT ![i] = KeepSeen(k)]
        /\ keepout[i] = KeepSeen(keep[i])
    BY <1>4, <2>1, <2>2, KeepStored
  <2>4. keepout' = [keepout EXCEPT ![i] = [keepout[i] EXCEPT !.bytes = c]]  BY <2>1, <2>3
  <2>5. LoculusStep(c, "bytes", [holder[c] EXCEPT !.pc = "read_offset"]) /\ Link'
    BY <1>6, <1>8, <2>3 DEF Granted
  <2> QED BY <1>1, <1>4, <2>4, <2>5 DEF LoculusRecord, Recorded, Region
<1>9. CASE Twin!Opens(c, "read_offset", [opener[c] EXCEPT !.pc = "held"])
           /\ keep' = [keep EXCEPT ![i].pos = 0]
  <2> DEFINE k == [keep[i] EXCEPT !.pos = 0]
  <2>1. k \in [buf : Holders \cup {"null"}, cap : Holders \cup {"none"}, pos : {0}]
        /\ KeepSeen(k) = [KeepSeen(keep[i]) EXCEPT !.read_offset = 0]
    BY <1>5 DEF KeepSeen
  <2>2. keep' = [keep EXCEPT ![i] = k]  BY <1>9
  <2> HIDE DEF k
  <2>3. /\ keep' \in KeepState /\ keepout' = [keepout EXCEPT ![i] = KeepSeen(k)]
        /\ keepout[i] = KeepSeen(keep[i])
    BY <1>4, <2>1, <2>2, KeepStored
  <2>4. keepout' = [keepout EXCEPT ![i] = [keepout[i] EXCEPT !.read_offset = 0]]  BY <2>1, <2>3
  <2>5. LoculusStep(c, "read_offset", [holder[c] EXCEPT !.pc = "held"]) /\ Link'
    BY <1>6, <1>9, <2>3 DEF Granted
  <2> QED BY <1>1, <1>4, <2>4, <2>5 DEF LoculusRecord, Recorded, Region
<1> QED BY <1>7, <1>8, <1>9 DEF Twin!infin_loculus_record, i

----------------------------------------------------------------------------
(* The twin as a whole. *)

(* Any size it accepts is one memoria_anularis accepts, no segment size     *)
(* given.                                                                  *)
LEMMA InfinInit ==
  ASSUME Twin!infin_init, Viewed
  PROVE  Init /\ Link
<1> DEFINE a == [capacity |-> capacity, segment_count |-> segment_count, segment_bytes |-> 0]
<1>1. /\ capacity \in 1 .. CapacityMost /\ Pow2(capacity)
      /\ segment_count \in 1 .. capacity /\ Pow2(segment_count)
      /\ segment_bytes = capacity \div segment_count
      /\ use \in {"stream", "segments", "loculi"}
      /\ buf = [i \in 0 .. capacity - 1 |-> Blank]
      /\ head = 0 /\ tail = 0 /\ claimed = 0 /\ released = 0
      /\ gratis = Indices /\ pinned = {}
      /\ keep = [i \in Indices |-> [buf |-> "null", cap |-> "none", pos |-> 0]]
      /\ filler = Twin!Filling(0) /\ drainer = Twin!Draining(0)
      /\ opener = [c \in Holders |-> Twin!Opening]
      /\ next = 0 /\ handed = <<>>
  BY DEF Twin!infin_init, Twin!POW2, Pow2, Blank, Twin!ring_loculus_all, Indices
<1>2. /\ capacity \in Nat \ {0} /\ segment_count \in Nat \ {0} /\ segment_count <= capacity
      /\ capacity \in 0 .. CapacityMost /\ segment_count \in 0 .. CapacityMost
  BY <1>1, Constants
<1>3. a \in [capacity : 0 .. CapacityMost, segment_count : 0 .. CapacityMost,
             segment_bytes : SegmentSizes]
  BY <1>2, EvenAssumption
<1>4. a.capacity = capacity /\ a.segment_count = segment_count /\ a.segment_bytes = 0
  OBVIOUS
<1> HIDE DEF a
<1>5. capacity \div segment_count \in Nat
  <2>1. segment_count > 0  BY <1>2
  <2> QED BY <1>2, <2>1
<1>6. Accepts(a)
  BY <1>1, <1>2, <1>4, <1>5 DEF Accepts
<1>7. prod = IdleSeen(0)
  <2>1. filler.pc = "idle" /\ filler.promise = 0  BY <1>1 DEF Twin!Filling
  <2> QED BY <2>1, ProducerSeen
<1>8. cons = IdlingSeen(0)
  <2>1. drainer.pc = "idle" /\ drainer.seen = 0  BY <1>1 DEF Twin!Draining
  <2> QED BY <2>1, ConsumerSeen
<1>9. FillerLink
  BY <1>1 DEF FillerLink, FillerState, Twin!Filling
<1>10. DrainerLink
  BY <1>1 DEF DrainerLink, DrainerState, Twin!Draining
<1>11. OpenerLink
  BY <1>1, OpeningFits DEF OpenerLink, KeepState
<1>12. Link  BY <1>9, <1>10, <1>11 DEF Link
<1>13. holder = [h \in Holders |-> [pc |-> "idle", mask |-> {}, index |-> 0]]
  BY <1>1, <1>12, HoldersSeen, OpeningFits
<1>14. keepout = [i \in 0 .. Loculi - 1 |-> NoSpan]
  <2>1. KeepSeen([buf |-> "null", cap |-> "none", pos |-> 0]) = NoSpan  BY DEF KeepSeen, NoSpan
  <2> QED BY <1>1, <1>12, <2>1, HoldersSeen DEF Indices
<1>15. /\ \E b \in [capacity : 0 .. CapacityMost, segment_count : 0 .. CapacityMost,
                    segment_bytes : SegmentSizes] :
            /\ Accepts(b)
            /\ capacity = IF b.segment_bytes # 0 THEN 1 ELSE b.capacity
            /\ segment_count = b.segment_count
            /\ segment_bytes = IF b.segment_bytes # 0 THEN b.segment_bytes
                               ELSE b.capacity \div b.segment_count
            /\ buf = [i \in 0 .. b.capacity - 1 |-> Blank]
  BY <1>1, <1>3, <1>4, <1>6
<1>16. Init
  BY <1>1, <1>7, <1>8, <1>13, <1>14, <1>15 DEF Init, IdleSeen, IdlingSeen, Indices
<1> QED BY <1>12, <1>16

(* Whatever entry of the twin steps, the ring steps or stands still.        *)
LEMMA InfinNext ==
  ASSUME RingInv, Link, Viewed', Twin!Next
  PROVE  [Next]_vars /\ Link'
<1>1. CASE Twin!Fill
  <2>1. (Producer \/ Same) /\ Link'
    <3>1. CASE \E bytes \in 0 .. CapacityMost : Twin!infin_put_fits(bytes)
      BY <3>1, InfinPutFits DEF Producer
    <3> QED BY <1>1, <3>1, InfinVacant, InfinPut, InfinMoveIn, InfinPutDone, InfinSegNext,
         InfinSegNextPick, InfinSegFill, InfinSegPublish DEF Twin!Fill, Producer
  <2> QED BY <2>1 DEF Next, Same
<1>2. CASE Twin!Drain
  <2>1. (Consumer \/ Same) /\ Link'
    <3>1. CASE \E call \in {"read out", "peek out"} : Twin!ring_move_out(call)
      BY <3>1, InfinMoveOut DEF Consumer
    <3>2. CASE \E bytes \in 0 .. CapacityMost : Twin!infin_read_have(bytes)
      BY <3>2, InfinReadHave DEF Consumer
    <3>3. CASE \E bytes \in 0 .. CapacityMost : Twin!infin_consume(bytes)
      BY <3>3, InfinConsume DEF Consumer
    <3>4. CASE \E bytes, off \in 0 .. CapacityMost : Twin!infin_peek(off, bytes)
      BY <3>4, InfinPeek DEF Consumer
    <3> QED BY <1>2, <3>1, <3>2, <3>3, <3>4, InfinAvailable, InfinReadByte, InfinReadByteAny,
         InfinReadByteCopy, InfinReadByteDone, InfinRead, InfinReadDone, InfinPeekDone,
         InfinSegFront, InfinSegFrontPick, InfinSegRead, InfinSegRelease
         DEF Twin!Drain, Consumer
  <2> QED BY <2>1 DEF Next, Same
<1>3. ASSUME NEW c \in Holders, Twin!Open(c) PROVE [Next]_vars /\ Link'
  <2>1. (Holding(c) \/ Same) /\ Link'
    BY <1>3, InfinLoculusReady, InfinLoculusNext, InfinLoculusNamed, InfinLoculusHold,
       InfinLoculusRecord, InfinLoculusDrop, InfinLoculusMark DEF Twin!Open, Holding
  <2> QED BY <2>1 DEF Next, Same
<1> QED BY <1>1, <1>2, <1>3 DEF Twin!Next

(* What holds of a ring and of whichever file works it.                     *)
RingsInv == RingInv /\ (file = "confinium_exclusivum_infinitas" => Link)

LEMMA RingsInitInv == ASSUME RingsInit PROVE Init /\ RingsInv
<1>1. CASE file = "memoria_anularis" /\ Init  BY <1>1, InitInv DEF RingsInv
<1>2. CASE /\ file = "confinium_exclusivum_infinitas" /\ Twin!infin_init
           /\ prod = Twin!ProducerView /\ cons = Twin!ConsumerView
           /\ holder = Twin!HolderView /\ keepout = Twin!KeepoutView
  <2>1. Viewed  BY <1>2 DEF Viewed
  <2> QED BY <1>2, <2>1, InfinInit, InitInv DEF RingsInv
<1> QED BY <1>1, <1>2 DEF RingsInit

LEMMA RingsNextInv == ASSUME RingsInv, [RingsNext]_ringsVars PROVE [Next]_vars /\ RingsInv'
<1>1. CASE file = "memoria_anularis" /\ Next /\ UNCHANGED <<file, twinVars>>
  BY <1>1, NextInv DEF RingsInv
<1>2. CASE /\ file = "confinium_exclusivum_infinitas" /\ Twin!Next /\ UNCHANGED file
           /\ prod' = Twin!ProducerView' /\ cons' = Twin!ConsumerView'
           /\ holder' = Twin!HolderView' /\ keepout' = Twin!KeepoutView'
  <2>1. Viewed'  BY <1>2 DEF Viewed
  <2>2. [Next]_vars /\ Link'  BY <1>2, <2>1, InfinNext DEF RingsInv
  <2> QED BY <2>2, NextInv, StutterInv DEF RingsInv
<1>3. CASE UNCHANGED ringsVars
  <2>1. UNCHANGED vars /\ UNCHANGED <<file, filler, drainer, opener, keep>>
    BY <1>3 DEF ringsVars, twinVars
  <2>2. UNCHANGED <<laid, buf, stream, segs, loculi, prod, cons, next, handed>>
    BY <2>1 DEF vars
  <2>3. ASSUME Link PROVE Link'
    <3>1. Viewed'
      BY <2>1, <2>2, <2>3 DEF Link, Viewed, laid, stream, segs, loculi, Twin!ProducerView,
         Twin!ConsumerView, Twin!HolderView, Twin!KeepoutView, Twin!Copying, Twin!Idling,
         Twin!ring_free, Twin!ring_used, Twin!ring_loculus_all
    <3>2. FillerLink'
      BY <2>1, <2>2, <2>3 DEF Link, FillerLink, InRun, Twin!ring_run, laid, stream, segs
    <3>3. DrainerLink'
      BY <2>1, <2>2, <2>3 DEF Link, DrainerLink, InRun, Twin!ring_run, laid, stream, segs
    <3>4. OpenerLink'  BY <2>1, <2>3 DEF Link, OpenerLink
    <3> QED BY <3>1, <3>2, <3>3, <3>4 DEF Link
  <2> QED BY <2>1, <2>3, StutterInv DEF RingsInv
<1> QED BY <1>1, <1>2, <1>3 DEF RingsNext

(* Every step of confinium_exclusivum_infinitas.c, with its loads of the    *)
(* two cursors apart and in either order where one call takes both, its     *)
(* moves in the two passes ring_move_in and ring_move_out loop over, and    *)
(* its segments through the index seg_next hands out, is a step of the ring *)
(* memoria_anularis.c has, or changes nothing a caller of it could see.     *)
THEOREM TwinIsRing == RingsSpec => Spec
<1>1. RingsInit => Init /\ RingsInv  BY RingsInitInv
<1>2. RingsInv /\ [RingsNext]_ringsVars => [Next]_vars /\ RingsInv'  BY RingsNextInv
<1> QED BY <1>1, <1>2, PTL DEF RingsSpec, Spec

(* So the queue is the same through the entries of either file, and so are  *)
(* the offsets' ranges, the snapshots, the copies apart and the keepouts.   *)
THEOREM BothFilesKeep ==
  RingsSpec => ImplementsFifo /\ [](TypeOK /\ CopiesApart /\ SnapshotsHold /\ KeepoutHolds)
BY TwinIsRing, RingImplementsFifo, TypeCorrect, CopiesNeverMeet, SnapshotsStand, KeepoutStands, PTL
=============================================================================
