-------------------------------- MODULE MCFluxus --------------------------------
(***************************************************************************)
(* Short runs of appends to a span and to a bit writer, each state read    *)
(* back against what was asked so far.                                     *)
(***************************************************************************)
EXTENDS Octetus, FiniteSetsExt, SequencesExt

CONSTANTS SpanCaps, BitCaps, MaxAppends, MaxPoured

ASSUME CapsAssumption == SpanCaps \subseteq Nat /\ BitCaps \subseteq Nat

VARIABLES
  span,    \* the span and its memory, of Octetus
  wrote,   \* the appends asked since the span was made or reset
  bits,    \* the writer of Bitorum
  poured   \* the bits asked of it, and the zeros of every alignment

fluxVars == <<span, wrote, bits, poured>>

B == INSTANCE Bitorum

Buf == 2

FluxInit ==
  /\ \E c \in SpanCaps : span = [span |-> From(Buf, c), mem |-> [k \in 0 .. Buf + c + 2 |-> 255]]
  /\ \E c \in BitCaps : bits = B!InitWriter(c, 255)
  /\ wrote = <<>> /\ poured = <<>>

Bytes(item) == IF item.kind = "be" THEN item.width ELSE Len(item.src)

\* A number in a field fills it, so it stands alone.
Numbered == wrote # <<>> /\ wrote[1].kind = "mpint"

Wrote(item) ==
  /\ Len(wrote) < MaxAppends /\ ~Numbered
  /\ wrote' = Append(wrote, item)
  /\ UNCHANGED <<bits, poured>>

PutByte == Wrote([kind |-> "raw", src |-> <<200>>]) /\ span' = Put(span, 200)

PutRaw(src) == Wrote([kind |-> "raw", src |-> src]) /\ span' = Raw(span, src)

PutWide(value, width) ==
  /\ Wrote([kind |-> "be", width |-> width, value |-> value])
  /\ span' = PutBe(span, value, width)

PutNumber(src) ==
  /\ wrote = <<>> /\ span.span.pos = 0
  /\ wrote' = <<[kind |-> "mpint", src |-> src]>>
  /\ span' = MpintFixed(span, src)
  /\ UNCHANGED <<bits, poured>>

ResetSpan ==
  /\ span.span.overflow
  /\ span' = [span EXCEPT !.span = Reset(@)] /\ wrote' = <<>> /\ UNCHANGED <<bits, poured>>

PutBits(val, count) ==
  /\ Len(poured) <= MaxPoured
  /\ bits' = B!Put(bits, val, count)
  /\ poured' = poured \o [k \in 1 .. count |-> (k - 1) \in val]
  /\ UNCHANGED <<span, wrote>>

AlignBits ==
  /\ bits' = B!Align(bits)
  /\ poured' = poured \o [k \in 1 .. (8 - (Len(poured) % 8)) % 8 |-> FALSE]
  /\ UNCHANGED <<span, wrote>>

SpanNext ==
  \/ PutByte \/ PutRaw(<<1, 2, 3>>) \/ ResetSpan
  \/ PutWide({0, 1}, 4) \/ \E width \in {4, 7, 8} : PutWide({0, 1, 9, 16}, width)
  \/ PutNumber(<<0, 0, 9, 8>>) \/ PutNumber(<<0>>) \/ PutNumber(<<7, 6, 0, 5, 4, 3>>)

BitNext == PutBits({0, 2, 3}, 5) \/ PutBits({0, 1, 3, 7, 9}, 11) \/ PutBits({0, 63, 30}, 64) \/ AlignBits
-----------------------------------------------------------------------------
\* Where each of the appends ends.
Sums ==
  LET Sum[n \in 0 .. Len(wrote)] == IF n = 0 THEN 0 ELSE Sum[n - 1] + Bytes(wrote[n])
  IN  Sum

Memory(view) == [k \in 1 .. view.len |-> span.mem[view.buf + k - 1]]

\* The views after each of the takes that mirror the appends.
Views ==
  LET After1[n \in 0 .. Len(wrote)] ==
        IF n = 0 THEN Produced(span.span) ELSE Taken(After1[n - 1], Bytes(wrote[n]))
  IN  After1

Mirrors(n) ==
  LET view == Views[n - 1]
      item == wrote[n]
  IN  IF item.kind = "be"
      THEN LET got == TakeBe(span.mem, view, item.width)
           IN  got.ok /\ got.value = item.value \cap 0 .. 8 * item.width - 1
      ELSE Takes(view, Len(item.src))
             /\ SubSeq(Memory(Produced(span.span)), Sums[n - 1] + 1, Sums[n]) = item.src

\* A length of four followed by a run of as many bytes is what RdStr takes; where the run is
\* short, the cursor stays.
RunsRead(n) ==
  LET got == RdStr(span.mem, Views[n - 1])
      from == Sums[n - 1] + 4
      to == from + E!NumberOf(wrote[n].value)
  IN  wrote[n].kind = "be" /\ wrote[n].width = 4 =>
        /\ got.ok = (to <= Sums[Len(wrote)])
        /\ IF got.ok
           THEN /\ got.blob = SubSeq(Memory(Produced(span.span)), from + 1, to)
                /\ got.view = [Views[n - 1] EXCEPT !.pos = to]
           ELSE got.view = [Views[n - 1] EXCEPT !.err = TRUE]

Parted ==
  \A n \in 0 .. span.span.cap :
    Memory(Produced(First(span.span, n))) \o Memory(Produced(After(span.span, n)))
      = Memory(Produced(span.span))

NumberMeant(src) ==
  LET value == SelectInSeq(src, LAMBDA b : b # 0)
      kept == IF value = 0 THEN <<>> ELSE SubSeq(src, value, Len(src))
      cap == span.span.cap
  IN  IF Len(kept) > cap THEN span.span.overflow
      ELSE Memory(Produced(span.span)) = [k \in 1 .. cap - Len(kept) |-> 0] \o kept

\* What was appended reads back in order, the cursor counts all that was asked, and an append
\* that does not fit changes nothing and fails every read until the span is reset.
SpansMirror ==
  LET cap == span.span.cap
      total == Sums[Len(wrote)]
  IN  IF Numbered THEN NumberMeant(wrote[1].src)
      ELSE /\ span.span.overflow = (total > cap)
           /\ span.span.pos = total
           /\ ~span.span.overflow =>
                /\ \A n \in 1 .. Len(wrote) : Mirrors(n) /\ RunsRead(n)
                /\ ~Takes(Views[Len(wrote)], 1)
                /\ Parted
           /\ span.span.overflow => ~Takes(Produced(span.span), 1)

BitAt(k) == IF k \div 8 < bits.bytes_written THEN k % 8 \in B!BitsOf(bits.out[k \div 8])
            ELSE k % 8 \in bits.residue

\* The bits asked are the bits written, first in the lowest, and those of a put that does not
\* fit are dropped whole.
BitsMirror ==
  LET count == 8 * bits.bytes_written + bits.bit_count
  IN  /\ ~bits.overflow => count = Len(poured)
      /\ \A k \in 0 .. 8 * bits.bytes_written - 1 : BitAt(k) = poured[k + 1]
      /\ ~bits.overflow => \A k \in 0 .. count - 1 : BitAt(k) = poured[k + 1]
      /\ bits.bit_count < 8 /\ bits.bytes_written <= bits.cap
      /\ \A k \in bits.bytes_written .. bits.cap + 1 : bits.out[k] = 255

\* spatium.c, octetus_introitus_exitus.c and bitorum_introitus_exitus.c: what was appended reads
\* back in order, and what did not fit changes nothing and fails every read until a reset.
ReadsMirrorWrites ==
  /\ SpansMirror /\ BitsMirror
  /\ \A k \in DOMAIN span.mem : k \notin Buf .. Buf + span.span.cap - 1 => span.mem[k] = 255
=============================================================================
