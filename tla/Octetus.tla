--------------------------------- MODULE Octetus ---------------------------------
(***************************************************************************)
(* octetus_introitus_exitus over spatium: bytes appended to a span, and    *)
(* taken from one.  A span is [buf, cap, pos, overflow] over the bytes of  *)
(* a memory from buf on, a span to read [buf, len, pos, err].  A buf of    *)
(* Null is a span over nothing.                                            *)
(***************************************************************************)
EXTENDS Integers, Sequences

E == INSTANCE Endian

Null == -1
-----------------------------------------------------------------------------
(* spatium. *)

From(buf, cap) == [buf |-> buf, cap |-> cap, pos |-> 0, overflow |-> FALSE]

CFrom(buf, len) == [buf |-> buf, len |-> len, pos |-> 0, err |-> FALSE]

Ok(span) == span.buf # Null /\ span.cap # 0 /\ ~span.overflow

COk(view) == view.buf # Null /\ view.len # 0 /\ ~view.err

Reset(span) == [span EXCEPT !.pos = 0, !.overflow = FALSE]

Failed == [buf |-> Null, cap |-> 0, pos |-> 0, overflow |-> TRUE]

After(span, count) ==
  IF count > span.cap THEN Failed
  ELSE [buf |-> IF span.buf = Null THEN Null ELSE span.buf + count,
        cap |-> span.cap - count,
        pos |-> IF span.pos > count THEN span.pos - count ELSE 0,
        overflow |-> span.overflow]

First(span, count) ==
  IF count > span.cap THEN Failed
  ELSE [span EXCEPT !.cap = count, !.pos = IF @ < count THEN @ ELSE count]

View(span, count) ==
  [buf |-> span.buf, len |-> IF count < span.pos THEN count ELSE span.pos, pos |-> 0,
   err |-> span.overflow \/ count > span.pos]

Produced(span) == View(span, span.pos)
-----------------------------------------------------------------------------
(* Appends.  The cursor advances whether the bytes fit or not, so it counts *)
(* what the whole would have taken; an overflow stands until a reset.       *)

Claims(span, bytes) ==
  span.buf # Null /\ ~span.overflow /\ span.pos <= span.cap /\ bytes <= span.cap - span.pos

Claimed(span, bytes) ==
  [span EXCEPT !.pos = @ + bytes, !.overflow = @ \/ ~Claims(span, bytes)]

\* An append of bytes at the cursor, which Store puts in a memory when they fit.
Append1(s, bytes, Store(_, _)) ==
  [span |-> Claimed(s.span, bytes),
   mem |-> IF Claims(s.span, bytes) THEN Store(s.mem, s.span.buf + s.span.pos) ELSE s.mem]

Put(s, byte) ==
  LET Store(mem, at) == [mem EXCEPT ![at] = byte]
  IN  Append1(s, 1, Store)

Raw(s, src) ==
  LET Store(mem, at) ==
        [k \in DOMAIN mem |-> IF k \in at .. at + Len(src) - 1 THEN src[k - at + 1] ELSE mem[k]]
  IN  Append1(s, Len(src), Store)

\* The stores of a width: one of eight bytes, or one for every bit of the width.
Pieces(width) ==
  LET Piece(w) == IF (width \div w) % 2 = 1 THEN <<w>> ELSE <<>>
  IN  IF width >= 8 THEN <<8>> ELSE Piece(4) \o Piece(2) \o Piece(1)

\* Mutant: the third piece is stored over the second.
PieceAtFirst(pieces, n) == IF n = 1 THEN 0 ELSE pieces[1]

PieceAt(pieces, n) == IF n = 1 THEN 0 ELSE pieces[1] + IF n = 3 THEN pieces[2] ELSE 0

Piecewise(mem, at, value, pieces) ==
  LET Done[n \in 0 .. Len(pieces)] ==
        IF n = 0 THEN mem
        ELSE E!Stored(Done[n - 1], at + PieceAt(pieces, n),
                      E!ShiftDown(value, 8 * PieceAt(pieces, n)), pieces[n])
  IN  Done[Len(pieces)]

PutBe(s, value, width) ==
  LET Store(mem, at) == Piecewise(mem, at, E!Rev(value, width), Pieces(width))
  IN  Append1(s, width, Store)
-----------------------------------------------------------------------------
(* Takes. *)

Takes(view, bytes) ==
  view.buf # Null /\ ~view.err /\ view.pos <= view.len /\ bytes <= view.len - view.pos

Taken(view, bytes) ==
  IF Takes(view, bytes) THEN [view EXCEPT !.pos = @ + bytes] ELSE [view EXCEPT !.err = TRUE]

Gathered(mem, at, pieces) ==
  UNION {E!ShiftUp(E!Loaded(mem, at + PieceAt(pieces, n), pieces[n]), 8 * PieceAt(pieces, n))
         : n \in 1 .. Len(pieces)}

TakeBe(mem, view, width) ==
  [view |-> Taken(view, width), ok |-> Takes(view, width),
   value |-> IF Takes(view, width)
             THEN E!Rev(Gathered(mem, view.buf + view.pos, Pieces(width)), width) ELSE {}]

\* A run of bytes after a length of four.  A run past the end puts the cursor back.
RdStr(mem, view) ==
  LET length == TakeBe(mem, view, 4)
      bytes == IF length.value \subseteq 0 .. 29 THEN E!NumberOf(length.value) ELSE 2^30
      run == Taken(length.view, bytes)
  IN  CASE ~length.ok -> [view |-> length.view, ok |-> FALSE, blob |-> <<>>]
        [] length.ok /\ ~Takes(length.view, bytes) ->
             [view |-> [run EXCEPT !.pos = view.pos], ok |-> FALSE, blob |-> <<>>]
        [] OTHER -> [view |-> run, ok |-> TRUE,
                     blob |-> [k \in 1 .. bytes |-> mem[view.buf + length.view.pos + k - 1]]]

\* A number right aligned in the whole of a field, its leading zeros not counted.
MpintFixed(s, src) ==
  LET zeros == CHOOSE n \in 0 .. Len(src) :
                 /\ \A k \in 1 .. n : src[k] = 0
                 /\ n < Len(src) => src[n + 1] # 0
      bytes == Len(src) - zeros
      fill == s.span.cap - bytes
      InField(k) == k - s.span.buf \in 0 .. s.span.cap - 1
  IN  IF s.span.buf = Null \/ bytes > s.span.cap
      THEN [span |-> [s.span EXCEPT !.overflow = TRUE], mem |-> s.mem]
      ELSE [span |-> [s.span EXCEPT !.pos = s.span.cap],
            mem |-> [k \in DOMAIN s.mem |->
                       CASE ~InField(k) -> s.mem[k]
                         [] InField(k) /\ k - s.span.buf < fill -> 0
                         [] OTHER -> src[k - s.span.buf - fill + zeros + 1]]]
=============================================================================
