------------------------------ MODULE TextusProofs ------------------------------
(***************************************************************************)
(* Text that reaches a buffer, by lines and by rows.                       *)
(*                                                                         *)
(* A line keeps what it is given.  The invariant says what the bytes flush *)
(* took, the bytes in the buffer and the part of the entry under way that  *)
(* was put have to do with each other, between any two pieces; a line that *)
(* is full reads what it read when it filled.                              *)
(*                                                                         *)
(* A row is appended whole or not at all.  A buffer grown by a text keeps  *)
(* every byte below where it started, holds the text from there for as     *)
(* long as it has not run over, and never touches the byte past its end;   *)
(* a piece, the pieces of a value and the values of a row each grow it by  *)
(* their own text; and where one of them does not fit, or does not match,  *)
(* the terminator put back where the row began takes all of it away.       *)
(***************************************************************************)
EXTENDS VerbaLinea, NumerosStatus, SequenceTheorems, FiniteSetTheorems, WellFoundedInduction, TLAPS

CONSTANTS Fields, Values, MaxCalls

Numeros == INSTANCE NumerosScribo

-----------------------------------------------------------------------------
(* A line.                                                                 *)

NonZero == Nat \ {0}

Outs == UNION {[0 .. c - 1 -> Nat] : c \in Nat}

IsLine(l) ==
  /\ l \in [out : Outs, cap : Nat, at : Nat, flushed : Nat, hands : BOOLEAN]
  /\ l.out \in [0 .. l.cap - 1 -> Nat] /\ l.at <= l.cap

(* An open line: what flush took and the bytes before the offset are text.  *)
Open(l, dev, text) ==
  /\ ~Full(l)
  /\ \A k \in 0 .. l.at - 1 : l.out[k] \in NonZero
  /\ dev \o Bytes(l) = text

(* What flush took and the bytes before the first terminator are text.      *)
Reads(l, dev, text) ==
  \E n \in 0 .. l.cap - 1 :
    /\ l.out[n] = 0
    /\ \A k \in 0 .. n - 1 : l.out[k] \in NonZero
    /\ dev \o [k \in 1 .. n |-> l.out[k - 1]] = text

LEMMA OutIs ==
  ASSUME NEW l, IsLine(l), NEW fresh \in [0 .. l.cap - 1 -> Nat], NEW at \in Nat, at <= l.cap,
         NEW flushed \in Nat
  PROVE  LET r == [l EXCEPT !.out = fresh, !.at = at, !.flushed = flushed]
         IN  /\ IsLine(r)
             /\ r.out = fresh /\ r.at = at /\ r.flushed = flushed /\ r.cap = l.cap /\ r.hands = l.hands
<1> DEFINE r == [l EXCEPT !.out = fresh, !.at = at, !.flushed = flushed]
<1>1. fresh \in Outs
  BY DEF Outs, IsLine
<1>2. /\ r \in [out : Outs, cap : Nat, at : Nat, flushed : Nat, hands : BOOLEAN]
      /\ r.out = fresh /\ r.at = at /\ r.flushed = flushed /\ r.cap = l.cap /\ r.hands = l.hands
  <2> HIDE DEF Outs
  <2> QED BY <1>1 DEF IsLine
<1> HIDE DEF r
<1> QED BY <1>2 DEF IsLine, r

LEMMA WrittenIs ==
  ASSUME NEW cap \in Nat, NEW fresh \in [0 .. cap - 1 -> Nat], NEW at \in Nat, NEW text \in Seq(NonZero),
         at + Len(text) <= cap
  PROVE  /\ Verba!Written(fresh, at, text) \in [0 .. cap - 1 -> Nat]
         /\ \A k \in 0 .. at - 1 : Verba!Written(fresh, at, text)[k] = fresh[k]
         /\ \A k \in 1 .. Len(text) : Verba!Written(fresh, at, text)[at + k - 1] = text[k]
<1>1. Len(text) \in Nat /\ \A k \in 1 .. Len(text) : text[k] \in NonZero
  OBVIOUS
<1>2. \A k \in 0 .. cap - 1 : k \in at .. at + Len(text) - 1 => k - at + 1 \in 1 .. Len(text)
  BY <1>1
<1>3. \A k \in 1 .. Len(text) :
        at + k - 1 \in 0 .. cap - 1 /\ at + k - 1 \in at .. at + Len(text) - 1 /\ at + k - 1 - at + 1 = k
  BY <1>1
<1>4. DOMAIN fresh = 0 .. cap - 1
  OBVIOUS
<1>5. Verba!Written(fresh, at, text) \in [0 .. cap - 1 -> Nat]
  BY <1>1, <1>2, <1>4 DEF Verba!Written, NonZero
<1>6. ASSUME NEW k \in 1 .. Len(text) PROVE Verba!Written(fresh, at, text)[at + k - 1] = text[k]
  <2> DEFINE j == at + k - 1
  <2>1. j \in DOMAIN fresh /\ j \in at .. at + Len(text) - 1 /\ j - at + 1 = k
    BY <1>3, <1>4
  <2> HIDE DEF j
  <2>2. Verba!Written(fresh, at, text)[j] = text[j - at + 1]
    BY <2>1 DEF Verba!Written
  <2> QED BY <2>1, <2>2 DEF j
<1>7. ASSUME NEW k \in 0 .. at - 1 PROVE Verba!Written(fresh, at, text)[k] = fresh[k]
  BY <1>1, <1>4 DEF Verba!Written
<1> QED BY <1>5, <1>6, <1>7

LEMMA BytesIs ==
  ASSUME NEW l, IsLine(l), \A k \in 0 .. l.at - 1 : l.out[k] \in NonZero
  PROVE  Bytes(l) \in Seq(NonZero) /\ Len(Bytes(l)) = l.at /\ \A k \in 1 .. l.at : Bytes(l)[k] = l.out[k - 1]
<1>1. l.at \in Nat
  BY DEF IsLine
<1>2. \A k \in 1 .. l.at : l.out[k - 1] \in NonZero
  BY <1>1
<1> QED BY <1>1, <1>2 DEF Bytes

LEMMA PutOpen ==
  ASSUME NEW l, IsLine(l), NEW dev \in Seq(NonZero), NEW s \in Seq(NonZero), Open(l, dev, s),
         NEW text \in Seq(NonZero), Len(text) <= l.cap - l.at - 1
  PROVE  LET p == Verba!PutN(l, text)
         IN  /\ IsLine(p) /\ Open(p, dev, s \o text)
             /\ p.cap = l.cap /\ p.at = l.at + Len(text) /\ p.flushed = l.flushed /\ p.hands = l.hands
<1> DEFINE p == Verba!PutN(l, text)
           c == l.cap
           a == l.at
           n == Len(text)
           at == a + n
           fresh == Verba!Written(l.out, a, text)
<1>1. c \in Nat /\ a \in Nat /\ l.out \in [0 .. c - 1 -> Nat] /\ l.flushed \in Nat /\ n \in Nat /\ a < c /\ n <= c - a - 1
  BY DEF IsLine, Open, Full
<1>2. at \in Nat /\ at <= c /\ at < c
  <2> HIDE DEF a, n, c
  <2> QED BY <1>1
<1>3. /\ fresh \in [0 .. c - 1 -> Nat]
      /\ \A k \in 0 .. a - 1 : fresh[k] = l.out[k]
      /\ \A k \in 1 .. n : fresh[a + k - 1] = text[k]
  <2> DEFINE o == l.out
  <2>1. c \in Nat /\ o \in [0 .. c - 1 -> Nat] /\ a \in Nat /\ text \in Seq(NonZero) /\ a + Len(text) <= c
    BY <1>1, <1>2
  <2> HIDE DEF a, c, o
  <2>2. LET w == Verba!Written(o, a, text)
        IN  /\ w \in [0 .. c - 1 -> Nat]
            /\ \A k \in 0 .. a - 1 : w[k] = o[k]
            /\ \A k \in 1 .. Len(text) : w[a + k - 1] = text[k]
    BY ONLY <2>1, WrittenIs
  <2> QED BY <2>2 DEF o
<1>4. p = [l EXCEPT !.out = fresh, !.at = at]
  BY <1>1 DEF Verba!PutN, Verba!Room
<1> HIDE DEF fresh, a, n, c, p
<1>5. IsLine(p)
  <2>1. p = [l EXCEPT !.out = fresh, !.at = at, !.flushed = l.flushed]
    BY <1>4 DEF IsLine
  <2> HIDE DEF at
  <2> QED BY <2>1, <1>1, <1>2, <1>3, OutIs DEF c
<1>6. p.out = fresh /\ p.cap = c /\ p.at = at /\ p.flushed = l.flushed /\ p.hands = l.hands
  BY <1>4 DEF IsLine, c
<1>7. \A k \in 0 .. at - 1 : fresh[k] \in NonZero
  <2> TAKE k \in 0 .. at - 1
  <2>1. CASE k < a
    <3>1. k \in 0 .. a - 1
      BY <2>1, <1>1
    <3>2. l.out[k] \in NonZero
      BY <3>1 DEF Open, a
    <3> QED BY <3>1, <3>2, <1>3
  <2>2. CASE k >= a
    <3>1. k - a + 1 \in 1 .. n /\ a + (k - a + 1) - 1 = k
      BY <2>2, <1>1
    <3>2. fresh[k] = text[k - a + 1]
      BY <3>1, <1>3
    <3> QED BY <3>1, <3>2 DEF n
  <2> QED BY <2>1, <2>2, <1>1
<1>8. Bytes(p) = Bytes(l) \o text
  <2> DEFINE b == Bytes(l)
             t == b \o text
  <2>1. b \in Seq(NonZero) /\ Len(b) = a /\ \A k \in 1 .. a : b[k] = l.out[k - 1]
    BY BytesIs DEF Open, a
  <2>2. Bytes(p) \in Seq(NonZero) /\ Len(Bytes(p)) = at /\ \A k \in 1 .. at : Bytes(p)[k] = fresh[k - 1]
    BY <1>5, <1>6, <1>7, BytesIs
  <2> HIDE DEF b
  <2>3. t \in Seq(NonZero) /\ Len(t) = at /\ \A k \in 1 .. at : t[k] = IF k <= a THEN b[k] ELSE text[k - a]
    BY <2>1, ConcatProperties DEF n
  <2> HIDE DEF t
  <2>4. ASSUME NEW k \in 1 .. at PROVE Bytes(p)[k] = t[k]
    <3>1. CASE k <= a
      <4>1. k - 1 \in 0 .. a - 1 /\ k \in 1 .. a
        BY <3>1, <1>1
      <4> QED BY <3>1, <4>1, <2>1, <2>2, <2>3, <1>3
    <3>2. CASE k > a
      <4>1. k - a \in 1 .. n /\ a + (k - a) - 1 = k - 1
        BY <3>2, <1>1
      <4>2. fresh[k - 1] = text[k - a]
        <5>1. fresh[a + (k - a) - 1] = text[k - a]
          BY ONLY <4>1, <1>3
        <5> QED BY <4>1, <5>1
      <4>3. t[k] = text[k - a]
        <5>1. ~(k <= a)
          BY <3>2, <1>1
        <5> QED BY ONLY <5>1, <2>3, k \in 1 .. at
      <4> QED BY <4>2, <4>3, <2>2
    <3> QED BY <3>1, <3>2, <1>1
  <2>5. Bytes(p) = t
    BY <2>2, <2>3, <2>4, SeqEqual
  <2> QED BY <2>5 DEF t, b
<1>9. dev \o Bytes(p) = s \o text
  <2>1. Bytes(l) \in Seq(NonZero) /\ s = dev \o Bytes(l)
    BY BytesIs DEF Open
  <2> QED BY <1>8, <2>1, ConcatAssociative
<1>10. ~Full(p)
  BY <1>1, <1>2, <1>6 DEF Full
<1> QED BY <1>5, <1>6, <1>7, <1>9, <1>10 DEF Open, p, a, n, c

(* A terminator stored at a place of a line leaves the rest of it.          *)
LEMMA StoredIs ==
  ASSUME NEW l, IsLine(l), NEW i \in 0 .. l.cap - 1
  PROVE  LET r == [l EXCEPT !.out[i] = 0]
         IN  /\ IsLine(r) /\ r.at = l.at /\ r.flushed = l.flushed /\ r.cap = l.cap /\ r.hands = l.hands
             /\ r.out[i] = 0 /\ \A k \in 0 .. l.cap - 1 : k # i => r.out[k] = l.out[k]
<1> DEFINE r == [l EXCEPT !.out[i] = 0]
           fresh == [l.out EXCEPT ![i] = 0]
<1>1. fresh \in [0 .. l.cap - 1 -> Nat] /\ fresh[i] = 0 /\ \A k \in 0 .. l.cap - 1 : k # i => fresh[k] = l.out[k]
  BY DEF IsLine
<1>2. fresh \in Outs
  BY <1>1 DEF Outs, IsLine
<1>3. r = [l EXCEPT !.out = fresh]
  BY DEF IsLine
<1> HIDE DEF fresh, r
<1>4. /\ r \in [out : Outs, cap : Nat, at : Nat, flushed : Nat, hands : BOOLEAN]
      /\ r.out = fresh /\ r.at = l.at /\ r.flushed = l.flushed /\ r.cap = l.cap /\ r.hands = l.hands
  <2> HIDE DEF Outs
  <2> QED BY <1>2, <1>3 DEF IsLine
<1>5. IsLine(r)
  BY <1>1, <1>4 DEF IsLine
<1> QED BY <1>1, <1>4, <1>5 DEF r

LEMMA TerminatedOpen ==
  ASSUME NEW l, IsLine(l), NEW dev, NEW s, Open(l, dev, s)
  PROVE  LET r == Terminated(l)
         IN  /\ IsLine(r) /\ Open(r, dev, s) /\ r.out[r.at] = 0
             /\ r.at = l.at /\ r.flushed = l.flushed /\ r.cap = l.cap /\ r.hands = l.hands
<1> DEFINE r == Terminated(l)
<1>1. l.at \in 0 .. l.cap - 1 /\ l.cap # 0 /\ l.at \in Nat /\ l.cap \in Nat
  BY DEF IsLine, Open, Full
<1>2. r = [l EXCEPT !.out[l.at] = 0]
  BY <1>1 DEF Terminated, Open
<1> HIDE DEF r
<1>3. /\ IsLine(r) /\ r.at = l.at /\ r.flushed = l.flushed /\ r.cap = l.cap /\ r.hands = l.hands
      /\ r.out[l.at] = 0 /\ \A k \in 0 .. l.cap - 1 : k # l.at => r.out[k] = l.out[k]
  BY <1>1, <1>2, StoredIs
<1>4. \A k \in 0 .. l.at - 1 : r.out[k] = l.out[k]
  <2> TAKE k \in 0 .. l.at - 1
  <2>1. k \in 0 .. l.cap - 1 /\ k # l.at
    BY <1>1
  <2> QED BY <2>1, <1>3
<1>5. Bytes(r) = Bytes(l)
  <2>1. \A k \in 1 .. l.at : r.out[k - 1] = l.out[k - 1]
    BY <1>1, <1>4
  <2> QED BY <1>3, <2>1 DEF Bytes
<1> QED BY <1>3, <1>4, <1>5 DEF Open, Full, r

LEMMA FilledIs ==
  ASSUME NEW l, IsLine(l)
  PROVE  LET r == Filled(l)
         IN  /\ IsLine(r) /\ Full(r) /\ r.flushed = l.flushed /\ r.cap = l.cap /\ r.hands = l.hands
             /\ \A k \in 0 .. l.cap - 1 : r.out[k] = IF k = l.cap - 1 THEN 0 ELSE l.out[k]
<1> DEFINE r == Filled(l)
           m == [l EXCEPT !.at = l.cap]
<1>1. /\ IsLine(m) /\ m.out = l.out /\ m.at = l.cap /\ m.flushed = l.flushed /\ m.cap = l.cap
      /\ m.hands = l.hands /\ l.cap \in Nat
  <2>1. /\ m \in [out : Outs, cap : Nat, at : Nat, flushed : Nat, hands : BOOLEAN] /\ l.cap \in Nat
        /\ m.out = l.out /\ m.at = l.cap /\ m.flushed = l.flushed /\ m.cap = l.cap /\ m.hands = l.hands
    BY DEF IsLine
  <2> HIDE DEF m
  <2> QED BY <2>1 DEF IsLine
<1>2. r = Terminated(m)
  BY DEF Filled
<1> HIDE DEF m, r
<1>3. CASE l.cap = 0
  <2>1. r = m
    BY <1>1, <1>2, <1>3 DEF Terminated
  <2> QED BY <1>1, <1>3, <2>1 DEF Full, r
<1>4. CASE l.cap # 0
  <2>1. l.cap - 1 \in 0 .. l.cap - 1
    BY <1>1, <1>4
  <2>2. r = [m EXCEPT !.out[l.cap - 1] = 0]
    BY <1>1, <1>2, <1>4 DEF Terminated, Full
  <2>3. /\ IsLine(r) /\ r.at = m.at /\ r.flushed = m.flushed /\ r.cap = m.cap /\ r.hands = m.hands
        /\ r.out[l.cap - 1] = 0 /\ \A k \in 0 .. l.cap - 1 : k # l.cap - 1 => r.out[k] = m.out[k]
    BY <1>1, <2>1, <2>2, StoredIs
  <2> QED BY <1>1, <2>3 DEF Full, r
<1> QED BY <1>3, <1>4

(* A line filled where its text ends, or at its last byte, reads the same.  *)
LEMMA FilledReads ==
  ASSUME NEW l, IsLine(l), NEW dev, NEW s, Open(l, dev, s), l.at = l.cap - 1 \/ l.out[l.at] = 0
  PROVE  Reads(Filled(l), dev, s)
<1> DEFINE r == Filled(l)
           n == l.at
<1>1. r.cap = l.cap /\ \A k \in 0 .. l.cap - 1 : r.out[k] = IF k = l.cap - 1 THEN 0 ELSE l.out[k]
  BY FilledIs
<1>2. n \in Nat /\ l.cap \in Nat /\ n < l.cap
  BY DEF IsLine, Open, Full
<1> HIDE DEF r
<1>3. r.out[n] = 0 /\ \A k \in 0 .. n - 1 : r.out[k] = l.out[k]
  BY <1>1, <1>2
<1>4. [k \in 1 .. n |-> r.out[k - 1]] = Bytes(l)
  <2>1. \A k \in 1 .. n : r.out[k - 1] = l.out[k - 1]
    BY <1>2, <1>3
  <2> QED BY <2>1 DEF Bytes
<1>5. n \in 0 .. r.cap - 1
  BY <1>1, <1>2
<1> QED BY <1>3, <1>4, <1>5 DEF Reads, Open, r

LEMMA FullStays ==
  ASSUME NEW l, IsLine(l), NEW dev, NEW s, Reads(l, dev, s)
  PROVE  Reads(Filled(l), dev, s)
<1> DEFINE r == Filled(l)
<1>1. r.cap = l.cap /\ \A k \in 0 .. l.cap - 1 : r.out[k] = IF k = l.cap - 1 THEN 0 ELSE l.out[k]
  BY FilledIs
<1> HIDE DEF r
<1>2. PICK n \in 0 .. l.cap - 1 :
        /\ l.out[n] = 0
        /\ \A k \in 0 .. n - 1 : l.out[k] \in NonZero
        /\ dev \o [k \in 1 .. n |-> l.out[k - 1]] = s
  BY DEF Reads
<1>3. l.cap \in Nat
  BY DEF IsLine
<1>4. r.out[n] = 0 /\ \A k \in 0 .. n - 1 : r.out[k] = l.out[k]
  BY <1>1, <1>2, <1>3
<1>5. [k \in 1 .. n |-> r.out[k - 1]] = [k \in 1 .. n |-> l.out[k - 1]]
  BY <1>4
<1> QED BY <1>1, <1>2, <1>4, <1>5 DEF Reads, r

LEMMA HandedOpen ==
  ASSUME NEW l, IsLine(l), NEW dev \in Seq(NonZero), NEW s, Open(l, dev, s)
  PROVE  LET r == HandedOn(l, TRUE)
         IN  /\ IsLine(r) /\ Open(r, dev \o Bytes(l), s) /\ r.out[r.at] = 0
             /\ r.at = 0 /\ r.flushed = l.flushed + l.at /\ r.cap = l.cap /\ r.hands = l.hands
             /\ dev \o Bytes(l) \in Seq(NonZero) /\ Len(dev \o Bytes(l)) = Len(dev) + l.at
<1> DEFINE m == [l EXCEPT !.flushed = @ + l.at, !.at = 0]
           d == dev \o Bytes(l)
<1>1. l.at \in Nat /\ l.cap \in Nat /\ l.at < l.cap /\ l.flushed \in Nat /\ l.out \in [0 .. l.cap - 1 -> Nat]
  BY DEF IsLine, Open, Full
<1>2. /\ IsLine(m) /\ m.out = l.out /\ m.at = 0 /\ m.flushed = l.flushed + l.at /\ m.cap = l.cap
      /\ m.hands = l.hands
  <2>1. l.flushed + l.at \in Nat
    BY <1>1
  <2>2. /\ m \in [out : Outs, cap : Nat, at : Nat, flushed : Nat, hands : BOOLEAN] /\ m.out = l.out
        /\ m.at = 0 /\ m.flushed = l.flushed + l.at /\ m.cap = l.cap /\ m.hands = l.hands
    BY <2>1 DEF IsLine
  <2> HIDE DEF m
  <2> QED BY <1>1, <2>2 DEF IsLine
<1>3. HandedOn(l, TRUE) = Terminated(m)
  BY DEF HandedOn
<1>4. Bytes(l) \in Seq(NonZero) /\ Len(Bytes(l)) = l.at
  BY BytesIs DEF Open
<1>5. d \in Seq(NonZero) /\ Len(d) = Len(dev) + l.at
  BY <1>4, ConcatProperties
<1> HIDE DEF m, d
<1>6. Bytes(m) = <<>>
  BY <1>2 DEF Bytes
<1>7. Open(m, d, s)
  <2>1. d \o <<>> = d
    BY <1>5
  <2>2. d = s
    BY DEF Open, d
  <2> QED BY <1>1, <1>2, <1>6, <2>1, <2>2 DEF Open, Full
<1>8. LET r == Terminated(m)
      IN  /\ IsLine(r) /\ Open(r, d, s) /\ r.out[r.at] = 0
          /\ r.at = m.at /\ r.flushed = m.flushed /\ r.cap = m.cap /\ r.hands = m.hands
  BY <1>2, <1>7, TerminatedOpen
<1> QED BY <1>2, <1>3, <1>5, <1>8 DEF d
-----------------------------------------------------------------------------
(* The numbers: what 7 and 12 are written as, and that no byte is a zero.  *)

LEMMA MaxIs ==
  ASSUME NEW S \in SUBSET Int, NEW f \in S, \A h \in S : h <= f
  PROVE  Verba!Max(S) = f
<1> DEFINE x == CHOOSE e \in S : \A h \in S : e >= h
<1>1. x \in S /\ \A h \in S : x >= h
  OBVIOUS
<1>2. x = f
  <2> HIDE DEF x
  <2> QED BY <1>1
<1> QED BY <1>2 DEF Verba!Max

LEMMA Powers == ASSUME PowersAssumption PROVE 2^0 = 1 /\ 2^1 = 2 /\ 2^2 = 4 /\ \A i \in 3 .. 30 : 2^i >= 8 /\ 2^i \in Nat
<1> DEFINE P == [i \in 0 .. 30 |-> 2^i]
<1>1. P[0] = 1 /\ \A i \in 0 .. 29 : P[i + 1] = 2 * P[i]
  BY DEF PowersAssumption
<1> HIDE DEF P
<1>2. P[1] = 2 /\ P[2] = 4 /\ P[3] = 8
  BY <1>1
<1>3. P[4] = 16 /\ P[5] = 32 /\ P[6] = 64 /\ P[7] = 128
  BY <1>1, <1>2
<1>4. P[8] = 256 /\ P[9] = 512 /\ P[10] = 1024 /\ P[11] = 2048 /\ P[12] = 4096
  BY <1>1, <1>3
<1>5. P[13] = 8192 /\ P[14] = 16384 /\ P[15] = 32768 /\ P[16] = 65536
  BY <1>1, <1>4
<1>6. P[17] = 131072 /\ P[18] = 262144 /\ P[19] = 524288 /\ P[20] = 1048576
  BY <1>1, <1>5
<1>7. P[21] = 2097152 /\ P[22] = 4194304 /\ P[23] = 8388608 /\ P[24] = 16777216
  BY <1>1, <1>6
<1>8. P[25] = 33554432 /\ P[26] = 67108864 /\ P[27] = 134217728
  BY <1>1, <1>7
<1>9. P[28] = 268435456 /\ P[29] = 536870912 /\ P[30] = 1073741824
  BY <1>1, <1>8
<1>10. \A i \in 3 .. 30 : P[i] >= 8 /\ P[i] \in Nat
  BY <1>2, <1>3, <1>4, <1>5, <1>6, <1>7, <1>8, <1>9
<1> QED BY <1>1, <1>2, <1>10 DEF P

LEMMA Digits10Is ==
  ASSUME NEW value, NEW bits, NEW est, bits = Verba!HighBit(Verba!Odd(value)) + 1,
         est = (bits * 1233) \div 4096
  PROVE  Verba!Digits10(value) = est + IF Verba!Odd(value) >= 10^est THEN 1 ELSE 0
BY DEF Verba!Digits10

LEMMA Digits10Of7 == ASSUME PowersAssumption PROVE Verba!Digits10(7) = 1
<1> DEFINE P == [i \in 0 .. 30 |-> 2^i]
           S == {i \in 0 .. 30 : 7 >= 2^i}
<1>1. P[0] = 1 /\ P[1] = 2 /\ P[2] = 4 /\ \A i \in 3 .. 30 : P[i] >= 8 /\ P[i] \in Nat
  BY Powers
<1>2. S = {i \in 0 .. 30 : 7 >= P[i]}
  OBVIOUS
<1> HIDE DEF P, S
<1>3. S \in SUBSET Int /\ 2 \in S
  BY <1>1, <1>2
<1>4. \A h \in S : h <= 2
  <2> TAKE h \in S
  <2>1. h \in 0 .. 30 /\ 7 >= P[h]
    BY <1>2
  <2> QED BY <2>1, <1>1
<1>5. Verba!Max(S) = 2
  BY <1>3, <1>4, MaxIs
<1>6. Verba!HighBit(7) = 2
  BY <1>5 DEF Verba!HighBit, S
<1>7. Verba!Odd(7) = 7
  BY DEF Verba!Odd
<1>8. PICK bits : bits = Verba!HighBit(Verba!Odd(7)) + 1
  OBVIOUS
<1>9. PICK est : est = (bits * 1233) \div 4096
  OBVIOUS
<1>10. bits = 3 /\ est = 0
  BY <1>6, <1>7, <1>8, <1>9
<1>11. 10^est = 1
  BY <1>10 DEF PowersAssumption
<1>12. Verba!Digits10(7) = est + IF Verba!Odd(7) >= 10^est THEN 1 ELSE 0
  BY ONLY <1>8, <1>9, Digits10Is
<1> QED BY <1>7, <1>10, <1>11, <1>12
-----------------------------------------------------------------------------
LEMMA EmittedIs ==
  ASSUME PowersAssumption, NEW value \in Nat, NEW digits \in 1 .. LeastMost + 1, LeastMost \in Nat
  PROVE  Verba!Emit10(value, digits) \in Seq(NonZero) /\ Len(Verba!Emit10(value, digits)) = digits
<1> DEFINE E(p) == LET left == value \div 100^((digits - p) \div 2)
                   IN  CASE p = 1 /\ digits % 2 = 1 -> Verba!Zero + left
                         [] (digits - p) % 2 = 1 -> Verba!Zero + ((left % 100) \div 10)
                         [] OTHER -> Verba!Zero + (left % 10)
<1>1. ASSUME NEW p \in 1 .. digits PROVE E(p) \in NonZero
  <2>1. PICK k : k = (digits - p) \div 2
    OBVIOUS
  <2>2. k \in 0 .. LeastMost
    BY <2>1
  <2>3. PICK left : left = value \div 100^k
    OBVIOUS
  <2>4. left \in Nat
    BY <2>2, <2>3 DEF PowersAssumption
  <2>5. E(p) = CASE p = 1 /\ digits % 2 = 1 -> Verba!Zero + left
                 [] (digits - p) % 2 = 1 -> Verba!Zero + ((left % 100) \div 10)
                 [] OTHER -> Verba!Zero + (left % 10)
    BY <2>1, <2>3
  <2> HIDE DEF E
  <2> QED BY <2>4, <2>5 DEF Verba!Zero, NonZero
<1>2. Verba!Emit10(value, digits) = [p \in 1 .. digits |-> E(p)]
  BY DEF Verba!Emit10
<1> HIDE DEF E
<1>3. digits \in Nat
  OBVIOUS
<1> QED BY <1>1, <1>2, <1>3

LEMMA OneOf == ASSUME NEW S, NEW t \in S PROVE <<t>> \in Seq(S) /\ Len(<<t>>) = 1 /\ <<t>>[1] = t
OBVIOUS

LEMMA SevenIs ==
  ASSUME PowersAssumption, LeastMost \in Nat, NEW min \in 0 .. LeastMost + 1
  PROVE  Verba!Uint(7, 10, min) \in Seq(Seq(NonZero)) /\ Len(Verba!Uint(7, 10, min)) = 1
<1> DEFINE digits == IF Verba!Digits10(7) < min THEN min ELSE Verba!Digits10(7)
<1>1. digits \in 1 .. LeastMost + 1
  BY Digits10Of7
<1>2. Verba!Uint(7, 10, min) = <<Verba!Emit20(7, digits)>>
  BY DEF Verba!Uint
<1> HIDE DEF digits
<1>3. Verba!Emit20(7, digits) = Verba!Emit10(7, digits)
  BY DEF Verba!Emit20
<1>4. Verba!Emit10(7, digits) \in Seq(NonZero)
  BY <1>1, EmittedIs
<1> HIDE DEF NonZero
<1> QED BY <1>2, <1>3, <1>4, OneOf

LEMMA TwelveIs ==
  ASSUME PowersAssumption, LeastMost \in Nat, NEW min \in 0 .. LeastMost
  PROVE  Verba!Uint(12, 16, min) \in Seq(Seq(NonZero)) /\ Len(Verba!Uint(12, 16, min)) = 1
<1> DEFINE Runs(f) == f = [v \in 0 .. 12 |-> IF v < 16 THEN 1 ELSE 1 + f[v \div 16]]
           shifted == CHOOSE f : Runs(f)
           digits == IF shifted[12] < min THEN min ELSE shifted[12]
           D(p) == Verba!HexDigit((12 \div 16^(digits - p)) % 16)
<1>1. Runs([v \in 0 .. 12 |-> 1])
  OBVIOUS
<1>2. Runs(shifted)
  <2> HIDE DEF Runs
  <2> QED BY <1>1
<1>3. shifted[12] = 1
  <2> HIDE DEF shifted
  <2> QED BY <1>2
<1>4. Verba!Uint(12, 16, min) = <<[p \in 1 .. digits |-> D(p)]>>
  BY DEF Verba!Uint
<1>5. digits \in 1 .. LeastMost + 1
  <2> HIDE DEF shifted
  <2> QED BY <1>3
<1> HIDE DEF digits
<1>6. ASSUME NEW p \in 1 .. digits PROVE D(p) \in NonZero
  <2>1. PICK k : k = digits - p
    OBVIOUS
  <2>2. k \in 0 .. LeastMost
    BY <1>5, <2>1
  <2>3. PICK d : d = (12 \div 16^k) % 16
    OBVIOUS
  <2>4. d \in Nat
    BY <2>2, <2>3 DEF PowersAssumption
  <2>5. D(p) = Verba!HexDigit(d)
    BY <2>1, <2>3
  <2> QED BY <2>4, <2>5 DEF Verba!HexDigit, Verba!Zero, NonZero
<1> HIDE DEF D
<1>7. [p \in 1 .. digits |-> D(p)] \in Seq(NonZero)
  BY <1>5, <1>6
<1> DEFINE text == [p \in 1 .. digits |-> D(p)]
<1> HIDE DEF text
<1> QED BY <1>4, <1>7, OneOf DEF text
-----------------------------------------------------------------------------
(* A number's own buffer: whatever is written to it, no byte of it is zero. *)
IsBuffer(b) ==
  /\ b \in [out : Outs, cap : Nat, at : Nat]
  /\ b.out \in [0 .. b.cap - 1 -> NonZero] /\ b.at <= b.cap

LEMMA BufferIs ==
  ASSUME NEW b, IsBuffer(b), NEW fresh \in [0 .. b.cap - 1 -> NonZero], NEW at \in Nat, at <= b.cap,
         NEW r, r = [b EXCEPT !.out = fresh, !.at = at]
  PROVE  IsBuffer(r)
<1>1. b.cap \in Nat /\ fresh \in [0 .. b.cap - 1 -> Nat]
  BY DEF IsBuffer, NonZero
<1>2. fresh \in Outs
  BY <1>1 DEF Outs
<1>3. r \in [out : Outs, cap : Nat, at : Nat] /\ r.out = fresh /\ r.at = at /\ r.cap = b.cap
  <2> HIDE DEF Outs
  <2> QED BY <1>2 DEF IsBuffer
<1> QED BY <1>3 DEF IsBuffer

LEMMA PutBuffer ==
  ASSUME NEW b, IsBuffer(b), NEW text \in Seq(NonZero)
  PROVE  IsBuffer(Verba!PutN(b, text))
<1>1. b.cap \in Nat /\ b.at \in Nat /\ b.out \in [0 .. b.cap - 1 -> NonZero] /\ Len(text) \in Nat
      /\ \A k \in 1 .. Len(text) : text[k] \in NonZero
  BY DEF IsBuffer
<1>2. CASE Verba!Room(b, Len(text))
  <2> DEFINE fresh == Verba!Written(b.out, b.at, text)
             at == b.at + Len(text)
  <2>1. at \in Nat /\ at <= b.cap
    BY <1>1, <1>2 DEF Verba!Room
  <2>2. \A k \in 0 .. b.cap - 1 : k \in b.at .. at - 1 => k - b.at + 1 \in 1 .. Len(text)
    BY <1>1
  <2>3. fresh \in [0 .. b.cap - 1 -> NonZero]
    BY <1>1, <2>2 DEF Verba!Written
  <2>4. Verba!PutN(b, text) = [b EXCEPT !.out = fresh, !.at = at]
    BY <1>2 DEF Verba!PutN, IsBuffer
  <2> DEFINE r == Verba!PutN(b, text)
  <2> HIDE DEF fresh, at, r
  <2>5. IsBuffer(r)
    BY <2>1, <2>3, <2>4, BufferIs DEF r
  <2> QED BY <2>5 DEF r
<1>3. CASE ~Verba!Room(b, Len(text))
  <2>1. Verba!PutN(b, text) = [b EXCEPT !.out = b.out, !.at = b.cap]
    BY <1>3 DEF Verba!PutN, Verba!Over, IsBuffer
  <2> DEFINE r == Verba!PutN(b, text)
             fresh == b.out
             at == b.cap
  <2>2. fresh \in [0 .. b.cap - 1 -> NonZero] /\ at \in Nat /\ at <= b.cap
    BY <1>1
  <2> HIDE DEF fresh, at, r
  <2>3. IsBuffer(r)
    BY <2>1, <2>2, BufferIs DEF r, fresh, at
  <2> QED BY <2>3 DEF r
<1> QED BY <1>2, <1>3

LEMMA PutOne ==
  ASSUME NEW b, IsBuffer(b), NEW pieces \in Seq(Seq(NonZero)), Len(pieces) = 1
  PROVE  IsBuffer(Verba!Put(b, pieces))
<1> DEFINE Runs(f) == f = [n \in 0 .. Len(pieces) |-> IF n = 0 THEN b ELSE Verba!PutN(f[n - 1], pieces[n])]
           after == CHOOSE f : Runs(f)
           first == Verba!PutN(b, pieces[1])
<1>1. Runs([n \in 0 .. 1 |-> IF n = 0 THEN b ELSE first])
  OBVIOUS
<1>2. Runs(after)
  <2> HIDE DEF Runs
  <2> QED BY <1>1
<1>3. after[1] = first
  <2> HIDE DEF after
  <2> QED BY <1>2
<1>4. Verba!Put(b, pieces) = after[1]
  BY DEF Verba!Put
<1>5. pieces[1] \in Seq(NonZero)
  OBVIOUS
<1> HIDE DEF after
<1> QED BY <1>3, <1>4, <1>5, PutBuffer

LEMMA PutTwo ==
  ASSUME NEW b, IsBuffer(b), NEW pieces \in Seq(Seq(NonZero)), Len(pieces) = 2
  PROVE  IsBuffer(Verba!Put(b, pieces))
<1> DEFINE Runs(f) == f = [n \in 0 .. Len(pieces) |-> IF n = 0 THEN b ELSE Verba!PutN(f[n - 1], pieces[n])]
           after == CHOOSE f : Runs(f)
           first == Verba!PutN(b, pieces[1])
           second == Verba!PutN(first, pieces[2])
<1>1. Runs([n \in 0 .. 2 |-> IF n = 0 THEN b ELSE IF n = 1 THEN first ELSE second])
  <2> HIDE DEF first
  <2>1. second = Verba!PutN(first, pieces[2])
    OBVIOUS
  <2> HIDE DEF second
  <2> QED BY <2>1 DEF first
<1>2. Runs(after)
  <2> HIDE DEF Runs
  <2> QED BY <1>1
<1>3. after[2] = second
  <2> HIDE DEF after
  <2>1. after[1] = first
    BY <1>2
  <2>2. after[2] = Verba!PutN(after[1], pieces[2])
    BY <1>2
  <2> QED BY <2>1, <2>2
<1>4. Verba!Put(b, pieces) = after[2]
  BY DEF Verba!Put
<1>5. pieces[1] \in Seq(NonZero) /\ pieces[2] \in Seq(NonZero)
  OBVIOUS
<1> HIDE DEF after
<1>6. IsBuffer(first)
  BY <1>5, PutBuffer
<1> HIDE DEF first
<1> QED BY <1>3, <1>4, <1>5, <1>6, PutBuffer

LEMMA DigitsAre == ASSUME LineaAssumption PROVE IsBuffer(Digits)
<1>1. LineaDigits \in Nat
  BY DEF LineaAssumption
<1>2. [k \in 0 .. LineaDigits - 1 |-> 255] \in [0 .. LineaDigits - 1 -> NonZero]
  BY DEF NonZero
<1>3. [k \in 0 .. LineaDigits - 1 |-> 255] \in Outs
  BY <1>1 DEF Outs
<1> HIDE DEF Outs
<1> QED BY <1>1, <1>2, <1>3 DEF IsBuffer, Digits

LEMMA BufferBytes == ASSUME NEW b, IsBuffer(b) PROVE Bytes(b) \in Seq(NonZero)
<1>1. b.at \in Nat /\ b.cap \in Nat /\ b.at <= b.cap /\ b.out \in [0 .. b.cap - 1 -> NonZero]
  BY DEF IsBuffer
<1>2. \A k \in 1 .. b.at : b.out[k - 1] \in NonZero
  <2> TAKE k \in 1 .. b.at
  <2>1. k - 1 \in 0 .. b.cap - 1
    BY <1>1
  <2> QED BY <1>1, <2>1
<1> QED BY <1>1, <1>2 DEF Bytes

(* The numbers the entries write have no zero byte.                        *)
LEMMA NumbersAre ==
  ASSUME LineaAssumption, PowersAssumption
  PROVE  /\ Bytes(Verba!Put(Digits, Verba!Uint(7, 10, Least(9)))) \in Seq(NonZero)
         /\ Bytes(Verba!Put(Digits, Verba!Uint(12, 16, Least(1)))) \in Seq(NonZero)
         /\ Bytes(Verba!Put(Digits, Verba!I64(-7))) \in Seq(NonZero)
         /\ Bytes(Verba!U64Clip(Digits, 7, Least(2))) \in Seq(NonZero)
<1>1. LeastMost \in Nat /\ \A count \in Nat : Least(count) \in 0 .. LeastMost
  BY DEF LineaAssumption, Least
<1>2. IsBuffer(Digits)
  BY DigitsAre
<1>3. Bytes(Verba!Put(Digits, Verba!Uint(7, 10, Least(9)))) \in Seq(NonZero)
  <2>1. Least(9) \in 0 .. LeastMost + 1
    BY <1>1
  <2>2. Verba!Uint(7, 10, Least(9)) \in Seq(Seq(NonZero)) /\ Len(Verba!Uint(7, 10, Least(9))) = 1
    BY <1>1, <2>1, SevenIs
  <2> QED BY <1>2, <2>2, PutOne, BufferBytes
<1>4. Bytes(Verba!Put(Digits, Verba!Uint(12, 16, Least(1)))) \in Seq(NonZero)
  <2>1. Least(1) \in 0 .. LeastMost
    BY <1>1
  <2>2. Verba!Uint(12, 16, Least(1)) \in Seq(Seq(NonZero)) /\ Len(Verba!Uint(12, 16, Least(1))) = 1
    BY <1>1, <2>1, TwelveIs
  <2> QED BY <1>2, <2>2, PutOne, BufferBytes
<1>5. Bytes(Verba!Put(Digits, Verba!I64(-7))) \in Seq(NonZero)
  <2> DEFINE seven == Verba!Uint(7, 10, 1)
  <2>1. 1 \in 0 .. LeastMost + 1
    BY <1>1
  <2>2. seven \in Seq(Seq(NonZero)) /\ Len(seven) = 1
    BY <1>1, <2>1, SevenIs
  <2>3. Verba!I64(-7) = <<<<45>>>> \o seven
    <3>1. -(-7 + 1) + 1 = 7 /\ -7 < 0
      OBVIOUS
    <3> QED BY <3>1 DEF Verba!I64
  <2> HIDE DEF seven
  <2>4. <<<<45>>>> \in Seq(Seq(NonZero)) /\ Len(<<<<45>>>>) = 1
    <3>1. <<45>> \in Seq(NonZero)
      BY DEF NonZero
    <3> HIDE DEF NonZero
    <3> QED BY <3>1, OneOf
  <2>5. Verba!I64(-7) \in Seq(Seq(NonZero)) /\ Len(Verba!I64(-7)) = 2
    <3> DEFINE minus == <<<<45>>>>
               S == Seq(NonZero)
    <3>1. minus \in Seq(S) /\ Len(minus) = 1 /\ seven \in Seq(S) /\ Len(seven) = 1
      BY <2>2, <2>4
    <3> HIDE DEF minus, S
    <3>2. minus \o seven \in Seq(S) /\ Len(minus \o seven) = 2
      BY <3>1, ConcatProperties
    <3> QED BY <3>2, <2>3 DEF minus, S
  <2> QED BY <1>2, <2>5, PutTwo, BufferBytes
<1>6. Bytes(Verba!U64Clip(Digits, 7, Least(2))) \in Seq(NonZero)
  <2> DEFINE width == IF 1 < Least(2) THEN Least(2) ELSE 1
             blanks == [k \in 1 .. width - 1 |-> 32]
  <2>1. width \in Nat \ {0}
    BY <1>1
  <2>2. Verba!U64Clip(Digits, 7, Least(2)) =
          IF ~Verba!Room(Digits, width) THEN Digits
          ELSE Verba!PutN(Digits, blanks \o Verba!Emit20(7, 1))
    BY Digits10Of7 DEF Verba!U64Clip
  <2>3. blanks \in Seq(NonZero)
    BY <2>1 DEF NonZero
  <2>4. Verba!Emit20(7, 1) \in Seq(NonZero)
    <3>1. Verba!Emit20(7, 1) = Verba!Emit10(7, 1)
      BY DEF Verba!Emit20
    <3> QED BY <3>1, <1>1, EmittedIs
  <2> HIDE DEF width, blanks
  <2>5. blanks \o Verba!Emit20(7, 1) \in Seq(NonZero)
    BY <2>3, <2>4, ConcatProperties
  <2>6. IsBuffer(Verba!U64Clip(Digits, 7, Least(2)))
    BY <1>2, <2>2, <2>5, PutBuffer
  <2> QED BY <2>6, BufferBytes
<1> QED BY <1>3, <1>4, <1>5, <1>6
-----------------------------------------------------------------------------
(* The invariant: what flush took and what the line holds are what the      *)
(* entries said and what the one under way has put, in order.               *)

JobIs ==
  \/ job = Idle
  \/ /\ job \in [doing : {"text", "bytes"}, text : Seq(NonZero), done : Nat, columns : Nat, pad : Nat]
     /\ job.done <= Len(job.text)

Stream == IF job = Idle THEN said ELSE said \o SubSeq(job.text, 1, job.done)

LineInv ==
  /\ IsLine(line) /\ JobIs
  /\ device \in Seq(NonZero) /\ said \in Seq(NonZero) /\ lost \in BOOLEAN /\ touched \in BOOLEAN
  /\ ~Full(line) => Open(line, device, Stream)
  /\ ~Full(line) /\ touched => line.out[line.at] = 0
  /\ Full(line) /\ touched => Reads(line, device, Stream)
  /\ job # Idle /\ (Full(line) \/ line.cap < 2) => job.done = 0
  /\ line.flushed = Len(device)
  /\ lost => Full(line)

LEMMA MinTwo ==
  ASSUME NEW a \in Nat, NEW b \in Nat
  PROVE  Min({a, b}) \in Nat /\ Min({a, b}) <= a /\ Min({a, b}) <= b
<1>1. PICK x \in {a, b} : x <= a /\ x <= b
  OBVIOUS
<1> DEFINE S == {a, b}
           e == CHOOSE y \in S : \A z \in S : y <= z
<1>2. e \in S /\ \A z \in S : e <= z
  BY <1>1
<1>3. Min({a, b}) = e
  BY DEF Min
<1> HIDE DEF e
<1> QED BY <1>2, <1>3

LEMMA LeftIs ==
  ASSUME NEW text \in Seq(NonZero), NEW done \in 0 .. Len(text), NEW size \in 0 .. Len(text) - done
  PROVE  LET left == SubSeq(text, done + 1, Len(text))
             part == SubSeq(left, 1, size)
         IN  /\ left \in Seq(NonZero) /\ Len(left) = Len(text) - done
             /\ part \in Seq(NonZero) /\ Len(part) = size
             /\ SubSeq(text, 1, done) \in Seq(NonZero) /\ SubSeq(text, 1, done + size) \in Seq(NonZero)
             /\ SubSeq(text, 1, done) \o part = SubSeq(text, 1, done + size)
<1> DEFINE n == Len(text)
           left == SubSeq(text, done + 1, n)
           part == SubSeq(left, 1, size)
           head == SubSeq(text, 1, done)
           all == SubSeq(text, 1, done + size)
           both == head \o part
<1>1. n \in Nat /\ done \in Nat /\ size \in Nat /\ done + size <= n /\ \A k \in 1 .. n : text[k] \in NonZero
  OBVIOUS
<1> HIDE DEF n
<1>2. left \in Seq(NonZero) /\ Len(left) = n - done /\ \A k \in 1 .. n - done : left[k] = text[done + k]
  <2>1. \A k \in done + 1 .. n : text[k] \in NonZero
    BY <1>1
  <2>2. /\ left \in Seq(NonZero) /\ Len(left) = IF done + 1 <= n THEN n - (done + 1) + 1 ELSE 0
        /\ \A k \in 1 .. n - (done + 1) + 1 : left[k] = text[done + 1 + k - 1]
    <3> HIDE DEF left
    <3> QED BY <1>1, <2>1, SubSeqProperties DEF left
  <2> HIDE DEF left
  <2> QED BY <1>1, <2>2
<1> HIDE DEF left
<1>3. part \in Seq(NonZero) /\ Len(part) = size /\ \A k \in 1 .. size : part[k] = left[k]
  <2>1. \A k \in 1 .. size : left[k] \in NonZero
    BY <1>1, <1>2
  <2> QED BY <1>1, <2>1, SubSeqProperties
<1>4. head \in Seq(NonZero) /\ Len(head) = done /\ \A k \in 1 .. done : head[k] = text[k]
  <2>1. \A k \in 1 .. done : text[k] \in NonZero
    BY <1>1
  <2> QED BY <1>1, <2>1, SubSeqProperties
<1>5. all \in Seq(NonZero) /\ Len(all) = done + size /\ \A k \in 1 .. done + size : all[k] = text[k]
  <2>1. \A k \in 1 .. done + size : text[k] \in NonZero
    BY <1>1
  <2> QED BY <1>1, <2>1, SubSeqProperties
<1> HIDE DEF part, head, all
<1>6. /\ both \in Seq(NonZero) /\ Len(both) = done + size
      /\ \A k \in 1 .. done + size : both[k] = IF k <= done THEN head[k] ELSE part[k - done]
  BY <1>1, <1>3, <1>4, ConcatProperties
<1> HIDE DEF both
<1>7. ASSUME NEW k \in 1 .. done + size PROVE both[k] = all[k]
  <2>1. CASE k <= done
    BY <2>1, <1>1, <1>4, <1>5, <1>6
  <2>2. CASE k > done
    <3>1. k - done \in 1 .. size /\ k - done \in 1 .. n - done /\ done + (k - done) = k
      BY <2>2, <1>1
    <3>2. both[k] = text[k]
      <4>1. both[k] = part[k - done]
        BY <2>2, <1>6, <1>1
      <4>2. part[k - done] = text[done + (k - done)]
        BY <3>1, <1>2, <1>3
      <4> QED BY <4>1, <4>2, <3>1
    <3> QED BY <3>2, <1>5
  <2> QED BY <2>1, <2>2, <1>1
<1>8. both = all
  BY <1>1, <1>5, <1>6, <1>7, SeqEqual
<1> QED BY <1>2, <1>3, <1>4, <1>5, <1>8 DEF left, part, head, all, both, n

LEMMA NoneOf == \A text \in Seq(NonZero) : SubSeq(text, 1, 0) = <<>>
BY SubSeqEmpty

LEMMA ConcatNone == \A text \in Seq(NonZero) : text \o <<>> = text
OBVIOUS

(* An entry or a run of columns ends with the bytes it took.               *)
LEMMA EndedStep ==
  ASSUME LineaAssumption, LineInv, job # Idle, NEW done \in 0 .. Len(job.text), Ended(done)
  PROVE  /\ JobIs' /\ said' \in Seq(NonZero) /\ lost' \in BOOLEAN /\ touched' \in BOOLEAN
         /\ Stream' = said \o SubSeq(job.text, 1, done)
         /\ job' # Idle => job'.done = 0
         /\ lost' = (lost \/ done < Len(job.text))
         /\ touched' = (touched \/ ~Full(line))
<1> DEFINE pad == IF job.doing = "bytes" THEN job.pad
                  ELSE IF done < job.columns THEN job.columns - done ELSE 0
           run == Min({pad, LineaSpaces})
           taken == said \o SubSeq(job.text, 1, done)
           next == [doing |-> "bytes", text |-> [k \in 1 .. run |-> 32], done |-> 0,
                    columns |-> 0, pad |-> pad - run]
<1>1. /\ job \in [doing : {"text", "bytes"}, text : Seq(NonZero), done : Nat, columns : Nat, pad : Nat]
      /\ job.text \in Seq(NonZero) /\ Len(job.text) \in Nat
  BY DEF LineInv, JobIs
<1>2. said' = taken /\ lost' = (lost \/ done < Len(job.text)) /\ touched' = (touched \/ ~Full(line))
      /\ job' = IF pad = 0 THEN Idle ELSE next
  BY DEF Ended
<1>3. pad \in Nat
  BY <1>1
<1>4. run \in Nat /\ run <= pad
  BY <1>3, MinTwo DEF LineaAssumption
<1>5. SubSeq(job.text, 1, done) \in Seq(NonZero)
  <2>1. 0 \in 0 .. Len(job.text) - done
    BY <1>1
  <2> QED BY <1>1, <2>1, LeftIs
<1>6. taken \in Seq(NonZero)
  BY <1>5, ConcatProperties DEF LineInv
<1> HIDE DEF taken, run, pad
<1>7. next \in [doing : {"text", "bytes"}, text : Seq(NonZero), done : Nat, columns : Nat, pad : Nat]
  <2>1. [k \in 1 .. run |-> 32] \in Seq(NonZero)
    BY <1>4 DEF NonZero
  <2>2. pad - run \in Nat
    BY <1>3, <1>4
  <2> QED BY <2>1, <2>2
<1>8. next.done = 0 /\ next.done <= Len(next.text) /\ next # Idle /\ next.text \in Seq(NonZero)
  BY <1>4, <1>7 DEF Idle
<1> HIDE DEF next
<1>9. JobIs' /\ (job' # Idle => job'.done = 0)
  BY <1>2, <1>7, <1>8 DEF JobIs
<1>10. Stream' = taken
  <2>1. CASE pad = 0
    BY <2>1, <1>2 DEF Stream
  <2>2. CASE pad # 0
    <3>1. job' = next /\ next # Idle
      BY <2>2, <1>2, <1>8
    <3>2. Stream' = taken \o SubSeq(next.text, 1, 0)
      BY <3>1, <1>2, <1>8 DEF Stream
    <3> QED BY <3>2, <1>6, <1>8, NoneOf, ConcatNone
  <2> QED BY <2>1, <2>2
<1>11. lost' \in BOOLEAN /\ touched' \in BOOLEAN
  BY <1>2 DEF LineInv
<1> QED BY <1>2, <1>6, <1>9, <1>10, <1>11 DEF taken
-----------------------------------------------------------------------------
(* The steps.                                                              *)

LEMMA JobHas ==
  ASSUME LineInv, job # Idle
  PROVE  /\ job \in [doing : {"text", "bytes"}, text : Seq(NonZero), done : Nat, columns : Nat, pad : Nat]
         /\ job.text \in Seq(NonZero) /\ Len(job.text) \in Nat /\ job.done \in 0 .. Len(job.text)
         /\ Left \in Seq(NonZero) /\ Len(Left) = Len(job.text) - job.done
         /\ Stream = said \o SubSeq(job.text, 1, job.done)
<1>1. /\ job \in [doing : {"text", "bytes"}, text : Seq(NonZero), done : Nat, columns : Nat, pad : Nat]
      /\ job.text \in Seq(NonZero) /\ Len(job.text) \in Nat /\ job.done \in 0 .. Len(job.text)
  BY DEF LineInv, JobIs
<1>2. 0 \in 0 .. Len(job.text) - job.done
  BY <1>1
<1>3. Left \in Seq(NonZero) /\ Len(Left) = Len(job.text) - job.done
  BY <1>1, <1>2, LeftIs DEF Left
<1> QED BY <1>1, <1>3 DEF Stream

LEMMA Associated ==
  ASSUME NEW a \in Seq(NonZero), NEW b \in Seq(NonZero), NEW c \in Seq(NonZero)
  PROVE  (a \o b) \o c = a \o (b \o c)
BY ConcatAssociative

(* What fits of a job is put behind what went before.                      *)
LEMMA PieceOpen ==
  ASSUME LineInv, job # Idle, ~Full(line),
         NEW size \in 0 .. Len(job.text) - job.done, size <= Room(line)
  PROVE  LET p == Piece(size)
         IN  /\ IsLine(p) /\ Open(p, device, said \o SubSeq(job.text, 1, job.done + size))
             /\ p.cap = line.cap /\ p.at = line.at + size /\ p.flushed = line.flushed
             /\ p.hands = line.hands
<1> DEFINE text == job.text
           done == job.done
           part == SubSeq(Left, 1, size)
           head == SubSeq(text, 1, done)
           both == SubSeq(text, 1, done + size)
           p == Piece(size)
<1>1. text \in Seq(NonZero) /\ done \in 0 .. Len(text) /\ size \in 0 .. Len(text) - done
      /\ Stream = said \o head
  BY JobHas
<1>2. part \in Seq(NonZero) /\ Len(part) = size /\ head \in Seq(NonZero) /\ head \o part = both
  BY <1>1, LeftIs DEF Left
<1>3. IsLine(line) /\ device \in Seq(NonZero) /\ said \in Seq(NonZero) /\ Open(line, device, Stream)
  BY DEF LineInv
<1>4. Stream \in Seq(NonZero) /\ Stream \o part = said \o both
  <2> HIDE DEF head, part, both
  <2>1. said \o head \in Seq(NonZero)
    BY <1>2, <1>3, ConcatProperties
  <2>2. (said \o head) \o part = said \o (head \o part)
    BY <1>2, <1>3, Associated
  <2> QED BY <1>1, <1>2, <2>1, <2>2
<1>5. Len(part) <= line.cap - line.at - 1
  BY <1>2 DEF Room
<1>6. p = Verba!PutN(line, part)
  BY DEF Piece
<1> HIDE DEF p, part, text, done, head, both
<1>7. /\ IsLine(p) /\ Open(p, device, Stream \o part)
      /\ p.cap = line.cap /\ p.at = line.at + Len(part) /\ p.flushed = line.flushed
      /\ p.hands = line.hands
  BY <1>2, <1>3, <1>4, <1>5, <1>6, PutOpen
<1> QED BY <1>2, <1>4, <1>7 DEF p, text, done, both

(* A full line takes no byte, and filling it again changes only its last.   *)
LEMMA FullIs ==
  ASSUME LineInv, job # Idle, Full(line)
  PROVE  /\ Room(line) = 0 /\ Piece(0) = line /\ Terminated(line) = Filled(line)
         /\ job.done = 0 /\ Stream = said \o SubSeq(job.text, 1, 0)
<1>1. IsLine(line) /\ job.done = 0
  BY DEF LineInv
<1>2. line.at = line.cap /\ line.cap \in Nat
  BY <1>1 DEF IsLine, Full
<1>3. [line EXCEPT !.at = line.cap] = line
  BY <1>1, <1>2 DEF IsLine
<1>4. Piece(0) = line
  <2>1. ~Verba!Room(line, Len(SubSeq(Left, 1, 0)))
    BY <1>2 DEF Verba!Room
  <2> QED BY <2>1, <1>3 DEF Piece, Verba!PutN, Verba!Over
<1>5. Terminated(line) = Filled(line)
  BY <1>3 DEF Filled
<1>6. Stream = said \o SubSeq(job.text, 1, 0)
  BY <1>1 DEF Stream
<1> QED BY <1>1, <1>4, <1>5, <1>6 DEF Room

(* A line that stays full.                                                 *)
LEMMA StaysFull ==
  ASSUME LineaAssumption, LineInv, job # Idle, Full(line), line' \in {line, Filled(line)}, Ended(0),
         UNCHANGED device
  PROVE  LineInv'
<1>1. Len(job.text) \in Nat /\ 0 \in 0 .. Len(job.text) /\ IsLine(line)
  BY JobHas DEF LineInv
<1>2. /\ JobIs' /\ said' \in Seq(NonZero) /\ lost' \in BOOLEAN /\ touched' \in BOOLEAN
      /\ Stream' = said \o SubSeq(job.text, 1, 0)
      /\ job' # Idle => job'.done = 0
      /\ touched' = (touched \/ ~Full(line))
  BY <1>1, EndedStep
<1>3. Stream' = Stream
  BY <1>2, FullIs
<1>4. touched' = touched
  BY <1>2 DEF LineInv
<1>5. /\ IsLine(Filled(line)) /\ Full(Filled(line)) /\ Filled(line).flushed = line.flushed
      /\ Filled(line).cap = line.cap
  BY <1>1, FilledIs
<1>6. /\ IsLine(line') /\ Full(line') /\ line'.flushed = line.flushed /\ line'.cap = line.cap
  BY <1>1, <1>5
<1>7. touched' => Reads(line', device', Stream')
  BY <1>1, <1>3, <1>4, FullStays DEF LineInv
<1> QED BY <1>2, <1>6, <1>7 DEF LineInv

(* A line filled up by what went before it.                                *)
LEMMA FillsUp ==
  ASSUME LineaAssumption, LineInv, job # Idle, NEW p, IsLine(p), NEW done \in 0 .. Len(job.text),
         Open(p, device, said \o SubSeq(job.text, 1, done)),
         p.at = p.cap - 1, p.flushed = line.flushed, line' = Filled(p), Ended(done), UNCHANGED device
  PROVE  LineInv'
<1>1. /\ JobIs' /\ said' \in Seq(NonZero) /\ lost' \in BOOLEAN /\ touched' \in BOOLEAN
      /\ Stream' = said \o SubSeq(job.text, 1, done)
      /\ job' # Idle => job'.done = 0
  BY EndedStep
<1>2. IsLine(line') /\ Full(line') /\ line'.flushed = line.flushed
  BY FilledIs
<1>3. Reads(line', device', Stream')
  BY <1>1, FilledReads
<1> QED BY <1>1, <1>2, <1>3 DEF LineInv

LEMMA FlushCallStep ==
  ASSUME LineInv, NEW takes \in BOOLEAN, FlushCall(takes)
  PROVE  LineInv'
<1>1. /\ job = Idle /\ ~Full(line) /\ Hand(line, takes) /\ UNCHANGED <<job, said, lost, touched>>
  BY DEF FlushCall
<1>2. IsLine(line) /\ device \in Seq(NonZero) /\ Open(line, device, said)
  BY <1>1 DEF LineInv, Stream
<1>3. JobIs' /\ Stream' = said /\ job' = Idle /\ Stream = said
  BY <1>1 DEF LineInv, JobIs, Stream
<1>4. CASE takes
  <2> DEFINE r == HandedOn(line, TRUE)
             d == device \o Bytes(line)
  <2>1. line' = r /\ device' = d
    BY <1>1, <1>4 DEF Hand
  <2>2. /\ IsLine(r) /\ Open(r, d, said) /\ r.out[r.at] = 0
        /\ r.flushed = line.flushed + line.at /\ d \in Seq(NonZero) /\ Len(d) = Len(device) + line.at
    BY <1>2, HandedOpen
  <2> HIDE DEF r, d
  <2> QED BY <1>1, <1>3, <2>1, <2>2 DEF LineInv, Open
<1>5. CASE ~takes
  <2>1. line' = Filled(line) /\ device' = device
    BY <1>1, <1>5 DEF Hand, HandedOn
  <2>2. IsLine(line') /\ Full(line') /\ line'.flushed = line.flushed
    BY <1>2, <2>1, FilledIs
  <2>3. touched => Reads(line', device', said)
    BY <1>1, <1>2, <2>1, FilledReads DEF LineInv
  <2> QED BY <1>1, <1>3, <2>1, <2>2, <2>3 DEF LineInv
<1> QED BY <1>4, <1>5

LEMMA FitsStep ==
  ASSUME LineaAssumption, LineInv, PieceFits
  PROVE  LineInv'
<1> DEFINE n == Len(job.text)
<1>1. job # Idle /\ Len(Left) <= Room(line) /\ Ended(n) /\ UNCHANGED device
      /\ line' = IF job.doing = "text" /\ Full(line) THEN line ELSE Terminated(Piece(Len(Left)))
  BY DEF PieceFits
<1>2. n \in Nat /\ job.done \in 0 .. n /\ Len(Left) = n - job.done
  BY <1>1, JobHas
<1>3. CASE Full(line)
  <2>1. Room(line) = 0 /\ Piece(0) = line /\ Terminated(line) = Filled(line) /\ job.done = 0
    BY <1>1, <1>3, FullIs
  <2>2. n = 0 /\ Len(Left) = 0
    BY <1>1, <1>2, <2>1
  <2>3. line' \in {line, Filled(line)} /\ Ended(0)
    BY <1>1, <2>1, <2>2
  <2> QED BY <1>1, <1>3, <2>3, StaysFull
<1>4. CASE ~Full(line)
  <2> DEFINE size == Len(Left)
             p == Piece(size)
             r == Terminated(p)
             text == said \o SubSeq(job.text, 1, n)
  <2>1. size \in 0 .. n - job.done /\ size <= Room(line) /\ job.done + size = n
    BY <1>1, <1>2
  <2>2. IsLine(p) /\ Open(p, device, text) /\ p.flushed = line.flushed
    BY <1>1, <1>4, <2>1, PieceOpen
  <2>3. line' = r
    BY <1>1, <1>4
  <2> HIDE DEF p
  <2>4. IsLine(r) /\ Open(r, device, text) /\ r.out[r.at] = 0 /\ r.flushed = line.flushed
    BY <2>2, TerminatedOpen
  <2>5. /\ JobIs' /\ said' \in Seq(NonZero) /\ lost' \in BOOLEAN /\ touched' \in BOOLEAN
        /\ Stream' = text
        /\ job' # Idle => job'.done = 0
        /\ lost' = (lost \/ n < Len(job.text))
    <3>1. n \in 0 .. Len(job.text)
      BY <1>2
    <3> QED BY <1>1, <3>1, EndedStep
  <2>6. ~lost'
    BY <1>2, <1>4, <2>5 DEF LineInv
  <2> HIDE DEF r, text, size
  <2>7. /\ IsLine(line') /\ Open(line', device', Stream') /\ ~Full(line')
        /\ line'.out[line'.at] = 0 /\ line'.flushed = line.flushed
    BY <1>1, <2>3, <2>4, <2>5 DEF Open
  <2>8. device' \in Seq(NonZero) /\ line'.flushed = Len(device')
    BY <1>1, <2>7 DEF LineInv
  <2>9. JobIs' /\ said' \in Seq(NonZero) /\ lost' \in BOOLEAN /\ touched' \in BOOLEAN
        /\ (job' # Idle => job'.done = 0)
    BY <2>5
  <2> QED BY <2>6, <2>7, <2>8, <2>9 DEF LineInv
<1> QED BY <1>3, <1>4

LEMMA RefusedStep ==
  ASSUME LineaAssumption, LineInv, PieceRefused
  PROVE  LineInv'
<1>1. job # Idle /\ line.cap < 2 /\ Left # <<>> /\ Ended(job.done) /\ UNCHANGED device
      /\ line' = IF job.doing = "text" /\ Full(line) THEN line ELSE Filled(line)
  BY DEF PieceRefused, Small
<1>2. job.done = 0 /\ IsLine(line)
  BY <1>1 DEF LineInv
<1>3. CASE Full(line)
  BY <1>1, <1>2, <1>3, StaysFull
<1>4. CASE ~Full(line)
  <2>1. line.at = line.cap - 1
    BY <1>1, <1>2, <1>4 DEF IsLine, Full
  <2>2. Open(line, device, said \o SubSeq(job.text, 1, 0)) /\ 0 \in 0 .. Len(job.text)
    BY <1>1, <1>2, <1>4, JobHas DEF LineInv
  <2> QED BY <1>1, <1>2, <1>4, <2>1, <2>2, FillsUp
<1> QED BY <1>3, <1>4

(* What the room of an open line leaves of a job that has more.             *)
LEMMA RoomOpen ==
  ASSUME LineInv, job # Idle, ~Full(line), Len(Left) > Room(line)
  PROVE  LET p == Piece(Room(line))
             done == job.done + Room(line)
         IN  /\ IsLine(p) /\ Open(p, device, said \o SubSeq(job.text, 1, done)) /\ p.at = p.cap - 1
             /\ p.cap = line.cap /\ p.flushed = line.flushed /\ p.hands = line.hands
             /\ done \in 0 .. Len(job.text) /\ done < Len(job.text) /\ Room(line) \in Nat
<1> DEFINE size == Room(line)
           n == Len(job.text)
           was == job.done
           p == Piece(size)
           text == said \o SubSeq(job.text, 1, was + size)
<1>1. size = line.cap - line.at - 1 /\ line.cap \in Nat /\ line.at \in Nat /\ line.at < line.cap
  BY DEF LineInv, IsLine, Full, Room
<1>2. n \in Nat /\ was \in 0 .. n /\ Len(Left) = n - was
  BY JobHas
<1> HIDE DEF n, was, size
<1>3. size \in 0 .. n - was /\ was + size < n /\ was + size \in 0 .. n /\ size \in Nat
  BY <1>1, <1>2 DEF size
<1>4. size <= Room(line)
  BY <1>3 DEF size
<1>5. /\ IsLine(p) /\ Open(p, device, text) /\ p.cap = line.cap /\ p.at = line.at + size
      /\ p.flushed = line.flushed /\ p.hands = line.hands
  BY <1>3, <1>4, PieceOpen DEF n, was
<1> HIDE DEF p, text
<1>6. p.at = p.cap - 1
  BY <1>1, <1>5
<1> QED BY <1>3, <1>5, <1>6 DEF p, text, n, was, size

LEMMA FillsStep ==
  ASSUME LineaAssumption, LineInv, PieceFills
  PROVE  LineInv'
<1>1. job # Idle /\ Len(Left) > Room(line) /\ Ended(job.done + Room(line)) /\ UNCHANGED device
      /\ line' = IF job.doing = "text" /\ Full(line) THEN line ELSE Filled(Piece(Room(line)))
  BY DEF PieceFills
<1>2. CASE Full(line)
  <2>1. Room(line) = 0 /\ Piece(0) = line /\ job.done = 0
    BY <1>1, <1>2, FullIs
  <2>2. line' \in {line, Filled(line)} /\ Ended(0)
    BY <1>1, <2>1
  <2> QED BY <1>1, <1>2, <2>2, StaysFull
<1>3. CASE ~Full(line)
  <2> DEFINE p == Piece(Room(line))
             done == job.done + Room(line)
  <2>1. /\ IsLine(p) /\ Open(p, device, said \o SubSeq(job.text, 1, done)) /\ p.at = p.cap - 1
        /\ p.flushed = line.flushed /\ done \in 0 .. Len(job.text)
    BY <1>1, <1>3, RoomOpen
  <2>2. line' = Filled(p) /\ Ended(done)
    BY <1>1, <1>3
  <2> HIDE DEF p, done
  <2> QED BY <1>1, <2>1, <2>2, FillsUp
<1> QED BY <1>2, <1>3

LEMMA HandedStep ==
  ASSUME LineaAssumption, LineInv, NEW takes \in BOOLEAN, PieceHanded(takes)
  PROVE  LineInv'
<1> DEFINE p == Piece(Room(line))
           done == job.done + Room(line)
           text == said \o SubSeq(job.text, 1, done)
<1>1. /\ job # Idle /\ ~Small /\ ~Full(line) /\ Len(Left) > Room(line) /\ Hand(p, takes)
      /\ IF takes THEN job' = [job EXCEPT !.done = @ + Room(line)] /\ UNCHANGED <<said, lost, touched>>
         ELSE Ended(done)
  BY DEF PieceHanded
<1>2. /\ IsLine(p) /\ Open(p, device, text) /\ p.at = p.cap - 1
      /\ p.cap = line.cap /\ p.flushed = line.flushed
      /\ done \in 0 .. Len(job.text) /\ done < Len(job.text) /\ Room(line) \in Nat
  BY <1>1, RoomOpen
<1>3. CASE takes
  <2> DEFINE r == HandedOn(p, TRUE)
             d == device \o Bytes(p)
  <2>1. line' = r /\ device' = d /\ device \in Seq(NonZero)
    BY <1>1, <1>3 DEF Hand, LineInv
  <2> HIDE DEF p, text
  <2>2. /\ IsLine(r) /\ Open(r, d, text) /\ r.out[r.at] = 0 /\ r.cap = p.cap
        /\ r.flushed = p.flushed + p.at /\ d \in Seq(NonZero) /\ Len(d) = Len(device) + p.at
    BY <1>2, <2>1, HandedOpen
  <2>3. job' = [job EXCEPT !.done = done] /\ UNCHANGED <<said, lost, touched>>
    BY <1>1, <1>3
  <2>4. /\ job \in [doing : {"text", "bytes"}, text : Seq(NonZero), done : Nat, columns : Nat, pad : Nat]
        /\ Left \in Seq(NonZero) /\ Len(Left) = Len(job.text) - job.done
    BY <1>1, JobHas
  <2> HIDE DEF done
  <2>5. /\ job' \in [doing : {"text", "bytes"}, text : Seq(NonZero), done : Nat, columns : Nat, pad : Nat]
        /\ job'.text = job.text /\ job'.done = done /\ job' # Idle
    BY <1>2, <2>3, <2>4 DEF Idle
  <2>6. JobIs' /\ Stream' = text
    <3>1. job'.done <= Len(job'.text)
      BY <1>2, <2>5
    <3>2. JobIs'
      BY <2>5, <3>1 DEF JobIs
    <3>3. Stream' = said \o SubSeq(job.text, 1, done)
      BY <2>3, <2>5 DEF Stream
    <3> QED BY <3>2, <3>3 DEF text
  <2>7. ~Full(r) /\ ~(r.cap < 2)
    <3>1. Left # <<>>
      <4>1. Len(Left) > 0
        BY <1>1, <1>2, <2>4
      <4> QED BY <4>1
    <3> QED BY <1>1, <1>2, <2>2, <3>1 DEF Small, Open
  <2> HIDE DEF r, d
  <2> QED BY <1>1, <1>2, <2>1, <2>2, <2>3, <2>6, <2>7 DEF LineInv
<1>4. CASE ~takes
  <2>1. line' = Filled(p) /\ device' = device /\ Ended(done)
    BY <1>1, <1>4 DEF Hand, HandedOn
  <2> HIDE DEF p, done
  <2> QED BY <1>1, <1>2, <2>1, FillsUp
<1> QED BY <1>3, <1>4

LEMMA StuckStep ==
  ASSUME LineaAssumption, LineInv, PieceStuck
  PROVE  LineInv'
<1>1. job # Idle /\ Full(line) /\ Ended(job.done) /\ UNCHANGED <<line, device>>
  BY DEF PieceStuck
<1>2. job.done = 0
  BY <1>1, FullIs
<1> QED BY <1>1, <1>2, StaysFull

LEMMA FinishStep ==
  ASSUME LineInv, Finish
  PROVE  LineInv'
<1>1. /\ job = Idle /\ line' = Verba!Finish(line).b /\ touched' = (touched \/ ~Full(line))
      /\ UNCHANGED <<job, device, said, lost>>
  BY DEF Finish
<1>2. IsLine(line) /\ Stream' = Stream /\ JobIs' /\ touched' \in BOOLEAN
  BY <1>1 DEF LineInv, Stream, JobIs
<1>3. CASE Full(line)
  <2>1. line' = line /\ touched' = touched
    BY <1>1, <1>3 DEF Full, Verba!Finish, LineInv
  <2> QED BY <1>1, <1>2, <2>1 DEF LineInv
<1>4. CASE ~Full(line)
  <2> DEFINE r == Terminated(line)
  <2>1. Verba!Written(line.out, line.at, <<0>>) = [line.out EXCEPT ![line.at] = 0]
    BY <1>2 DEF IsLine, Verba!Written
  <2>2. line' = [line EXCEPT !.out[line.at] = 0]
    BY <1>1, <1>2, <1>4, <2>1 DEF Full, Verba!Finish, IsLine
  <2>3. line' = r
    BY <1>2, <1>4, <2>2 DEF Terminated, Full, IsLine
  <2>4. /\ IsLine(r) /\ Open(r, device, Stream) /\ r.out[r.at] = 0 /\ r.flushed = line.flushed
    BY <1>2, <1>4, TerminatedOpen DEF LineInv
  <2> HIDE DEF r
  <2> QED BY <1>1, <1>2, <1>4, <2>3, <2>4 DEF LineInv, Open
<1> QED BY <1>3, <1>4

LEMMA BeginStep ==
  ASSUME LineInv, NEW doing \in {"text", "bytes"}, NEW text \in Seq(NonZero), NEW columns \in Nat,
         Begin(doing, text, columns)
  PROVE  LineInv'
<1> DEFINE next == [doing |-> doing, text |-> text, done |-> 0, columns |-> columns, pad |-> 0]
<1>1. job = Idle /\ job' = next /\ UNCHANGED <<line, device, said, lost, touched>>
  BY DEF Begin
<1>2. /\ next \in [doing : {"text", "bytes"}, text : Seq(NonZero), done : Nat, columns : Nat, pad : Nat]
      /\ next.text = text /\ next.done = 0 /\ next.done <= Len(next.text) /\ next # Idle
  BY DEF Idle
<1> HIDE DEF next
<1>3. JobIs' /\ job'.done = 0
  BY <1>1, <1>2 DEF JobIs
<1>4. Stream' = Stream
  <2>1. Stream' = said \o SubSeq(text, 1, 0) /\ Stream = said
    BY <1>1, <1>2 DEF Stream
  <2> QED BY <2>1, NoneOf, ConcatNone DEF LineInv
<1> QED BY <1>1, <1>3, <1>4 DEF LineInv

LEMMA CallStep ==
  ASSUME LineaAssumption, PowersAssumption, LineInv, Call
  PROVE  LineInv'
<1>1. Texts \subseteq Seq(NonZero)
  <2> SUFFICES ASSUME NEW text \in Texts PROVE text \in Seq(NonZero)
    OBVIOUS
  <2>1. PICK n \in {0, 2, 4} : text = [k \in 1 .. n |-> 97 + ((Len(said) + k) % 26)]
    BY DEF Texts
  <2>2. \A k \in 1 .. n : 97 + ((Len(said) + k) % 26) \in NonZero
    BY DEF NonZero, LineInv
  <2> QED BY <2>1, <2>2
<1>2. ASSUME NEW text \in Texts, Put(text) PROVE LineInv'
  BY <1>1, <1>2, BeginStep DEF Put
<1>3. ASSUME NEW text \in Texts, PutColumns(text, 3) PROVE LineInv'
  BY <1>1, <1>3, BeginStep DEF PutColumns
<1>4. ASSUME NEW text \in Texts, PutMost(text, 1) PROVE LineInv'
  <2>1. text \in Seq(NonZero) /\ Len(text) \in Nat
    BY <1>1
  <2> DEFINE size == Min({Len(text), 1})
  <2>2. size \in Nat /\ size <= Len(text)
    BY <2>1, MinTwo
  <2> HIDE DEF size
  <2>3. SubSeq(text, 1, size) \in Seq(NonZero)
    <3>1. size \in 0 .. Len(text) /\ 0 \in 0 .. Len(text) - size
      BY <2>1, <2>2
    <3> QED BY <2>1, <3>1, LeftIs
  <2> QED BY <1>4, <2>3, BeginStep DEF PutMost, size
<1>5. CASE Ch(33)
  <2>1. <<33>> \in Seq(NonZero)
    BY DEF NonZero
  <2> QED BY <1>5, <2>1, BeginStep DEF Ch
<1>6. ASSUME NEW digits, Bytes(digits) \in Seq(NonZero), Number(digits) PROVE LineInv'
  BY <1>6, BeginStep DEF Number
<1>7. CASE Decimal(7, 9)
  BY <1>6, <1>7, NumbersAre DEF Decimal
<1>8. CASE Hex(12, 1)
  BY <1>6, <1>8, NumbersAre DEF Hex
<1>9. CASE DecimalSigned(-7)
  BY <1>6, <1>9, NumbersAre DEF DecimalSigned
<1>10. CASE DecimalColumns(7, 2)
  BY <1>6, <1>10, NumbersAre DEF DecimalColumns
<1> QED BY <1>2, <1>3, <1>4, <1>5, <1>7, <1>8, <1>9, <1>10 DEF Call

LEMMA LineInit == ASSUME LineaAssumption, Init PROVE LineInv
<1>1. PICK c \in Capacities, h \in BOOLEAN : line = LineOver(c, h)
  BY DEF Init
<1>2. c \in Nat
  BY DEF LineaAssumption
<1> DEFINE fresh == [k \in 0 .. c - 1 |-> 255]
<1>3. fresh \in [0 .. c - 1 -> Nat] /\ fresh \in Outs
  BY <1>2 DEF Outs
<1>4. /\ line \in [out : Outs, cap : Nat, at : Nat, flushed : Nat, hands : BOOLEAN]
      /\ line.out = fresh /\ line.cap = c /\ line.at = 0 /\ line.flushed = 0
  <2> HIDE DEF Outs
  <2> QED BY <1>1, <1>2, <1>3 DEF LineOver
<1>5. job = Idle /\ device = <<>> /\ said = <<>> /\ lost = FALSE /\ touched = FALSE
  BY DEF Init
<1> HIDE DEF fresh
<1>6. IsLine(line)
  BY <1>2, <1>3, <1>4 DEF IsLine
<1>7. Bytes(line) = <<>>
  BY <1>4 DEF Bytes
<1>8. ~Full(line) => Open(line, device, Stream)
  <2>1. device \o Bytes(line) = Stream
    BY <1>5, <1>7 DEF Stream
  <2> QED BY <1>4, <2>1 DEF Open
<1>9. device \in Seq(NonZero) /\ said \in Seq(NonZero) /\ line.flushed = Len(device)
  BY <1>4, <1>5
<1> QED BY <1>5, <1>6, <1>8, <1>9 DEF LineInv, JobIs

LEMMA LineInvStep ==
  ASSUME LineaAssumption, PowersAssumption, LineInv, [Next]_vars
  PROVE  LineInv'
<1>1. CASE UNCHANGED vars
  BY <1>1 DEF vars, LineInv, JobIs, Stream
<1>2. CASE Next
  BY <1>2, CallStep, FinishStep, FitsStep, RefusedStep, FillsStep, StuckStep, FlushCallStep, HandedStep
     DEF Next
<1> QED BY <1>1, <1>2
-----------------------------------------------------------------------------
LEMMA LeastIs ==
  ASSUME NEW S \in SUBSET Int, NEW f \in S, \A h \in S : f <= h
  PROVE  Min(S) = f
<1> DEFINE x == CHOOSE e \in S : \A h \in S : e <= h
<1>1. x \in S /\ \A h \in S : x <= h
  OBVIOUS
<1>2. x = f
  <2> HIDE DEF x
  <2> QED BY <1>1
<1> QED BY <1>2 DEF Min

(* A reader stops at the first terminator.                                 *)
LEMMA HeldIs ==
  ASSUME IsLine(line), NEW n \in 0 .. line.cap - 1, line.out[n] = 0,
         \A k \in 0 .. n - 1 : line.out[k] \in NonZero
  PROVE  LineHeld = [k \in 1 .. n |-> line.out[k - 1]]
<1> DEFINE zeros == {k \in 0 .. line.cap - 1 : line.out[k] = 0}
<1>1. line.cap \in Nat
  BY DEF IsLine
<1>2. zeros \in SUBSET Int /\ n \in zeros
  OBVIOUS
<1>3. \A k \in zeros : n <= k
  <2> SUFFICES ASSUME NEW k \in 0 .. line.cap - 1, line.out[k] = 0, k < n PROVE FALSE
    BY <1>1
  <2>1. k \in 0 .. n - 1
    BY <1>1
  <2> QED BY <2>1 DEF NonZero
<1> HIDE DEF zeros
<1>4. Min(zeros) = n
  BY <1>2, <1>3, LeastIs
<1>5. zeros # {}
  BY <1>2
<1> QED BY <1>4, <1>5 DEF LineHeld, zeros

LEMMA LineInvKept == LineInv => LineKept
<1> SUFFICES ASSUME LineInv, job = Idle, touched
             PROVE  device \o LineHeld = said /\ line.flushed = Len(device) /\ (lost => Full(line))
  BY DEF LineKept
<1>1. IsLine(line) /\ Stream = said
  BY DEF LineInv, Stream
<1>2. CASE ~Full(line)
  <2>1. Open(line, device, said) /\ line.out[line.at] = 0
    BY <1>1, <1>2 DEF LineInv
  <2>2. line.at \in 0 .. line.cap - 1
    BY <1>1, <1>2 DEF IsLine, Full
  <2>3. LineHeld = Bytes(line)
    BY <1>1, <2>1, <2>2, HeldIs DEF Open, Bytes
  <2> QED BY <2>1, <2>3 DEF LineInv, Open
<1>3. CASE Full(line)
  <2>1. Reads(line, device, said)
    BY <1>1, <1>3 DEF LineInv
  <2>2. PICK n \in 0 .. line.cap - 1 :
          /\ line.out[n] = 0
          /\ \A k \in 0 .. n - 1 : line.out[k] \in NonZero
          /\ device \o [k \in 1 .. n |-> line.out[k - 1]] = said
    BY <2>1 DEF Reads
  <2>3. LineHeld = [k \in 1 .. n |-> line.out[k - 1]]
    BY <1>1, <2>2, HeldIs
  <2> QED BY <2>2, <2>3 DEF LineInv
<1> QED BY <1>2, <1>3

(* Whatever pieces a line is handed on in and wherever flush refuses, what  *)
(* flush took and what the buffer holds are the bytes the entries said the  *)
(* line took, for every capacity and every bound.                          *)
THEOREM LineKeptHolds ==
  ASSUME LineaAssumption, PowersAssumption
  PROVE  Spec => []LineKept
<1>1. Init => LineInv
  BY LineInit
<1>2. LineInv /\ [Next]_vars => LineInv'
  BY LineInvStep
<1> QED BY <1>1, <1>2, LineInvKept, PTL DEF Spec

-----------------------------------------------------------------------------
(* A row.                                                                  *)

-----------------------------------------------------------------------------
(* What goes up by one from 0, and a function a step at a time.             *)

LEMMA LeastOf ==
  ASSUME NEW T, T \subseteq Nat, T # {}
  PROVE  \E x \in T : \A y \in T : x <= y
<1>1. PICK x \in T : \A y \in T : ~ (<<y, x>> \in OpToRel(<, Nat))
  BY WFMin, NatLessThanWellFounded, Zenon
<1>2. \A y \in T : ~ (y < x)
  BY <1>1 DEF OpToRel
<1> QED BY <1>2

Rises(N, T) == 0 \in T /\ \A n \in 1 .. N : n - 1 \in T => n \in T

LEMMA Climbs ==
  ASSUME NEW N, N \in Nat, NEW T, Rises(N, T)
  PROVE  \A n \in 0 .. N : n \in T
<1> DEFINE out_of == {n \in 0 .. N : n \notin T}
<1>1. SUFFICES ASSUME out_of # {} PROVE FALSE
  OBVIOUS
<1>2. out_of \subseteq Nat
  OBVIOUS
<1>3. PICK x \in out_of : \A y \in out_of : x <= y
  <2> HIDE DEF out_of
  <2> QED BY <1>1, <1>2, LeastOf
<1>4. x \in 1 .. N /\ x \notin T
  BY DEF Rises
<1>5. x - 1 \in 0 .. N /\ ~(x <= x - 1)
  BY <1>4
<1>6. x - 1 \in T
  BY <1>3, <1>5
<1> QED BY <1>4, <1>6 DEF Rises

Steps(N, S, F) == F \in [1 .. N -> [S -> S]]

Goes(m, S, a, F, f) == f \in [0 .. m -> S] /\ f[0] = a /\ \A n \in 1 .. m : f[n] = F[n][f[n - 1]]

LEMMA Stepped ==
  ASSUME NEW N, N \in Nat, NEW S, NEW a, a \in S, NEW F, Steps(N, S, F)
  PROVE  \E f : Goes(N, S, a, F, f)
<1> DEFINE T == {m \in 0 .. N : \E f : Goes(m, S, a, F, f)}
<1>1. 0 \in T
  <2>1. Goes(0, S, a, F, [n \in 0 .. 0 |-> a])
    BY DEF Goes
  <2> QED BY <2>1
<1>2. ASSUME NEW m \in 1 .. N, m - 1 \in T PROVE m \in T
  <2>1. PICK f : Goes(m - 1, S, a, F, f)
    BY <1>2
  <2> DEFINE next == F[m][f[m - 1]]
             g == [n \in 0 .. m |-> IF n = m THEN next ELSE f[n]]
  <2>2. m - 1 \in 0 .. m - 1 /\ m \in Nat /\ m \in 0 .. N
    OBVIOUS
  <2>3. next \in S
    <3>1. f[m - 1] \in S
      BY <2>1, <2>2 DEF Goes
    <3>2. F[m] \in [S -> S]
      BY DEF Steps
    <3> QED BY <3>1, <3>2
  <2>4. \A n \in 0 .. m - 1 : n \in 0 .. m /\ n # m
    BY <2>2
  <2>5. \A n \in 0 .. m : n # m => n \in 0 .. m - 1
    BY <2>2
  <2> HIDE DEF next
  <2>6. g \in [0 .. m -> S]
    BY <2>1, <2>3, <2>5 DEF Goes
  <2>7. g[0] = a
    BY <2>1, <2>2 DEF Goes
  <2>8. ASSUME NEW n \in 1 .. m PROVE g[n] = F[n][g[n - 1]]
    <3>1. n - 1 \in 0 .. m - 1 /\ n \in 0 .. m
      BY <2>2
    <3>2. g[n - 1] = f[n - 1]
      BY <2>4, <3>1
    <3>3. CASE n = m
      BY <3>2, <3>3, <3>1 DEF next
    <3>4. CASE n # m
      <4>1. n \in 1 .. m - 1
        BY <3>4, <2>2
      <4> QED BY <4>1, <3>1, <3>2, <3>4, <2>1 DEF Goes
    <3> QED BY <3>3, <3>4
  <2>9. Goes(m, S, a, F, g)
    <3> HIDE DEF g
    <3> QED BY <2>6, <2>7, <2>8 DEF Goes
  <2> HIDE DEF g
  <2> QED BY <2>2, <2>9
<1>3. N \in T
  <2>1. Rises(N, T)
    BY <1>1, <1>2 DEF Rises
  <2> HIDE DEF T
  <2>2. \A n \in 0 .. N : n \in T
    BY <2>1, Climbs
  <2> QED BY <2>2
<1> QED BY <1>3

-----------------------------------------------------------------------------
(* The text of a sequence of texts.                                         *)

Text == Seq(Numeros!Byte)

RowTexts == Seq(Text)

LEMMA TextIs ==
  ASSUME NEW text \in Text
  PROVE  Len(text) \in Nat /\ \A k \in 1 .. Len(text) : text[k] \in Numeros!Byte /\ text[k] \in Nat /\ text[k] # 0
<1>1. Len(text) \in Nat /\ \A k \in 1 .. Len(text) : text[k] \in Numeros!Byte
  BY DEF Text
<1>2. \A c \in Numeros!Byte : c \in Nat /\ c # 0
  BY DEF Numeros!Byte
<1> QED BY <1>1, <1>2

(* What Concat's recursion chooses.                                         *)
Joined(s, f) == f = [n \in 0 .. Len(s) |-> IF n = 0 THEN <<>> ELSE f[n - 1] \o s[n]]

LEMMA ConcatIs ==
  ASSUME NEW s \in RowTexts
  PROVE  \E f \in [0 .. Len(s) -> Text] :
           Numeros!Concat(s) = f[Len(s)] /\ f[0] = <<>> /\ \A n \in 1 .. Len(s) : f[n] = f[n - 1] \o s[n]
<1> DEFINE N == Len(s)
           F == [n \in 1 .. N |-> [t \in Text |-> t \o s[n]]]
           all == CHOOSE f : Joined(s, f)
<1>1. N \in Nat /\ \A n \in 1 .. N : s[n] \in Text
  BY DEF RowTexts
<1>2. Steps(N, Text, F)
  <2>1. \A n \in 1 .. N, t \in Text : t \o s[n] \in Text
    BY <1>1, ConcatProperties DEF Text
  <2> HIDE DEF N
  <2> QED BY <2>1 DEF Steps
<1>3. <<>> \in Text
  BY DEF Text
<1>4. PICK f : Goes(N, Text, <<>>, F, f)
  <2> HIDE DEF F, N
  <2> QED BY <1>1, <1>2, <1>3, Stepped
<1>5. /\ f \in [0 .. N -> Text] /\ f[0] = <<>>
      /\ \A n \in 1 .. N : f[n] = f[n - 1] \o s[n]
  <2>1. \A n \in 1 .. N : n - 1 \in 0 .. N
    BY <1>1
  <2> HIDE DEF N
  <2> QED BY <2>1, <1>4 DEF Goes
<1> HIDE DEF F
<1>6. Joined(s, f)
  <2>1. f = [n \in 0 .. N |-> IF n = 0 THEN <<>> ELSE f[n - 1] \o s[n]]
    <3>1. \A n \in 0 .. N : n = 0 \/ n \in 1 .. N
      BY <1>1
    <3> HIDE DEF N
    <3> QED BY <1>5, <3>1
  <2> QED BY <2>1 DEF Joined
<1>7. Joined(s, all)
  BY <1>6
<1>8. Numeros!Concat(s) = all[N]
  BY DEF Numeros!Concat, Joined
<1> HIDE DEF all
<1>9. all[0] = <<>> /\ \A n \in 1 .. N : all[n] = all[n - 1] \o s[n]
  BY <1>1, <1>7 DEF Joined
<1>10. \A n \in 0 .. N : all[n] \in Text
  <2> DEFINE T == {n \in 0 .. N : all[n] \in Text}
  <2>1. 0 \in T
    BY <1>1, <1>3, <1>9
  <2>2. ASSUME NEW n \in 1 .. N, n - 1 \in T PROVE n \in T
    <3>1. all[n - 1] \in Text /\ s[n] \in Text
      BY <2>2, <1>1
    <3>2. all[n - 1] \o s[n] \in Text
      BY <3>1, ConcatProperties DEF Text
    <3>3. all[n] = all[n - 1] \o s[n]
      BY <1>9
    <3>4. all[n] \in Text
      BY ONLY <3>2, <3>3
    <3>5. n \in 0 .. N
      BY <1>1
    <3> QED BY <3>4, <3>5
  <2>3. \A n \in 0 .. N : n \in T
    <3>1. Rises(N, T)
      BY <2>1, <2>2 DEF Rises
    <3> HIDE DEF T, N
    <3> QED BY <1>1, <3>1, Climbs
  <2> QED BY <2>3
<1>11. all \in [0 .. N -> Text]
  BY <1>7, <1>10 DEF Joined
<1> QED BY <1>8, <1>9, <1>11

-----------------------------------------------------------------------------
(* The buffer.                                                              *)

Buffers ==
  {b \in [out : [0 .. Cap -> Nat], cap : {Cap}, at : 0 .. Cap] : b.out[Cap] = 255}

(* The buffer keeps the first e bytes of o and the byte past its end, and   *)
(* unless it has run over, it goes on with text and stops there.            *)
Grown(b, o, e, text) ==
  /\ b \in Buffers
  /\ \A k \in 0 .. e - 1 : b.out[k] = o[k]
  /\ b.at < Cap => /\ b.at = e + Len(text)
                   /\ \A k \in 1 .. Len(text) : b.out[e + k - 1] = text[k]

LEMMA RowWrittenIs ==
  ASSUME Cap \in Nat, NEW o \in [0 .. Cap -> Nat], NEW at \in Nat, NEW text \in Text,
         at + Len(text) <= Cap
  PROVE  LET w == Numeros!Verba!Written(o, at, text)
         IN  /\ w \in [0 .. Cap -> Nat]
             /\ \A k \in 0 .. Cap : k < at \/ k >= at + Len(text) => w[k] = o[k]
             /\ \A k \in 1 .. Len(text) : at + k - 1 \in 0 .. Cap /\ w[at + k - 1] = text[k]
<1> DEFINE w == Numeros!Verba!Written(o, at, text)
<1>1. Len(text) \in Nat /\ \A k \in 1 .. Len(text) : text[k] \in Nat
  BY TextIs
<1>2. \A k \in 0 .. Cap : k \in at .. at + Len(text) - 1 => k - at + 1 \in 1 .. Len(text)
  BY <1>1
<1>3. \A k \in 1 .. Len(text) :
        at + k - 1 \in 0 .. Cap /\ at + k - 1 \in at .. at + Len(text) - 1 /\ at + k - 1 - at + 1 = k
  BY <1>1
<1>4. DOMAIN o = 0 .. Cap
  OBVIOUS
<1>5. w = [k \in 0 .. Cap |-> IF k \in at .. at + Len(text) - 1 THEN text[k - at + 1] ELSE o[k]]
  BY <1>4 DEF Numeros!Verba!Written
<1> HIDE DEF w
<1>6. w \in [0 .. Cap -> Nat]
  BY <1>1, <1>2, <1>5
<1>7. ASSUME NEW k \in 1 .. Len(text) PROVE w[at + k - 1] = text[k]
  <2> DEFINE j == at + k - 1
  <2>1. j \in 0 .. Cap /\ j \in at .. at + Len(text) - 1 /\ j - at + 1 = k
    BY <1>3
  <2> HIDE DEF j
  <2>2. w[j] = text[j - at + 1]
    BY <2>1, <1>5
  <2> QED BY <2>1, <2>2 DEF j
<1>8. ASSUME NEW k \in 0 .. Cap, k < at \/ k >= at + Len(text) PROVE w[k] = o[k]
  <2>1. k \notin at .. at + Len(text) - 1
    BY <1>1, <1>8
  <2> QED BY <2>1, <1>5
<1> QED BY <1>3, <1>6, <1>7, <1>8 DEF w

LEMMA OverIs ==
  ASSUME Cap \in Nat, NEW b, NEW o, NEW e \in Nat, NEW text, Grown(b, o, e, text), NEW other
  PROVE  Grown(Numeros!Verba!Over(b), o, e, other) /\ Numeros!Verba!Over(b).at = Cap
<1> DEFINE r == Numeros!Verba!Over(b)
<1>1. r \in Buffers /\ r.out = b.out /\ r.at = Cap
  BY DEF Numeros!Verba!Over, Grown, Buffers
<1> HIDE DEF r
<1>2. ~(r.at < Cap)
  BY <1>1
<1>3. Grown(r, o, e, other)
  BY <1>1, <1>2 DEF Grown
<1> QED BY <1>1, <1>3 DEF r

(* A piece grows the buffer by itself or runs it over, where it stays.      *)
LEMMA PutNGrows ==
  ASSUME Cap \in Nat, NEW b, NEW o, NEW e \in Nat, NEW text \in Text, Grown(b, o, e, text),
         NEW piece \in Text
  PROVE  /\ Grown(Numeros!Verba!PutN(b, piece), o, e, text \o piece)
         /\ b.at = Cap => Numeros!Verba!PutN(b, piece).at = Cap
<1> DEFINE r == Numeros!Verba!PutN(b, piece)
           n == Len(piece)
           m == Len(text)
<1>1. /\ b.out \in [0 .. Cap -> Nat] /\ b.cap = Cap /\ b.at \in 0 .. Cap /\ n \in Nat /\ m \in Nat
      /\ b.at \in Nat
  BY DEF Grown, Buffers, Text
<1>2. CASE ~Numeros!Verba!Room(b, n)
  <2>1. r = Numeros!Verba!Over(b)
    BY <1>2 DEF Numeros!Verba!PutN
  <2> QED BY <2>1, OverIs
<1>3. CASE Numeros!Verba!Room(b, n)
  <2>1. b.at < Cap /\ b.at + n <= Cap - 1 /\ b.at # Cap /\ b.at + n \in 0 .. Cap /\ b.at + n <= Cap
    <3> HIDE DEF r, n, m
    <3>1. b.at < Cap /\ n <= Cap - b.at - 1
      BY ONLY <1>1, <1>3, Zenon DEF Numeros!Verba!Room
    <3>2. b.at \in Nat /\ n \in Nat /\ Cap \in Nat
      BY <1>1
    <3> QED BY ONLY <3>1, <3>2
  <2> DEFINE w == Numeros!Verba!Written(b.out, b.at, piece)
  <2>2. /\ w \in [0 .. Cap -> Nat]
        /\ \A k \in 0 .. Cap : k < b.at \/ k >= b.at + n => w[k] = b.out[k]
        /\ \A k \in 1 .. n : b.at + k - 1 \in 0 .. Cap /\ w[b.at + k - 1] = piece[k]
    <3> DEFINE u == b.out
               a == b.at
    <3>1. Cap \in Nat /\ u \in [0 .. Cap -> Nat] /\ a \in Nat /\ piece \in Text /\ a + Len(piece) <= Cap
      BY <1>1, <2>1
    <3> HIDE DEF w, u, a, n
    <3>2. LET v == Numeros!Verba!Written(u, a, piece)
          IN  /\ v \in [0 .. Cap -> Nat]
              /\ \A k \in 0 .. Cap : k < a \/ k >= a + Len(piece) => v[k] = u[k]
              /\ \A k \in 1 .. Len(piece) : a + k - 1 \in 0 .. Cap /\ v[a + k - 1] = piece[k]
      BY ONLY <3>1, RowWrittenIs
    <3> QED BY <3>2 DEF w, u, a, n
  <2>3. r \in Buffers /\ r.out = w /\ r.at = b.at + n
    <3>1. r = [b EXCEPT !.out = w, !.at = b.at + n]
      BY <1>3 DEF Numeros!Verba!PutN, Grown, Buffers
    <3> HIDE DEF w, r
    <3>2. Cap \in 0 .. Cap /\ Cap >= b.at + n /\ b.out[Cap] = 255
      BY <1>1, <2>1 DEF Grown, Buffers
    <3>3. w[Cap] = 255
      BY <2>2, <3>2
    <3> QED BY <2>1, <2>2, <3>1, <3>3 DEF Grown, Buffers
  <2> DEFINE t == text \o piece
  <2>4. t \in Text /\ Len(t) = m + n /\ \A k \in 1 .. m + n : t[k] = IF k <= m THEN text[k] ELSE piece[k - m]
    BY ConcatProperties DEF Text
  <2>5. b.at = e + m /\ \A k \in 1 .. m : b.out[e + k - 1] = text[k]
    BY <2>1 DEF Grown
  <2>6. \A k \in 0 .. e - 1 : b.out[k] = o[k]
    BY DEF Grown
  <2> HIDE DEF w, r, t, n, m
  <2>8. \A k \in 0 .. e - 1 : r.out[k] = o[k]
    <3>1. \A k \in 0 .. e - 1 : k \in 0 .. Cap /\ k < b.at
      BY <1>1, <2>1, <2>5
    <3> QED BY <2>2, <2>3, <2>6, <3>1
  <2>9. ASSUME NEW k \in 1 .. m + n PROVE r.out[e + k - 1] = t[k]
    <3>1. CASE k <= m
      <4>1. k \in 1 .. m /\ e + k - 1 \in 0 .. Cap /\ e + k - 1 < b.at
        BY <1>1, <2>1, <2>5, <3>1
      <4>2. r.out[e + k - 1] = b.out[e + k - 1]
        BY ONLY <4>1, <2>2, <2>3
      <4> QED BY <4>1, <4>2, <2>4, <2>5, <3>1
    <3>2. CASE ~(k <= m)
      <4>1. k - m \in 1 .. n /\ b.at + (k - m) - 1 = e + k - 1
        BY <1>1, <2>1, <2>5, <3>2
      <4>2. r.out[b.at + (k - m) - 1] = piece[k - m]
        BY ONLY <4>1, <2>2, <2>3
      <4> QED BY <4>1, <4>2, <2>4, <3>2
    <3> QED BY <3>1, <3>2
  <2>10. r.at = e + (m + n)
    BY <1>1, <2>3, <2>5
  <2>11. Grown(r, o, e, t)
    BY <2>3, <2>4, <2>8, <2>9, <2>10 DEF Grown
  <2> QED BY <2>1, <2>11 DEF r, t, n
<1> QED BY <1>2, <1>3

(* Any buffer has grown by nothing since it was where it is.                *)
LEMMA StartsGrown == ASSUME Cap \in Nat, NEW b \in Buffers PROVE b.at \in Nat /\ Grown(b, b.out, b.at, <<>>)
BY DEF Grown, Buffers

LEMMA NoneAdded == \A s \in Text : s \o <<>> = s /\ <<>> \in Text
BY DEF Text

LEMMA PutNStays ==
  ASSUME Cap \in Nat, NEW b \in Buffers, NEW piece \in Text
  PROVE  Numeros!Verba!PutN(b, piece) \in Buffers
<1>1. <<>> \in Text /\ b.at \in Nat /\ Grown(b, b.out, b.at, <<>>)
  BY StartsGrown DEF Text
<1>2. Grown(Numeros!Verba!PutN(b, piece), b.out, b.at, <<>> \o piece)
  BY <1>1, PutNGrows
<1> QED BY <1>2 DEF Grown

LEMMA RowAssociated ==
  ASSUME NEW s \in Text, NEW t \in Text, NEW u \in Text
  PROVE  (s \o t) \o u = s \o (t \o u)
BY ConcatAssociative DEF Text

LEMMA Adjoined ==
  ASSUME NEW s \in Text, NEW t \in Text
  PROVE  s \o t \in Text
BY ConcatProperties DEF Text

(* What Put's recursion chooses.                                            *)
Wrote(b, pieces, f) ==
  f = [n \in 0 .. Len(pieces) |-> IF n = 0 THEN b ELSE Numeros!Verba!PutN(f[n - 1], pieces[n])]

(* The pieces of a value grow a buffer by the text they are joined to.      *)
LEMMA PutGrows ==
  ASSUME Cap \in Nat, NEW b, NEW o, NEW e \in Nat, NEW text \in Text, Grown(b, o, e, text),
         NEW pieces \in RowTexts
  PROVE  /\ Grown(Numeros!Verba!Put(b, pieces), o, e, text \o Numeros!Concat(pieces))
         /\ Numeros!Concat(pieces) \in Text
         /\ b.at = Cap => Numeros!Verba!Put(b, pieces).at = Cap
<1> DEFINE N == Len(pieces)
           F == [n \in 1 .. N |-> [x \in Buffers |-> Numeros!Verba!PutN(x, pieces[n])]]
           after == CHOOSE f : Wrote(b, pieces, f)
<1>1. N \in Nat /\ \A n \in 1 .. N : pieces[n] \in Text
  BY DEF RowTexts
<1>2. b \in Buffers
  BY DEF Grown
<1>3. Steps(N, Buffers, F)
  <2>1. \A n \in 1 .. N, x \in Buffers : Numeros!Verba!PutN(x, pieces[n]) \in Buffers
    BY <1>1, PutNStays
  <2> HIDE DEF N
  <2> QED BY <2>1 DEF Steps
<1>4. PICK f : Goes(N, Buffers, b, F, f)
  <2> HIDE DEF F, N
  <2> QED BY <1>1, <1>2, <1>3, Stepped
<1>5. /\ f \in [0 .. N -> Buffers] /\ f[0] = b
      /\ \A n \in 1 .. N : f[n] = Numeros!Verba!PutN(f[n - 1], pieces[n])
  <2>1. \A n \in 1 .. N : n - 1 \in 0 .. N
    BY <1>1
  <2> HIDE DEF N
  <2> QED BY <2>1, <1>4 DEF Goes
<1> HIDE DEF F
<1>6. Wrote(b, pieces, f)
  <2>1. f = [n \in 0 .. N |-> IF n = 0 THEN b ELSE Numeros!Verba!PutN(f[n - 1], pieces[n])]
    <3>1. \A n \in 0 .. N : n = 0 \/ n \in 1 .. N
      BY <1>1
    <3> HIDE DEF N
    <3> QED BY <1>5, <3>1
  <2> QED BY <2>1 DEF Wrote
<1>7. Wrote(b, pieces, after)
  BY <1>6
<1>8. Numeros!Verba!Put(b, pieces) = after[N]
  BY DEF Numeros!Verba!Put, Wrote
<1> HIDE DEF after
<1>9. after[0] = b /\ \A n \in 1 .. N : after[n] = Numeros!Verba!PutN(after[n - 1], pieces[n])
  BY <1>1, <1>7 DEF Wrote
<1>10. PICK all \in [0 .. N -> Text] :
         Numeros!Concat(pieces) = all[N] /\ all[0] = <<>> /\ \A n \in 1 .. N : all[n] = all[n - 1] \o pieces[n]
  BY ConcatIs
<1> DEFINE T == {n \in 0 .. N : Grown(after[n], o, e, text \o all[n]) /\ (b.at = Cap => after[n].at = Cap)}
<1>11. 0 \in T
  <2>1. text \o all[0] = text
    BY <1>10, NoneAdded
  <2>2. after[0] = b /\ 0 \in 0 .. N
    BY <1>1, <1>9
  <2>3. Grown(after[0], o, e, text \o all[0])
    BY <2>1, <2>2
  <2> QED BY <2>2, <2>3
<1>12. ASSUME NEW n \in 1 .. N, n - 1 \in T PROVE n \in T
  <2>1. n - 1 \in 0 .. N /\ n \in 0 .. N
    BY <1>1
  <2>2. all[n - 1] \in Text /\ pieces[n] \in Text
    BY <1>1, <2>1, <1>10
  <2>3. text \o all[n - 1] \in Text
    BY <2>2, Adjoined
  <2>4. Grown(after[n - 1], o, e, text \o all[n - 1]) /\ (b.at = Cap => after[n - 1].at = Cap)
    BY <1>12
  <2>5. /\ Grown(after[n], o, e, (text \o all[n - 1]) \o pieces[n])
        /\ after[n - 1].at = Cap => after[n].at = Cap
    <3> DEFINE x == after[n - 1]
               t == text \o all[n - 1]
               q == pieces[n]
    <3>1. Cap \in Nat /\ e \in Nat /\ t \in Text /\ q \in Text /\ Grown(x, o, e, t)
      BY <2>2, <2>3, <2>4
    <3>2. after[n] = Numeros!Verba!PutN(x, q)
      BY <1>9
    <3> HIDE DEF x, t, q, after
    <3>3. Grown(Numeros!Verba!PutN(x, q), o, e, t \o q) /\ (x.at = Cap => Numeros!Verba!PutN(x, q).at = Cap)
      BY ONLY <3>1, PutNGrows
    <3> QED BY <3>2, <3>3 DEF x, t, q
  <2>6. (text \o all[n - 1]) \o pieces[n] = text \o all[n]
    <3>1. all[n] = all[n - 1] \o pieces[n]
      BY <1>10
    <3>2. (text \o all[n - 1]) \o pieces[n] = text \o (all[n - 1] \o pieces[n])
      <4> DEFINE t == all[n - 1]
                 q == pieces[n]
      <4>1. t \in Text /\ q \in Text /\ text \in Text
        BY <2>2
      <4> HIDE DEF t, q
      <4>2. (text \o t) \o q = text \o (t \o q)
        BY ONLY <4>1, RowAssociated
      <4> QED BY <4>2 DEF t, q
    <3> QED BY <3>1, <3>2
  <2> QED BY <2>1, <2>4, <2>5, <2>6
<1>13. \A n \in 0 .. N : n \in T
  <2>1. Rises(N, T)
    BY <1>11, <1>12 DEF Rises
  <2> HIDE DEF T, N
  <2> QED BY <1>1, <2>1, Climbs
<1>14. N \in T /\ N \in 0 .. N
  BY <1>1, <1>13
<1> QED BY <1>8, <1>10, <1>14

(* One piece alone.                                                         *)
LEMMA RowPutOne ==
  ASSUME NEW b, NEW piece \in Text
  PROVE  <<piece>> \in RowTexts /\ Numeros!Verba!Put(b, <<piece>>) = Numeros!Verba!PutN(b, piece) /\ Numeros!Concat(<<piece>>) = piece
<1> DEFINE pieces == <<piece>>
           first == Numeros!Verba!PutN(b, piece)
           after == CHOOSE f : Wrote(b, pieces, f)
<1>1. pieces \in RowTexts /\ Len(pieces) = 1 /\ pieces[1] = piece
  BY DEF RowTexts
<1> HIDE DEF pieces
<1>2. Wrote(b, pieces, [n \in 0 .. 1 |-> IF n = 0 THEN b ELSE first])
  BY <1>1 DEF Wrote
<1>3. Wrote(b, pieces, after)
  BY <1>2
<1>4. Numeros!Verba!Put(b, pieces) = after[1]
  BY <1>1 DEF Numeros!Verba!Put, Wrote
<1> HIDE DEF after
<1>5. after[1] = first
  BY <1>1, <1>3 DEF Wrote
<1>6. Numeros!Concat(pieces) = piece
  <2>1. PICK f \in [0 .. 1 -> Text] :
          Numeros!Concat(pieces) = f[1] /\ f[0] = <<>> /\ \A n \in 1 .. 1 : f[n] = f[n - 1] \o pieces[n]
    BY <1>1, ConcatIs
  <2>2. f[1] = <<>> \o piece
    <3>1. f[1] = f[1 - 1] \o pieces[1] /\ 1 - 1 = 0
      BY <2>1
    <3> QED BY <3>1, <1>1, <2>1
  <2>3. <<>> \o piece = piece
    BY DEF Text
  <2> QED BY <2>1, <2>2, <2>3
<1> QED BY <1>1, <1>4, <1>5, <1>6 DEF pieces

-----------------------------------------------------------------------------
(* A row.                                                                   *)

LEMMA PutStays ==
  ASSUME Cap \in Nat, NEW b \in Buffers, NEW pieces \in RowTexts
  PROVE  Numeros!Verba!Put(b, pieces) \in Buffers
<1>1. <<>> \in Text /\ b.at \in Nat /\ Grown(b, b.out, b.at, <<>>)
  BY StartsGrown DEF Text
<1>2. Grown(Numeros!Verba!Put(b, pieces), b.out, b.at, <<>> \o Numeros!Concat(pieces))
  BY <1>1, PutGrows
<1> QED BY <1>2 DEF Grown

(* A row writes the pieces of each place, or runs over at a bad one.        *)
Ran(b, rows, bad, f) ==
  f = [n \in 0 .. Len(rows) |->
         IF n = 0 THEN b ELSE IF n \in bad THEN Numeros!Verba!Over(f[n - 1]) ELSE Numeros!Verba!Put(f[n - 1], rows[n])]

LEMMA RowRuns ==
  ASSUME Cap \in Nat, NEW b \in Buffers, NEW rows \in Seq(RowTexts), NEW bad
  PROVE  \E f : Ran(b, rows, bad, f)
<1> DEFINE N == Len(rows)
           Step(x, n) == IF n \in bad THEN Numeros!Verba!Over(x) ELSE Numeros!Verba!Put(x, rows[n])
           F == [n \in 1 .. N |-> [x \in Buffers |-> Step(x, n)]]
<1>1. N \in Nat /\ \A n \in 1 .. N : rows[n] \in RowTexts
  OBVIOUS
<1>2. ASSUME NEW n \in 1 .. N, NEW x \in Buffers PROVE Step(x, n) \in Buffers
  <2>1. Numeros!Verba!Over(x) \in Buffers
    <3>1. x.at \in Nat /\ Grown(x, x.out, x.at, <<>>)
      BY StartsGrown
    <3>2. Grown(Numeros!Verba!Over(x), x.out, x.at, <<>>)
      BY <3>1, OverIs
    <3> QED BY <3>2 DEF Grown
  <2>2. Numeros!Verba!Put(x, rows[n]) \in Buffers
    BY <1>1, PutStays
  <2> QED BY <2>1, <2>2
<1> HIDE DEF N, Step
<1>3. Steps(N, Buffers, F)
  BY <1>2 DEF Steps
<1>4. PICK f : Goes(N, Buffers, b, F, f)
  <2> HIDE DEF F
  <2> QED BY <1>1, <1>3, Stepped
<1>5. f \in [0 .. N -> Buffers] /\ f[0] = b /\ \A n \in 1 .. N : f[n] = Step(f[n - 1], n)
  <2>1. \A n \in 1 .. N : n - 1 \in 0 .. N
    BY <1>1
  <2> QED BY <2>1, <1>4 DEF Goes
<1> HIDE DEF F
<1>6. f = [n \in 0 .. N |-> IF n = 0 THEN b ELSE Step(f[n - 1], n)]
  <2>1. \A n \in 0 .. N : n = 0 \/ n \in 1 .. N
    BY <1>1
  <2> QED BY <1>5, <2>1
<1>7. Ran(b, rows, bad, f)
  BY <1>6 DEF Ran, N, Step
<1> QED BY <1>7

RowText(rows) == Numeros!Concat([n \in 1 .. Len(rows) |-> Numeros!Concat(rows[n])])

LEMMA RowGrows ==
  ASSUME Cap \in Nat, NEW b, NEW o, NEW e \in Nat, Grown(b, o, e, <<>>),
         NEW rows \in Seq(RowTexts), NEW bad, bad \subseteq 1 .. Len(rows), NEW f, Ran(b, rows, bad, f)
  PROVE  /\ RowText(rows) \in Text /\ Grown(f[Len(rows)], o, e, RowText(rows))
         /\ bad # {} => f[Len(rows)].at = Cap
<1> DEFINE N == Len(rows)
           each == [n \in 1 .. N |-> Numeros!Concat(rows[n])]
<1>1. N \in Nat /\ \A n \in 1 .. N : rows[n] \in RowTexts
  OBVIOUS
<1>2. \A n \in 1 .. N : Numeros!Concat(rows[n]) \in Text
  <2> TAKE n \in 1 .. N
  <2>1. rows[n] \in RowTexts /\ Len(rows[n]) \in Nat
    BY <1>1 DEF RowTexts
  <2>2. PICK all \in [0 .. Len(rows[n]) -> Text] : Numeros!Concat(rows[n]) = all[Len(rows[n])]
    BY <2>1, ConcatIs
  <2> QED BY <2>1, <2>2
<1>3. each \in RowTexts /\ Len(each) = N /\ \A n \in 1 .. N : each[n] = Numeros!Concat(rows[n])
  <2> HIDE DEF N
  <2> QED BY <1>1, <1>2 DEF RowTexts
<1> HIDE DEF each
<1>4. PICK all \in [0 .. N -> Text] :
        Numeros!Concat(each) = all[N] /\ all[0] = <<>> /\ \A n \in 1 .. N : all[n] = all[n - 1] \o each[n]
  <2>1. PICK all \in [0 .. Len(each) -> Text] :
          Numeros!Concat(each) = all[Len(each)] /\ all[0] = <<>> /\ \A n \in 1 .. Len(each) : all[n] = all[n - 1] \o each[n]
    BY <1>3, ConcatIs
  <2> HIDE DEF N
  <2> QED BY <1>3, <2>1
<1>5. /\ f[0] = b
      /\ \A n \in 1 .. N : f[n] = IF n \in bad THEN Numeros!Verba!Over(f[n - 1]) ELSE Numeros!Verba!Put(f[n - 1], rows[n])
  BY <1>1 DEF Ran
<1> DEFINE T == {n \in 0 .. N : Grown(f[n], o, e, all[n]) /\ ((\E m \in bad : m <= n) => f[n].at = Cap)}
<1>6. 0 \in T
  BY <1>1, <1>4, <1>5
<1>7. ASSUME NEW n \in 1 .. N, n - 1 \in T PROVE n \in T
  <2>1. n - 1 \in 0 .. N /\ n \in 0 .. N
    BY <1>1
  <2>2. all[n - 1] \in Text /\ rows[n] \in RowTexts /\ all[n] = all[n - 1] \o Numeros!Concat(rows[n])
    BY <1>1, <1>3, <1>4, <2>1
  <2>3. Grown(f[n - 1], o, e, all[n - 1]) /\ ((\E m \in bad : m <= n - 1) => f[n - 1].at = Cap)
    BY <1>7
  <2>4. CASE n \in bad
    <3>1. Grown(f[n], o, e, all[n]) /\ f[n].at = Cap
      BY <2>3, <2>4, <1>5, OverIs
    <3> QED BY <3>1, <2>1
  <2>5. CASE n \notin bad
    <3>1. f[n] = Numeros!Verba!Put(f[n - 1], rows[n])
      BY <2>5, <1>5
    <3>2. /\ Grown(f[n], o, e, all[n - 1] \o Numeros!Concat(rows[n]))
          /\ f[n - 1].at = Cap => f[n].at = Cap
      <4> DEFINE x == f[n - 1]
                 t == all[n - 1]
                 q == rows[n]
      <4>1. Cap \in Nat /\ e \in Nat /\ t \in Text /\ q \in RowTexts /\ Grown(x, o, e, t)
        BY <2>2, <2>3
      <4> HIDE DEF x, t, q
      <4>2. Grown(Numeros!Verba!Put(x, q), o, e, t \o Numeros!Concat(q)) /\ (x.at = Cap => Numeros!Verba!Put(x, q).at = Cap)
        BY ONLY <4>1, PutGrows
      <4> QED BY <3>1, <4>2 DEF x, t, q
    <3>3. ASSUME NEW m \in bad, m <= n PROVE m <= n - 1
      BY <3>3, <2>5, <1>1
    <3> QED BY <2>1, <2>2, <2>3, <3>2, <3>3
  <2> QED BY <2>4, <2>5
<1>8. N \in T
  <2>1. \A n \in 0 .. N : n \in T
    <3>1. Rises(N, T)
      BY <1>6, <1>7 DEF Rises
    <3> HIDE DEF T, N
    <3> QED BY <1>1, <3>1, Climbs
  <2> QED BY <2>1, <1>1
<1>9. bad # {} => \E m \in bad : m <= N
  BY <1>1
<1>10. all[N] \in Text
  BY <1>1, <1>4
<1> QED BY <1>4, <1>8, <1>9, <1>10 DEF each, RowText

-----------------------------------------------------------------------------
(* What a call answers.                                                     *)

(* The first e bytes of o and the byte past the end are kept; and a count   *)
(* says that text follows them, terminated, and that it is what was meant.  *)
Answered(r, o, e, text) ==
  /\ r.b.out \in [0 .. Cap -> Nat] /\ r.b.out[Cap] = 255
  /\ \A k \in 0 .. e - 1 : r.b.out[k] = o[k]
  /\ r.count # 0 =>
       /\ text \in Text /\ r.count = e + Len(text) /\ r.count < Cap
       /\ \A k \in 1 .. Len(text) : r.b.out[e + k - 1] = text[k]
       /\ r.b.out[r.count] = 0

LEMMA AbandonIs ==
  ASSUME Cap \in Nat, NEW b, NEW o, NEW e \in Nat, e < Cap, NEW text, Grown(b, o, e, text), NEW other
  PROVE  Answered(Numeros!Abandon(b, e), o, e, other)
<1> DEFINE r == Numeros!Abandon(b, e)
           w == [b.out EXCEPT ![e] = 0]
<1>1. b.out \in [0 .. Cap -> Nat] /\ b.out[Cap] = 255 /\ \A k \in 0 .. e - 1 : b.out[k] = o[k]
  BY DEF Grown, Buffers
<1>2. r.count = 0 /\ r.b.out = w
  BY DEF Numeros!Abandon, Grown, Buffers
<1>3. w \in [0 .. Cap -> Nat] /\ \A k \in 0 .. Cap : k # e => w[k] = b.out[k]
  BY <1>1
<1>4. \A k \in 0 .. e - 1 : k \in 0 .. Cap /\ k # e
  OBVIOUS
<1>5. Cap \in 0 .. Cap /\ Cap # e
  OBVIOUS
<1> HIDE DEF r, w
<1>6. r.b.out \in [0 .. Cap -> Nat] /\ r.b.out[Cap] = 255
  BY ONLY <1>1, <1>2, <1>3, <1>5
<1>7. \A k \in 0 .. e - 1 : r.b.out[k] = o[k]
  BY ONLY <1>1, <1>2, <1>3, <1>4
<1>8. Answered(r, o, e, other)
  BY ONLY <1>2, <1>6, <1>7, Zenon DEF Answered
<1> QED BY ONLY <1>8, Zenon DEF r

LEMMA FinishIs ==
  ASSUME Cap \in Nat, NEW b, NEW o, NEW e \in Nat, e < Cap, NEW text \in Text, Grown(b, o, e, text)
  PROVE  Answered(Numeros!Finish(b, e), o, e, text) /\ (Numeros!Finish(b, e).count # 0 => b.at < Cap)
<1> DEFINE done == Numeros!Verba!Finish(b)
           r == Numeros!Finish(b, e)
<1>1. /\ b.out \in [0 .. Cap -> Nat] /\ b.out[Cap] = 255 /\ \A k \in 0 .. e - 1 : b.out[k] = o[k]
      /\ b.at \in Nat /\ b.at <= Cap /\ b.cap = Cap /\ Len(text) \in Nat
  BY DEF Grown, Buffers, Text
<1>2. CASE b.at >= Cap
  <2>1. done = [b |-> b, count |-> 0]
    BY <1>1, <1>2 DEF Numeros!Verba!Finish
  <2>2. r = Numeros!Abandon(b, e)
    BY <2>1 DEF Numeros!Finish
  <2>3. r.count = 0
    BY <2>2 DEF Numeros!Abandon
  <2> HIDE DEF r
  <2> QED BY <2>2, <2>3, AbandonIs DEF r
<1>3. CASE ~(b.at >= Cap)
  <2> DEFINE w == Numeros!Verba!Written(b.out, b.at, <<0>>)
             d == [b EXCEPT !.out = w]
             a == b.at
  <2>1. a < Cap /\ a = e + Len(text) /\ \A k \in 1 .. Len(text) : b.out[e + k - 1] = text[k]
    BY <1>1, <1>3 DEF Grown
  <2>2. done = [b |-> d, count |-> a]
    BY <1>1, <1>3 DEF Numeros!Verba!Finish
  <2>3. w = [k \in 0 .. Cap |-> IF k = a THEN 0 ELSE b.out[k]]
    <3>1. DOMAIN b.out = 0 .. Cap /\ a \in Nat
      BY <1>1
    <3>2. \A k \in 0 .. Cap : k \in a .. a + Len(<<0>>) - 1 <=> k = a
      BY <3>1
    <3>3. \A k \in 0 .. Cap : k = a => <<0>>[k - a + 1] = 0
      BY <3>1
    <3> HIDE DEF a
    <3>4. w = [k \in 0 .. Cap |-> IF k \in a .. a + Len(<<0>>) - 1 THEN <<0>>[k - a + 1] ELSE b.out[k]]
      BY <3>1 DEF Numeros!Verba!Written, a
    <3> HIDE DEF w
    <3> QED BY <3>2, <3>3, <3>4
  <2>4. d.out = w /\ d.at = a /\ d.cap = Cap /\ d \in [out : [0 .. Cap -> Nat], cap : {Cap}, at : 0 .. Cap]
    <3> HIDE DEF w
    <3>1. w \in [0 .. Cap -> Nat]
      BY <1>1, <2>3
    <3> QED BY <3>1 DEF Grown, Buffers
  <2>5. a \in 0 .. Cap /\ a # Cap /\ Cap \in 0 .. Cap
    BY <1>1, <2>1
  <2>6. \A k \in 0 .. e - 1 : k \in 0 .. Cap /\ k # a
    BY <1>1, <2>1
  <2>7. \A k \in 1 .. Len(text) : e + k - 1 \in 0 .. Cap /\ e + k - 1 # a
    BY <1>1, <2>1
  <2>8. d.out[Cap] = 255 /\ d.out[a] = 0 /\ (\A k \in 0 .. e - 1 : d.out[k] = o[k])
        /\ \A k \in 1 .. Len(text) : d.out[e + k - 1] = text[k]
    <3> HIDE DEF w, d, a
    <3>1. d.out[Cap] = 255 /\ d.out[a] = 0
      BY <2>3, <2>4, <2>5, <1>1
    <3>2. \A k \in 0 .. e - 1 : d.out[k] = o[k]
      BY <2>3, <2>4, <2>6, <1>1
    <3>3. ASSUME NEW k \in 1 .. Len(text) PROVE d.out[e + k - 1] = text[k]
      <4> DEFINE j == e + k - 1
      <4>1. j \in 0 .. Cap /\ j # a /\ b.out[j] = text[k]
        BY <2>1, <2>7
      <4> HIDE DEF j
      <4>2. d.out[j] = text[k]
        BY <2>3, <2>4, <4>1
      <4> QED BY <4>2 DEF j
    <3> QED BY <3>1, <3>2, <3>3
  <2>9. CASE a = 0
    <3>1. Grown(d, o, e, text)
      <4> HIDE DEF d, w
      <4> QED BY <2>1, <2>4, <2>8 DEF Grown, Buffers
    <3>2. r = Numeros!Abandon(d, e)
      BY <2>2, <2>9 DEF Numeros!Finish
    <3>3. r.count = 0
      BY <3>2 DEF Numeros!Abandon
    <3> HIDE DEF r, d, w
    <3> QED BY <3>1, <3>2, <3>3, AbandonIs DEF r
  <2>10. CASE a # 0
    <3>1. r = [b |-> d, count |-> a]
      BY <2>2, <2>10 DEF Numeros!Finish
    <3>2. r.b = d /\ r.count = a
      BY <3>1
    <3> HIDE DEF r, d, w, a
    <3>3. Answered(r, o, e, text)
      BY <3>2, <2>1, <2>4, <2>8 DEF Answered
    <3> QED BY <3>3, <2>1 DEF r, a
  <2> QED BY <2>9, <2>10
<1> QED BY <1>2, <1>3

-----------------------------------------------------------------------------
(* The invariant.                                                           *)

RowInv ==
  /\ out \in [0 .. Cap -> Nat] /\ out[Cap] = 255
  /\ told \in Text /\ Len(told) < Cap
  /\ \A k \in 1 .. Len(told) : out[k - 1] = told[k]
  /\ out[Len(told)] = 0
  /\ cursor \in {0, Len(told)}

LEMMA RowFacts ==
  ASSUME Numeros!RowsAssumption, RowInv
  PROVE  /\ Cap \in Nat /\ Len(told) \in Nat /\ Len(told) < Cap /\ out[Len(told)] = 0
         /\ \A k \in 0 .. Len(told) - 1 : out[k] # 0 /\ out[k] = told[k + 1]
<1>1. Cap \in Nat /\ Len(told) \in Nat /\ Len(told) < Cap /\ out[Len(told)] = 0
  BY DEF Numeros!RowsAssumption, RowInv, Text
<1>2. ASSUME NEW k \in 0 .. Len(told) - 1 PROVE out[k] # 0 /\ out[k] = told[k + 1]
  <2>1. k + 1 \in 1 .. Len(told) /\ (k + 1) - 1 = k
    BY <1>1
  <2>2. told[k + 1] # 0
    BY <2>1, TextIs DEF RowInv
  <2>3. out[(k + 1) - 1] = told[k + 1]
    BY ONLY <2>1, RowInv DEF RowInv
  <2> QED BY <2>1, <2>2, <2>3
<1> QED BY <1>1, <1>2

LEMMA UsedIs ==
  ASSUME Numeros!RowsAssumption, RowInv, NEW at \in {0, cursor}
  PROVE  Used(at) = Len(told)
<1> DEFINE ends == {k \in 0 .. Cap - 1 : out[k] = 0}
           n == Len(told)
<1>1. n \in Nat /\ n \in ends /\ \A k \in ends : n <= k
  <2>1. n \in Nat /\ Cap \in Nat /\ n < Cap /\ out[n] = 0 /\ \A k \in 0 .. n - 1 : out[k] # 0
    BY RowFacts
  <2> HIDE DEF n
  <2> QED BY <2>1
<1>2. CASE at # 0
  BY <1>2 DEF Used, RowInv
<1>3. CASE at = 0
  <2>1. Used(at) = CHOOSE k \in ends : \A l \in ends : k <= l
    BY <1>1, <1>3 DEF Used
  <2>2. \A k \in ends : k \in Nat
    BY RowFacts
  <2> HIDE DEF ends, n
  <2>3. \A k \in ends : (\A l \in ends : k <= l) => k = n
    BY <1>1, <2>2
  <2> QED BY <1>1, <2>1, <2>3 DEF n
<1> QED BY <1>2, <1>3

LEMMA BufferStarts ==
  ASSUME Numeros!RowsAssumption, RowInv
  PROVE  Numeros!Buffer(Len(told)) \in Buffers /\ Grown(Numeros!Buffer(Len(told)), out, Len(told), <<>>)
<1>1. Cap \in Nat /\ Len(told) \in 0 .. Cap /\ out \in [0 .. Cap -> Nat] /\ out[Cap] = 255
  BY RowFacts DEF RowInv
<1>2. Numeros!Buffer(Len(told)) \in Buffers
  BY <1>1 DEF Numeros!Buffer, Buffers
<1> QED BY <1>1, <1>2 DEF Numeros!Buffer, Grown

LEMMA DoneIs ==
  ASSUME Numeros!RowsAssumption, RowInv, NEW r, NEW text, Answered(r, out, Len(told), text),
         Numeros!Done(Len(told), r, IF r.count = 0 THEN <<>> ELSE text)
  PROVE  RowInv'
<1> DEFINE e == Len(told)
<1>1. /\ Cap \in Nat /\ e \in Nat /\ e < Cap /\ out[e] = 0 /\ told \in Text
      /\ \A k \in 1 .. e : out[k - 1] = told[k]
  BY RowFacts DEF RowInv
<1>2. /\ out' = IF r.count = 0 THEN [r.b.out EXCEPT ![e] = 0] ELSE r.b.out
      /\ cursor' = r.count
      /\ told' = IF r.count = 0 THEN told ELSE told \o text
  BY <1>1 DEF Numeros!Done
<1>3. r.b.out \in [0 .. Cap -> Nat] /\ r.b.out[Cap] = 255 /\ \A k \in 0 .. e - 1 : r.b.out[k] = out[k]
  BY DEF Answered
<1>4. ASSUME NEW k \in 1 .. e PROVE r.b.out[k - 1] = told[k] /\ k - 1 \in 0 .. Cap /\ k - 1 # e
  <2>1. k - 1 \in 0 .. e - 1 /\ k - 1 \in 0 .. Cap /\ k - 1 # e
    BY <1>1
  <2> QED BY <2>1, <1>1, <1>3
<1>5. CASE r.count = 0
  <2> DEFINE w == [r.b.out EXCEPT ![e] = 0]
  <2>1. e \in 0 .. Cap /\ Cap \in 0 .. Cap /\ Cap # e
    BY <1>1
  <2>2. w \in [0 .. Cap -> Nat] /\ w[e] = 0 /\ \A k \in 0 .. Cap : k # e => w[k] = r.b.out[k]
    BY <2>1, <1>3
  <2>3. out' = w /\ cursor' = 0 /\ told' = told
    BY <1>2, <1>5
  <2> HIDE DEF w
  <2>4. \A k \in 1 .. e : w[k - 1] = told[k]
    BY <1>4, <2>2
  <2> QED BY <1>1, <1>3, <2>1, <2>2, <2>3, <2>4 DEF RowInv
<1>6. CASE r.count # 0
  <2> DEFINE n == Len(text)
             t == told \o text
             w == r.b.out
  <2>1. /\ text \in Text /\ r.count = e + n /\ r.count < Cap /\ n \in Nat
        /\ (\A k \in 1 .. n : w[e + k - 1] = text[k]) /\ w[r.count] = 0
    BY <1>6 DEF Answered, Text
  <2>2. t \in Text /\ Len(t) = e + n /\ \A k \in 1 .. e + n : t[k] = IF k <= e THEN told[k] ELSE text[k - e]
    BY <1>1, <2>1, ConcatProperties DEF Text
  <2>3. out' = w /\ cursor' = e + n /\ told' = t
    BY <1>2, <1>6, <2>1
  <2> HIDE DEF t, n, e, w
  <2>4. ASSUME NEW k \in 1 .. e + n PROVE w[k - 1] = t[k]
    <3>1. CASE k <= e
      <4>1. k \in 1 .. e
        BY <3>1, <1>1, <2>1
      <4> QED BY <3>1, <4>1, <1>4, <2>2 DEF w
    <3>2. CASE ~(k <= e)
      <4>1. k - e \in 1 .. n /\ e + (k - e) - 1 = k - 1
        BY <3>2, <1>1, <2>1
      <4>2. w[e + (k - e) - 1] = text[k - e]
        BY ONLY <4>1, <2>1
      <4> QED BY <3>2, <4>1, <4>2, <2>2
    <3> QED BY <3>1, <3>2
  <2>5. w \in [0 .. Cap -> Nat] /\ w[Cap] = 255 /\ w[e + n] = 0 /\ e + n < Cap
    BY <1>3, <2>1 DEF w
  <2> QED BY <2>2, <2>3, <2>4, <2>5 DEF RowInv
<1> QED BY <1>5, <1>6

-----------------------------------------------------------------------------
(* The two calls.                                                           *)

(* What the rows measure and count with is the instance's.                  *)
LEMMA SameSizes == \A S : Numeros!Cardinality(S) = Cardinality(S)
BY DEF Numeros!Cardinality, Cardinality

LEMMA SameUsed == \A at : Numeros!Used(at) = Used(at)
BY DEF Numeros!Used, Used

LEMMA TakenIs ==
  ASSUME NEW spec, NEW n \in Nat, n > 0, spec[n].kind # "lit"
  PROVE  Numeros!Taken(spec, n) \in Nat /\ Numeros!Taken(spec, n) >= 1
<1> DEFINE S == {m \in 1 .. n : spec[m].kind # "lit"}
<1>1. IsFiniteSet(S) /\ n \in S
  BY FS_Interval, FS_Subset
<1> HIDE DEF S
<1>2. Cardinality(S) \in Nat /\ Cardinality(S) # 0
  BY <1>1, FS_CardinalityType, FS_EmptySet
<1> QED BY <1>2, SameSizes DEF Numeros!Taken, S

LEMMA FirstOf ==
  ASSUME NEW N \in Nat, NEW wrong, wrong \subseteq 1 .. N, wrong # {}
  PROVE  LET first == CHOOSE n \in wrong : \A m \in wrong : n <= m
         IN  first \in 1 .. N /\ \A m \in wrong : first <= m
<1>1. wrong \subseteq Nat
  OBVIOUS
<1>2. \E n \in wrong : \A m \in wrong : n <= m
  BY <1>1, LeastOf
<1> QED BY <1>2

LEMMA BuildAnswers ==
  ASSUME Numeros!RowsAssumption, RowInv, NEW spec \in Fields, NEW vals \in Values
  PROVE  Answered(Numeros!Build(Len(told), spec, vals), out, Len(told), Numeros!Meant(spec, vals))
<1> DEFINE at == Len(told)
           Matches(n) ==
             spec[n].kind # "lit" =>
               Numeros!Taken(spec, n) <= Len(vals) /\ vals[Numeros!Taken(spec, n)].kind = spec[n].kind
           wrong == {n \in 1 .. Len(spec) : ~Matches(n)}
           upto == IF wrong = {} THEN Len(spec) ELSE (CHOOSE n \in wrong : \A m \in wrong : n <= m) - 1
           Step(x, n) == IF spec[n].kind = "lit" THEN Numeros!Verba!PutN(x, spec[n].literal)
                         ELSE Numeros!EmitOne(x, vals[Numeros!Taken(spec, n)], spec[n].width)
           Rec(f) == f = [n \in 0 .. upto |-> IF n = 0 THEN Numeros!Buffer(at) ELSE Step(f[n - 1], n)]
           last == CHOOSE f : Rec(f)
           Row(n) == IF spec[n].kind = "lit" THEN <<spec[n].literal>>
                     ELSE Numeros!Pieces(vals[Numeros!Taken(spec, n)], spec[n].width)
           Means(n) == IF spec[n].kind = "lit" THEN spec[n].literal
                       ELSE Numeros!Concat(Numeros!Pieces(vals[Numeros!Taken(spec, n)], spec[n].width))
           rows == [n \in 1 .. upto |-> Row(n)]
           text == Numeros!Concat([n \in 1 .. upto |-> Numeros!Concat(rows[n])])
<1>1. Len(spec) \in Nat /\ Len(vals) \in Nat
  BY DEF Numeros!RowsAssumption, Numeros!IsSequence
<1>2. upto \in 0 .. Len(spec) /\ (wrong = {} => upto = Len(spec))
      /\ \A n \in 1 .. upto : n \in 1 .. Len(spec) /\ n \notin wrong
  <2>1. wrong \subseteq 1 .. Len(spec)
    OBVIOUS
  <2> HIDE DEF wrong
  <2>2. CASE wrong = {}
    BY <1>1, <2>2
  <2>3. CASE wrong # {}
    <3> DEFINE first == CHOOSE n \in wrong : \A m \in wrong : n <= m
    <3>1. first \in 1 .. Len(spec) /\ \A m \in wrong : first <= m
      BY <1>1, <2>1, <2>3, FirstOf
    <3>2. upto = first - 1
      BY <2>3
    <3> HIDE DEF first, upto
    <3>3. upto \in 0 .. Len(spec) /\ \A n \in 1 .. upto : n \in 1 .. Len(spec) /\ ~(first <= n)
      BY <1>1, <3>1, <3>2
    <3> QED BY <2>3, <3>1, <3>3
  <2> QED BY <2>2, <2>3
<1>3. ASSUME NEW n \in 1 .. upto
      PROVE  Row(n) \in RowTexts /\ Numeros!Concat(Row(n)) = Means(n) /\ \A x : Step(x, n) = Numeros!Verba!Put(x, Row(n))
  <2>1. n \in 1 .. Len(spec) /\ Matches(n)
    <3> HIDE DEF upto
    <3> QED BY <1>2
  <2>2. CASE spec[n].kind = "lit"
    <3>1. spec[n].literal \in Text
      BY <2>1, <2>2 DEF Numeros!RowsAssumption, Text
    <3>2. /\ <<spec[n].literal>> \in RowTexts /\ Numeros!Concat(<<spec[n].literal>>) = spec[n].literal
          /\ \A x : Numeros!Verba!Put(x, <<spec[n].literal>>) = Numeros!Verba!PutN(x, spec[n].literal)
      BY <3>1, RowPutOne
    <3> QED BY <2>2, <3>2
  <2>3. CASE spec[n].kind # "lit"
    <3> DEFINE k == Numeros!Taken(spec, n)
    <3>1. k \in 1 .. Len(vals) /\ vals[k].kind = spec[n].kind
      <4>1. k \in Nat /\ k >= 1
        BY <2>1, <2>3, TakenIs
      <4>2. k <= Len(vals) /\ vals[k].kind = spec[n].kind
        BY <2>1, <2>3
      <4> HIDE DEF k
      <4> QED BY <1>1, <4>1, <4>2
    <3> HIDE DEF k
    <3>2. vals[k].kind \in Numeros!Kinds /\ Numeros!Writes(vals[k], spec[n].width)
      BY <2>1, <2>3, <3>1 DEF Numeros!RowsAssumption
    <3>3. Numeros!Pieces(vals[k], spec[n].width) \in RowTexts
      BY <3>2 DEF Numeros!Writes, RowTexts, Text
    <3>4. \A x : Numeros!EmitOne(x, vals[k], spec[n].width) = Numeros!Verba!Put(x, Numeros!Pieces(vals[k], spec[n].width))
      BY <3>2 DEF Numeros!EmitOne
    <3> QED BY <2>3, <3>3, <3>4 DEF k
  <2> QED BY <2>2, <2>3
<1> HIDE DEF upto, Row, Step, Means, wrong
<1>4. rows \in Seq(RowTexts) /\ Len(rows) = upto /\ \A n \in 1 .. upto : rows[n] = Row(n)
  BY <1>1, <1>2, <1>3
<1> HIDE DEF rows
<1>5. \A f : Ran(Numeros!Buffer(at), rows, {}, f) <=> Rec(f)
  <2> SUFFICES ASSUME NEW f PROVE Ran(Numeros!Buffer(at), rows, {}, f) <=> Rec(f)
    OBVIOUS
  <2>1. \A n \in 0 .. upto : n = 0 \/ n \in 1 .. upto
    BY <1>1, <1>2
  <2>2. \A n \in 1 .. upto : Numeros!Verba!Put(f[n - 1], rows[n]) = Step(f[n - 1], n)
    BY <1>3, <1>4
  <2>3. [n \in 0 .. upto |-> IF n = 0 THEN Numeros!Buffer(at)
                             ELSE IF n \in {} THEN Numeros!Verba!Over(f[n - 1]) ELSE Numeros!Verba!Put(f[n - 1], rows[n])]
        = [n \in 0 .. upto |-> IF n = 0 THEN Numeros!Buffer(at) ELSE Step(f[n - 1], n)]
    BY <2>1, <2>2
  <2> QED BY <2>3, <1>4 DEF Ran
<1>6. Cap \in Nat /\ at \in Nat /\ at < Cap /\ Numeros!Buffer(at) \in Buffers /\ Grown(Numeros!Buffer(at), out, at, <<>>)
  BY RowFacts, BufferStarts
<1>7. Ran(Numeros!Buffer(at), rows, {}, last)
  <2>1. \E f : Rec(f)
    <3> HIDE DEF Rec
    <3> QED BY <1>4, <1>5, <1>6, RowRuns
  <2>2. Rec(last)
    <3> HIDE DEF Rec
    <3> QED BY <2>1
  <2> HIDE DEF Rec, last
  <2> QED BY <2>2, <1>5
<1> HIDE DEF last
<1>8. text \in Text /\ Grown(last[upto], out, at, text)
  <2>1. {} \subseteq 1 .. Len(rows) /\ text = RowText(rows)
    BY <1>4 DEF RowText
  <2> HIDE DEF at, text
  <2> QED BY <1>4, <1>6, <1>7, <2>1, RowGrows
<1>9. Numeros!Build(at, spec, vals) =
        IF wrong # {} \/ Numeros!Taken(spec, Len(spec)) # Len(vals) THEN Numeros!Abandon(last[upto], at)
        ELSE Numeros!Finish(last[upto], at)
  BY DEF Numeros!Build, wrong, upto, last, Step
<1>10. wrong = {} => Numeros!Meant(spec, vals) = text
  <2>1. SUFFICES ASSUME wrong = {} PROVE Numeros!Meant(spec, vals) = text
    OBVIOUS
  <2>2. upto = Len(spec)
    BY <1>2, <2>1
  <2>3. \A n \in 1 .. upto : Numeros!Concat(rows[n]) = Means(n)
    BY <1>3, <1>4
  <2>4. [n \in 1 .. upto |-> Numeros!Concat(rows[n])] = [n \in 1 .. Len(spec) |-> Means(n)]
    BY <2>2, <2>3
  <2>5. Numeros!Meant(spec, vals) = Numeros!Concat([n \in 1 .. Len(spec) |-> Means(n)])
    BY DEF Numeros!Meant, Means
  <2> QED BY <2>4, <2>5
<1> HIDE DEF text, at
<1>11. CASE wrong # {} \/ Numeros!Taken(spec, Len(spec)) # Len(vals)
  <2>1. Answered(Numeros!Abandon(last[upto], at), out, at, Numeros!Meant(spec, vals))
    BY <1>6, <1>8, AbandonIs
  <2> QED BY <1>9, <1>11, <2>1 DEF at
<1>12. CASE ~(wrong # {} \/ Numeros!Taken(spec, Len(spec)) # Len(vals))
  <2>1. Answered(Numeros!Finish(last[upto], at), out, at, text)
    BY <1>6, <1>8, FinishIs
  <2> QED BY <1>9, <1>10, <1>12, <2>1 DEF at
<1> QED BY <1>11, <1>12

(* The text of a row of values alone.                                       *)
Said(vals) == Numeros!Concat([n \in 1 .. Len(vals) |-> Numeros!Concat(Numeros!Pieces(vals[n], vals[n].width))])

LEMMA EmitAnswers ==
  ASSUME Numeros!RowsAssumption, RowInv, NEW vals \in Values
  PROVE  Answered(Numeros!Emit(Len(told), vals), out, Len(told), Said(vals))
<1> DEFINE at == Len(told)
           N == Len(vals)
           Step(x, n) == Numeros!EmitOne(x, vals[n], vals[n].width)
           Rec(f) == f = [n \in 0 .. N |-> IF n = 0 THEN Numeros!Buffer(at) ELSE Step(f[n - 1], n)]
           last == CHOOSE f : Rec(f)
           bad == {n \in 1 .. N : vals[n].kind \notin Numeros!Kinds}
           Row(n) == IF n \in bad THEN <<>> ELSE Numeros!Pieces(vals[n], vals[n].width)
           rows == [n \in 1 .. N |-> Row(n)]
           text == Numeros!Concat([n \in 1 .. N |-> Numeros!Concat(rows[n])])
<1>1. N \in Nat
  BY DEF Numeros!RowsAssumption, Numeros!IsSequence
<1>2. ASSUME NEW n \in 1 .. N
      PROVE  /\ Row(n) \in RowTexts
             /\ \A x : Step(x, n) = IF n \in bad THEN Numeros!Verba!Over(x) ELSE Numeros!Verba!Put(x, Row(n))
  <2>1. CASE n \in bad
    BY <2>1 DEF Numeros!EmitOne, RowTexts
  <2>2. CASE n \notin bad
    <3>1. vals[n].kind \in Numeros!Kinds
      BY <2>2
    <3>2. Numeros!Pieces(vals[n], vals[n].width) \in RowTexts
      BY <3>1 DEF Numeros!RowsAssumption, Numeros!Writes, RowTexts, Text
    <3> HIDE DEF bad
    <3> QED BY <2>2, <3>1, <3>2 DEF Numeros!EmitOne
  <2> QED BY <2>1, <2>2
<1>3. bad \subseteq 1 .. N /\ (bad = {} => text = Said(vals))
  <2>1. ASSUME bad = {} PROVE [n \in 1 .. N |-> Numeros!Concat(rows[n])] = [n \in 1 .. N |-> Numeros!Concat(Numeros!Pieces(vals[n], vals[n].width))]
    <3> HIDE DEF bad
    <3> QED BY <2>1
  <2> HIDE DEF rows
  <2> QED BY <2>1 DEF Said
<1> HIDE DEF Row, Step, bad
<1>4. rows \in Seq(RowTexts) /\ Len(rows) = N /\ \A n \in 1 .. N : rows[n] = Row(n)
  <2> HIDE DEF N
  <2> QED BY <1>1, <1>2
<1> HIDE DEF rows, N
<1>5. \A f : Ran(Numeros!Buffer(at), rows, bad, f) <=> Rec(f)
  <2> SUFFICES ASSUME NEW f PROVE Ran(Numeros!Buffer(at), rows, bad, f) <=> Rec(f)
    OBVIOUS
  <2>1. \A n \in 0 .. N : n = 0 \/ n \in 1 .. N
    BY <1>1
  <2>2. \A n \in 1 .. N :
          (IF n \in bad THEN Numeros!Verba!Over(f[n - 1]) ELSE Numeros!Verba!Put(f[n - 1], rows[n])) = Step(f[n - 1], n)
    BY <1>2, <1>4
  <2>3. [n \in 0 .. N |-> IF n = 0 THEN Numeros!Buffer(at)
                          ELSE IF n \in bad THEN Numeros!Verba!Over(f[n - 1]) ELSE Numeros!Verba!Put(f[n - 1], rows[n])]
        = [n \in 0 .. N |-> IF n = 0 THEN Numeros!Buffer(at) ELSE Step(f[n - 1], n)]
    BY <2>1, <2>2
  <2> QED BY <2>3, <1>4 DEF Ran
<1>6. Cap \in Nat /\ at \in Nat /\ at < Cap /\ Numeros!Buffer(at) \in Buffers /\ Grown(Numeros!Buffer(at), out, at, <<>>)
  BY RowFacts, BufferStarts
<1>7. Ran(Numeros!Buffer(at), rows, bad, last)
  <2>1. \E f : Rec(f)
    <3> HIDE DEF Rec
    <3> QED BY <1>4, <1>5, <1>6, RowRuns
  <2>2. Rec(last)
    <3> HIDE DEF Rec
    <3> QED BY <2>1
  <2> HIDE DEF Rec, last
  <2> QED BY <2>2, <1>5
<1> HIDE DEF last
<1>8. text \in Text /\ Grown(last[N], out, at, text) /\ (bad # {} => last[N].at = Cap)
  <2>1. text = RowText(rows)
    BY <1>4 DEF RowText
  <2>2. bad \subseteq 1 .. Len(rows) /\ Len(rows) = N
    BY <1>3, <1>4
  <2> HIDE DEF at, text
  <2>3. /\ text \in Text /\ Grown(last[Len(rows)], out, at, text)
        /\ bad # {} => last[Len(rows)].at = Cap
    <3> DEFINE b == Numeros!Buffer(at)
    <3>1. /\ Cap \in Nat /\ at \in Nat /\ Grown(b, out, at, <<>>) /\ rows \in Seq(RowTexts)
          /\ bad \subseteq 1 .. Len(rows) /\ Ran(b, rows, bad, last)
      BY <1>4, <1>6, <1>7, <2>2
    <3> HIDE DEF b
    <3>2. /\ RowText(rows) \in Text /\ Grown(last[Len(rows)], out, at, RowText(rows))
          /\ bad # {} => last[Len(rows)].at = Cap
      BY ONLY <3>1, RowGrows
    <3> QED BY <3>2, <2>1
  <2> QED BY <2>2, <2>3
<1>9. Numeros!Emit(at, vals) = Numeros!Finish(last[N], at)
  BY DEF Numeros!Emit, last, Step, N
<1> HIDE DEF text, at
<1> DEFINE r == Numeros!Finish(last[N], at)
<1>10. Answered(r, out, at, text) /\ (r.count # 0 => last[N].at < Cap)
  BY <1>6, <1>8, FinishIs
<1>11. r.count # 0 => text = Said(vals)
  BY <1>3, <1>6, <1>8, <1>10
<1> HIDE DEF r
<1>12. Answered(r, out, at, Said(vals))
  BY <1>10, <1>11 DEF Answered
<1> QED BY <1>9, <1>12 DEF r, at

-----------------------------------------------------------------------------
(* Every call keeps it.                                                     *)

LEMMA RowInit == ASSUME Numeros!RowsAssumption, Numeros!Init PROVE RowInv
<1>1. Cap \in Nat /\ Cap > 0
  BY DEF Numeros!RowsAssumption
<1>2. /\ out \in [0 .. Cap -> Nat] /\ out[Cap] = 255 /\ out[0] = 0 /\ told = <<>> /\ cursor = 0
  BY <1>1 DEF Numeros!Init
<1> QED BY <1>1, <1>2 DEF RowInv, Text

LEMMA RowStep == ASSUME Numeros!RowsAssumption, RowInv, [Numeros!Next]_Numeros!vars PROVE RowInv'
<1>1. CASE UNCHANGED Numeros!vars
  BY <1>1 DEF RowInv, Numeros!vars
<1>2. ASSUME NEW vals \in Values, NEW at \in {0, cursor}, Numeros!EmitAppend(vals, at) PROVE RowInv'
  <2> DEFINE r == Numeros!Emit(Len(told), vals)
  <2>1. Numeros!Used(at) = Len(told)
    BY UsedIs, SameUsed
  <2>2. Answered(r, out, Len(told), Said(vals))
    BY EmitAnswers
  <2>3. Numeros!Done(Len(told), r, IF r.count = 0 THEN <<>> ELSE Said(vals))
    BY <1>2, <2>1 DEF Numeros!EmitAppend, Said
  <2> HIDE DEF r
  <2> QED BY <2>2, <2>3, DoneIs
<1>3. ASSUME NEW vals \in Values, NEW at \in {0, cursor}, NEW spec \in Fields, Numeros!BuildAppend(spec, vals, at)
      PROVE  RowInv'
  <2> DEFINE r == Numeros!Build(Len(told), spec, vals)
  <2>1. Numeros!Used(at) = Len(told)
    BY UsedIs, SameUsed
  <2>2. Answered(r, out, Len(told), Numeros!Meant(spec, vals))
    BY BuildAnswers
  <2>3. Numeros!Done(Len(told), r, IF r.count = 0 THEN <<>> ELSE Numeros!Meant(spec, vals))
    BY <1>3, <2>1 DEF Numeros!BuildAppend
  <2> HIDE DEF r
  <2> QED BY <2>2, <2>3, DoneIs
<1> QED BY <1>1, <1>2, <1>3 DEF Numeros!Next

LEMMA RowInvWhole == ASSUME Numeros!RowsAssumption, RowInv PROVE AppendsWhole
<1> DEFINE n == Len(told)
<1>1. n \in Nat /\ n < Cap /\ \A k \in 1 .. n : out[k - 1] = told[k]
  BY RowFacts DEF RowInv
<1>2. Used(0) = n
  BY UsedIs
<1>3. told = [k \in 1 .. n |-> told[k]]
  BY DEF RowInv, Text
<1>4. [k \in 1 .. n |-> out[k - 1]] = told
  BY <1>1, <1>3
<1>5. out[Cap] = 255 /\ (cursor # 0 => cursor = n)
  BY DEF RowInv
<1> QED BY <1>1, <1>2, <1>4, <1>5 DEF AppendsWhole

(* numeros_scribo.c: for every capacity and all rows and lists of fields that*)
(* write no terminator, and any run of calls that go on from a cursor or     *)
(* measure the string, the buffer holds the whole text of every call that    *)
(* reported one and nothing of a call that did not match or did not fit,     *)
(* and the byte past the buffer is never written.                            *)
THEOREM AppendsWholeHolds == ASSUME Numeros!RowsAssumption PROVE Numeros!Spec => []AppendsWhole
<1>1. Numeros!Init => RowInv
  BY RowInit
<1>2. RowInv /\ [Numeros!Next]_Numeros!vars => RowInv'
  BY RowStep
<1>3. RowInv => AppendsWhole
  BY RowInvWhole
<1> QED BY <1>1, <1>2, <1>3, PTL DEF Numeros!Spec
=============================================================================
