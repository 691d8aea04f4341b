----------------------------- MODULE MemoriaOperor -----------------------------
(***************************************************************************)
(* memoria_operor and proximus_operor: regions of one memory copied,       *)
(* filled and compared in whole words with a tail of bytes.  A copy is the *)
(* sequence of its pieces, <<offset, bytes>>, each loaded whole before it  *)
(* is stored: the order of the pieces is what an overlap depends on.       *)
(***************************************************************************)
EXTENDS Integers, SequencesExt

CONSTANT WordBytes   \* sizeof(embed_word), which is MMGR_SWAR_BYTES

WordBytesAssumption == WordBytes \in {2, 4, 8}

Singles(from, to) == [k \in 1 .. to - from |-> <<from + k - 1, 1>>]

WholeWords(from, count) == [k \in 1 .. count |-> <<from + (k - 1) * WordBytes, WordBytes>>]

\* Every piece in turn, loaded from the memory as the pieces before it left it.
Copied(mem, dst, src, pieces) ==
  LET After[n \in 0 .. Len(pieces)] ==
        IF n = 0 THEN mem
        ELSE LET was == After[n - 1]
                 off == pieces[n][1]
                 to == dst + off .. dst + off + pieces[n][2] - 1
             IN  [k \in DOMAIN mem |-> IF k \in to THEN was[k - dst + src] ELSE was[k]]
  IN  After[Len(pieces)]

\* cpy, and move_down by the same walk: words upward, then the tail.
Cpy(mem, dst, src, bytes) ==
  LET words == bytes \div WordBytes
  IN  Copied(mem, dst, src, WholeWords(0, words) \o Singles(words * WordBytes, bytes))

\* Mutant: an upward move copies from the start.
MoveUpForward(mem, dst, src, bytes) == Cpy(mem, dst, src, bytes)

\* The tail first, then four words at a time and single words, all downward.
MoveUp(mem, dst, src, bytes) ==
  LET words == bytes \div WordBytes
      fours == words \div 4
      left == words - 4 * fours
  IN  Copied(mem, dst, src,
        Reverse([k \in 1 .. fours |-> <<(left + 4 * (k - 1)) * WordBytes, 4 * WordBytes>>]
                  \o Singles(words * WordBytes, bytes))
        \o Reverse(WholeWords(0, left)))

\* proxim.read: bytes up to the destination's boundary, aligned words, and the rest.
Read(mem, dst, src, bytes) ==
  LET skew == (WordBytes - (dst % WordBytes)) % WordBytes
      head == IF skew < bytes THEN skew ELSE bytes
      words == (bytes - head) \div WordBytes
  IN  Copied(mem, dst, src,
        Singles(0, head) \o WholeWords(head, words) \o Singles(head + words * WordBytes, bytes))

Set(mem, dst, val, bytes) == [k \in DOMAIN mem |-> IF k \in dst .. dst + bytes - 1 THEN val ELSE mem[k]]
-----------------------------------------------------------------------------
(* The scans: words of the extent, and a last word masked to what is left  *)
(* of it.  The verdict of a word is its earliest lane.                     *)

FullWords(from, bytes) == {<<from + w * WordBytes, WordBytes>> : w \in 0 .. (bytes - from) \div WordBytes - 1}

Rest(from, bytes) ==
  LET full == from + ((bytes - from) \div WordBytes) * WordBytes
  IN  IF full = bytes THEN {} ELSE {<<full, bytes - full>>}

Hit(chunks, Holds(_)) ==
  LET Held(c) == {k \in c[1] .. c[1] + c[2] - 1 : Holds(k)}
      some == {c \in chunks : Held(c) # {}}
  IN  IF some = {} THEN {}
      ELSE {Min(Held(CHOOSE c \in some : \A d \in some : c[1] <= d[1]))}

Cmp(mem, src, other, bytes) ==
  LET Differ(k) == mem[src + k] # mem[other + k]
      first == Hit(FullWords(0, bytes) \cup Rest(0, bytes), Differ)
  IN  IF first = {} THEN 0 ELSE mem[src + Min(first)] - mem[other + Min(first)]

Chr(mem, src, val, bytes) ==
  LET past == src % WordBytes
      to == IF past = 0 THEN 0 ELSE WordBytes - past
      lead == IF to > bytes THEN bytes ELSE to
      Sought(k) == mem[src + k] = val
      found == Hit({<<k, 1>> : k \in 0 .. lead - 1} \cup FullWords(lead, bytes) \cup Rest(lead, bytes),
                   Sought)
  IN  IF found = {} THEN -1 ELSE src + Min(found)
-----------------------------------------------------------------------------
(* What the entries are for. *)

MoveWanted(mem, dst, src, bytes) ==
  [k \in DOMAIN mem |-> IF k \in dst .. dst + bytes - 1 THEN mem[k - dst + src] ELSE mem[k]]

Apart(dst, src, bytes) == dst + bytes <= src \/ src + bytes <= dst

CmpWanted(mem, src, other, bytes, got) ==
  LET agree == Max({n \in 0 .. bytes : \A k \in 0 .. n - 1 : mem[src + k] = mem[other + k]})
  IN  got = IF agree = bytes THEN 0 ELSE mem[src + agree] - mem[other + agree]

ChrWanted(mem, src, val, bytes) ==
  LET found == {k \in src .. src + bytes - 1 : mem[k] = val}
  IN  IF found = {} THEN -1 ELSE Min(found)
=============================================================================
