------------------------------- MODULE VerbaLinea -------------------------------
(***************************************************************************)
(* verba_linea: a line written into a buffer and handed to a flush as it   *)
(* fills.  An entry that writes is a job: it puts a piece the size of the  *)
(* room left, hands the line on, and goes on from there, until its text is *)
(* out or the line is full.  The flush is the caller's and may refuse at   *)
(* any call.                                                               *)
(***************************************************************************)
EXTENDS LineaStatus

CONSTANTS
  Capacities,   \* the capacities a line is made over
  LineaSpaces,  \* LINEA_SPACES, the most spaces put at once
  LeastMost,    \* LINEA_LEAST_MOST, the most digits a number is padded to
  LineaDigits,  \* LINEA_DIGITS, the buffer a number is written into first
  MaxAsked      \* bounds the bytes asked of one line

LineaAssumption ==
  /\ Capacities \subseteq Nat /\ LineaSpaces \in Nat \ {0}
  /\ LeastMost \in Nat /\ LineaDigits \in Nat /\ LeastMost < LineaDigits

\* What the digits of a number are worked out with.
PowersAssumption ==
  /\ 2^0 = 1 /\ 10^0 = 1 /\ \A i \in 0 .. 29 : 2^(i + 1) = 2 * 2^i
  /\ \A k \in 0 .. LeastMost : 16^k \in Nat \ {0} /\ 100^k \in Nat \ {0}

vars == <<line, job, device, said, lost, touched>>

Verba == INSTANCE VerbaScribo WITH
  NarrowMost <- 255, CutDigits <- 2, WordBits <- 8, MantBits <- 2, Bias <- 13, ExpAll <- 31,
  MaxSig <- 3, FixedSig <- 3, MaxDecimals <- 2

Terminated(l) ==
  IF l.cap = 0 THEN l ELSE [l EXCEPT !.out[IF Full(l) THEN l.cap - 1 ELSE l.at] = 0]

\* Mutant: the line is filled and left as it was.
FilledBare(l) == [l EXCEPT !.at = l.cap]

Filled(l) == Terminated([l EXCEPT !.at = l.cap])

LineOver(capacity, hands) ==
  [out |-> [k \in 0 .. capacity - 1 |-> 255], cap |-> capacity, at |-> 0, flushed |-> 0, hands |-> hands]

Init ==
  /\ \E c \in Capacities, h \in BOOLEAN : line = LineOver(c, h)
  /\ job = Idle /\ device = <<>> /\ said = <<>> /\ lost = FALSE /\ touched = FALSE

Bytes(l) == [k \in 1 .. l.at |-> l.out[k - 1]]

\* Where the bytes went, the line is empty again; where they did not, it is full.
HandedOn(l, takes) ==
  IF takes THEN Terminated([l EXCEPT !.flushed = @ + l.at, !.at = 0]) ELSE Filled(l)

Hand(l, takes) ==
  /\ line' = HandedOn(l, takes)
  /\ device' = IF takes THEN device \o Bytes(l) ELSE device

FlushCall(takes) ==
  /\ job = Idle /\ line.hands /\ ~Full(line)
  /\ Hand(line, takes)
  /\ UNCHANGED <<job, said, lost, touched>>
-----------------------------------------------------------------------------
(* The entries. *)

Begin(doing, text, columns) ==
  /\ job = Idle
  /\ Len(said) + Max({Len(text), columns}) <= MaxAsked
  /\ job' = [doing |-> doing, text |-> text, done |-> 0, columns |-> columns, pad |-> 0]
  /\ UNCHANGED <<line, device, said, lost, touched>>

Put(text) == Begin("text", text, 0)

PutColumns(text, columns) == Begin("text", text, columns)

\* At most most bytes of the text, measured before any is written.
PutMost(text, most) == Begin("bytes", SubSeq(text, 1, Min({Len(text), most})), 0)

Ch(character) == Begin("bytes", <<character>>, 0)

Digits == [out |-> [k \in 0 .. LineaDigits - 1 |-> 255], cap |-> LineaDigits, at |-> 0]

Least(count) == IF count < LeastMost THEN count ELSE LeastMost

Number(digits) == Begin("bytes", Bytes(digits), 0)

Decimal(value, least) == Number(Verba!Put(Digits, Verba!Uint(value, 10, Least(least))))
Hex(value, least) == Number(Verba!Put(Digits, Verba!Uint(value, 16, Least(least))))
DecimalSigned(value) == Number(Verba!Put(Digits, Verba!I64(value)))
DecimalColumns(value, columns) == Number(Verba!U64Clip(Digits, value, Least(columns)))
-----------------------------------------------------------------------------
(* A piece of a job. *)

Left == SubSeq(job.text, job.done + 1, Len(job.text))

Room(l) == IF Full(l) THEN 0 ELSE l.cap - l.at - 1

\* An entry ends with the bytes it took.  Columns are filled with spaces, a run at a time.
Ended(done) ==
  LET pad == IF job.doing = "bytes" THEN job.pad
             ELSE IF done < job.columns THEN job.columns - done ELSE 0
      run == Min({pad, LineaSpaces})
  IN  /\ said' = said \o SubSeq(job.text, 1, done)
      /\ lost' = (lost \/ done < Len(job.text))
      /\ touched' = (touched \/ ~Full(line))
      /\ job' = IF pad = 0 THEN Idle
                ELSE [doing |-> "bytes", text |-> [k \in 1 .. run |-> 32], done |-> 0,
                      columns |-> 0, pad |-> pad - run]

\* The line with the first bytes of what is left.
Piece(size) == Verba!PutN(line, SubSeq(Left, 1, size))

\* A line of fewer than two bytes is filled by any byte.
Small == line.cap < 2 /\ Left # <<>>

PieceFits ==
  /\ job # Idle /\ ~Small /\ Len(Left) <= Room(line)
  /\ line' = IF job.doing = "text" /\ Full(line) THEN line ELSE Terminated(Piece(Len(Left)))
  /\ Ended(Len(job.text))
  /\ UNCHANGED device

PieceRefused ==
  /\ job # Idle /\ Small
  /\ line' = IF job.doing = "text" /\ Full(line) THEN line ELSE Filled(line)
  /\ Ended(job.done)
  /\ UNCHANGED device

\* Without a flush what fits is written and the line is full.
PieceFills ==
  /\ job # Idle /\ ~Small /\ ~line.hands /\ Len(Left) > Room(line)
  /\ line' = IF job.doing = "text" /\ Full(line) THEN line ELSE Filled(Piece(Room(line)))
  /\ Ended(job.done + Room(line))
  /\ UNCHANGED device

\* With one the line is handed on, and the entry goes on only if it was taken.
PieceHanded(takes) ==
  /\ job # Idle /\ ~Small /\ line.hands /\ ~Full(line) /\ Len(Left) > Room(line)
  /\ Hand(Piece(Room(line)), takes)
  /\ IF takes THEN /\ job' = [job EXCEPT !.done = @ + Room(line)]
                   /\ UNCHANGED <<said, lost, touched>>
     ELSE Ended(job.done + Room(line))

\* A line already full takes nothing.
PieceStuck ==
  /\ job # Idle /\ ~Small /\ line.hands /\ Full(line) /\ Left # <<>>
  /\ Ended(job.done)
  /\ UNCHANGED <<line, device>>

Finish ==
  /\ job = Idle
  /\ line' = Verba!Finish(line).b
  /\ touched' = (touched \/ ~Full(line))
  /\ UNCHANGED <<job, device, said, lost>>

Texts == {[k \in 1 .. n |-> 97 + ((Len(said) + k) % 26)] : n \in {0, 2, 4}}

Call ==
  \/ \E text \in Texts : Put(text) \/ PutColumns(text, 3) \/ PutMost(text, 1)
  \/ Ch(33)
  \/ Decimal(7, 9) \/ Hex(12, 1) \/ DecimalSigned(-7) \/ DecimalColumns(7, 2)

Next ==
  \/ Call \/ Finish
  \/ PieceFits \/ PieceRefused \/ PieceFills \/ PieceStuck
  \/ \E takes \in BOOLEAN : FlushCall(takes) \/ PieceHanded(takes)

Spec == Init /\ [][Next]_vars
=============================================================================
