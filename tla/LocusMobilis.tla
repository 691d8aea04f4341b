----------------------------- MODULE LocusMobilis -----------------------------
(***************************************************************************)
(* The movable option of a cellblock: persistent cells reached through a   *)
(* table of slots, so that a mover may carry a cell down into a free run   *)
(* below it while its holder keeps the slot.                               *)
(*                                                                         *)
(* Claiming a slot is lock-free and outside any pass; a release, a read, a *)
(* write, a compare and a measure are passes; a spill, a trim and a move   *)
(* are writers.  A take from the gap, a give and a sweep of the tier are   *)
(* one step each here: LocusCarcerum models their atomic operations and    *)
(* shows that they act as one (ImplementsStore, Exclusive).  A pass is in  *)
(* inside from its permit to its leave, and a writer that took the closed  *)
(* bit waits for inside to empty.                                          *)
(***************************************************************************)
EXTENDS CarcerWord, FiniteSets, FiniteSetsExt

CONSTANTS
  Threads,      \* the threads that take movable cells, each its own owner
  Movers,       \* those of them that call the mover
  Users,        \* those of them that read, write and compare their cells
  HeldMost,     \* bound: the cells each thread holds at a time
  SlotCount,    \* CarcerMovableInitCfg.cells
  ClaimBits,    \* MMGR_MOVABLE_CLAIM_BITS
  Requests,     \* byte counts asked of a take
  UseWrap,      \* one past the most in_use counts to; 1 where a run counts nothing
  Wipes,        \* whether a cell left behind is zeroed
  NoOwner       \* the place 0 of an owner word

ASSUME MobilisAssumption ==
  /\ IsFiniteSet(Threads) /\ Movers \subseteq Threads /\ Users \subseteq Threads
  /\ NoOwner \notin Threads
  /\ SlotCount \in Nat \ {0} /\ ClaimBits \in Nat \ {0}
  /\ Requests \subseteq Nat /\ HeldMost \in [Threads -> Nat]
  /\ UseWrap \in Nat \ {0} /\ Wipes \in BOOLEAN
  /\ Hdr = 2 * (Hdr \div 2)        \* CARCER_HDR is two words
  /\ BytesMost + NeedMost < Half   \* LocusCarcerum's headroom, for one lane

VARIABLES
  bounds,    \* the word of the two boundaries
  closed,    \* bit 0 of the closed word
  inside,    \* the threads whose pass was permitted
  cell,      \* the cells laid, by the offset of their header
  byte,      \* what each byte of the cellblock holds: a slot's content, or 0
  inUse,     \* series->in_use
  slot,      \* CarcerMovableSlot.word, 0 for a slot that names no cell
  claimed,   \* the bits set in the claim words
  lowest,    \* the claim word a search starts at
  named,     \* one past the highest slot named
  pc,        \* where each thread stands
  op,        \* the call each thread is in
  held,      \* the slots each thread was answered and has not released
  asked,     \* history: the bytes its holder asked of each slot's cell
  wrote,     \* history: the slots whose holder wrote their cell
  still      \* history: no slot named and no cell given back since a move began

table == <<slot, claimed, lowest, named>>
block == <<bounds, cell, inUse>>
history == <<asked, wrote, still>>
vars == <<block, closed, inside, byte, table, pc, op, held, history>>

Slots == 1 .. SlotCount
Words == 0 .. ((SlotCount + ClaimBits - 1) \div ClaimBits) - 1
Bits == 1 .. Cardinality(Words) * ClaimBits
Spare == Bits \ Slots

(* The claim word a bit is of; slots are numbered from 1 here. *)
WordOf(bit) == (bit - 1) \div ClaimBits

(* The sweep, the split and the words laid are LocusCarcerum's own. *)
Block == INSTANCE LocusCarcerum WITH
  Contexts <- Threads, TempContexts <- {}, Lanes <- 1,
  Owners <- Threads, Strangers <- {}, Growths <- {}, Rewinds <- FALSE,
  over <- [end |-> 0, top |-> 0], lane <- inside, waits <- inside, seen <- {},
  persistentInUse <- inUse, ownerInUse <- [t \in Threads |-> inUse],
  chain <- bounds

Steps == {"idle", "shut", "drain", "search", "bit", "or", "put", "low", "raise", "back",
          "copy", "clear", "unclaim", "lower", "trim", "seek", "move"}

NoOp == [kind |-> "none", want |-> 0, off |-> 0, slot |-> 0, from |-> 0, word |-> 0,
         lost |-> 0, at |-> [s \in {} |-> 0], edge |-> FALSE,
         below |-> 0, refused |-> 0]

Init ==
  /\ bounds = carcer_bounds(0, Size)
  /\ closed = FALSE /\ inside = {}
  /\ cell = [o \in {} |-> 0]
  /\ byte = [o \in 0 .. Size - 1 |-> 0]
  /\ inUse = 0
  /\ slot = [s \in Slots |-> 0]
  /\ claimed = Spare
  /\ lowest = 0 /\ named = 0
  /\ pc = [t \in Threads |-> "idle"]
  /\ op = [t \in Threads |-> NoOp]
  /\ held = [t \in Threads |-> {}]
  /\ asked = [s \in Slots |-> 0]
  /\ wrote = {}
  /\ still = FALSE
-----------------------------------------------------------------------------
(* The bytes from a payload's first, and the slots whose cell they are.     *)
CarcerHead == Hdr \div 2

Span(payload, size) == payload .. payload + size - 1

Free == {o \in DOMAIN cell : ~cell[o].busy}

CellOf(s) == slot[s] - CarcerHead

Goto(t, from, to) ==
  /\ pc[t] = from
  /\ pc' = [pc EXCEPT ![t] = to]

Call(t, step, call) ==
  /\ Goto(t, "idle", step)
  /\ op' = [op EXCEPT ![t] = call]

Return(t, from) ==
  /\ Goto(t, from, "idle")
  /\ op' = [op EXCEPT ![t] = NoOp]

(* A take's cell, laid and counted; its holder has yet to name it. *)
Laid(t, cells, off, size) ==
  /\ cell' = Block!LaidAt(cells, off, Block!BusyCell(size, t))
  /\ inUse' = (inUse + size) % UseWrap
  /\ op' = [op EXCEPT ![t].off = off]

-----------------------------------------------------------------------------
(* mmgr_movable_buf_alloc: the take, out of the gap or on the writer's path. *)

Alloc(t) ==
  \E request \in Requests :
    LET want == carcer_want(request)
    IN  /\ pc[t] = "idle"
        /\ ~closed
        /\ Cardinality(held[t]) < HeldMost[t]
        /\ IF want <= WantMost /\ FitsUp(bounds, Hdr + want)
           THEN /\ pc' = [pc EXCEPT ![t] = "search"]
                /\ bounds' = BumpedUp(bounds, Hdr + want)
                /\ cell' = Block!LaidAt(cell, bounds.end, Block!BusyCell(want, t))
                /\ inUse' = (inUse + want) % UseWrap
                /\ op' = [op EXCEPT ![t] = [NoOp EXCEPT !.kind = "take", !.want = want,
                                                        !.off = bounds.end]]
           ELSE /\ Call(t, "shut", [NoOp EXCEPT !.kind = "take", !.want = want])
                /\ UNCHANGED block
        /\ UNCHANGED <<closed, inside, byte, table, held, history>>

(* The closed bit taken, by a writer or by a trim that found it clear. *)
Shut(t) ==
  /\ ~closed
  /\ pc[t] \in {"shut", "trim"}
  /\ pc' = [pc EXCEPT ![t] = "drain"]
  /\ closed' = TRUE
  /\ UNCHANGED <<block, inside, byte, table, op, held, history>>

(* Mutant of Drained: a copy under way is not waited for. *)
DrainedCopying(t, kind) ==
  /\ pc[t] = "drain" /\ op[t].kind = kind
  /\ \A u \in inside : pc[u] = "copy"

(* A writer works once every pass that was badged in has left. *)
Drained(t, kind) ==
  /\ pc[t] = "drain" /\ op[t].kind = kind
  /\ inside = {}

(* Mutant of GapHolds: the gap left by the trim not read. *)
GapUnread(end, need) == TRUE

GapHolds(end, need) == end + need <= bounds.top

(* carcer_spilled: the first free run that holds the take, or the end       *)
(* trimmed and the gap read exactly, or neither.                            *)
SpillRun(t) ==
  LET want == op[t].want
      run == Block!FirstRun(Free, want)
  IN  /\ Drained(t, "take")
      /\ Block!Holding(Free, want) # {}
      /\ pc' = [pc EXCEPT ![t] = "search"]
      /\ closed' = FALSE
      /\ bounds' = carcer_bounds(Block!SweptEnd(Free), bounds.top)
      /\ Laid(t, Block!SplitCells(Block!SweptCells(Free), run, want), run.at,
              Block!SplitSize(run, want))
      /\ UNCHANGED <<inside, byte, table, held, history>>

SpillGap(t) ==
  LET end == Block!SweptEnd(Free)
      need == Hdr + op[t].want
  IN  /\ Drained(t, "take")
      /\ Block!Holding(Free, op[t].want) = {}
      /\ closed' = FALSE
      /\ IF GapHolds(end, need)
         THEN /\ Goto(t, "drain", "search")
              /\ bounds' = carcer_bounds(end + need, bounds.top)
              /\ Laid(t, Block!SweptCells(Free), end, op[t].want)
         ELSE /\ Return(t, "drain")
              /\ bounds' = carcer_bounds(end, bounds.top)
              /\ cell' = Block!SweptCells(Free)
              /\ UNCHANGED inUse
      /\ UNCHANGED <<inside, byte, table, held, history>>

-----------------------------------------------------------------------------
(* carcer_slot_claimed: the word nearest the start with a free bit, its     *)
(* lowest free bit read again, and one fetch-or that wins or loses it.      *)

FreeBits(word) == {b \in Bits \ claimed : WordOf(b) = word}

(* How many words past from a word is reached, the search wrapping. *)
Reached(from, word) == (word - from) % Cardinality(Words)

Search(t) ==
  /\ Goto(t, "search", "bit")
  /\ LET open == {w \in Words : FreeBits(w) # {}}
         place == IF open = {} THEN 0
                  ELSE CHOOSE w \in open :
                         \A v \in open : Reached(lowest, w) <= Reached(lowest, v)
     IN  op' = [op EXCEPT ![t].from = lowest, ![t].word = place]
  /\ UNCHANGED <<block, closed, inside, byte, table, held, history>>

(* The free bit read; 0 where the word filled since the search. *)
LowestBit(t) ==
  /\ Goto(t, "bit", "or")
  /\ LET open == FreeBits(op[t].word)
     IN  op' = [op EXCEPT ![t].slot = IF open = {} THEN 0 ELSE Min(open)]
  /\ UNCHANGED <<block, closed, inside, byte, table, held, history>>

(* Mutant of FetchOr: the old bit not read. *)
FetchOrUnread(t) ==
  /\ pc[t] = "or"
  /\ claimed' = claimed \cup ({op[t].slot} \ {0})
  /\ IF op[t].slot # 0
     THEN Goto(t, "or", "put") /\ UNCHANGED op
     ELSE Goto(t, "or", "low") /\ op' = [op EXCEPT ![t].slot = 0, ![t].lost = @ + 1]
  /\ UNCHANGED <<block, closed, inside, byte, slot, lowest, named, held, history>>

FetchOr(t) ==
  /\ pc[t] = "or"
  /\ claimed' = claimed \cup ({op[t].slot} \ {0})
  /\ IF op[t].slot \notin claimed \cup {0}
     THEN Goto(t, "or", "put") /\ UNCHANGED op
     ELSE Goto(t, "or", "low") /\ op' = [op EXCEPT ![t].slot = 0, ![t].lost = @ + 1]
  /\ UNCHANGED <<block, closed, inside, byte, slot, lowest, named, held, history>>

(* The slot won names the cell. *)
Put(t) ==
  /\ Goto(t, "put", "low")
  /\ slot' = [slot EXCEPT ![op[t].slot] = op[t].off + CarcerHead]
  /\ asked' = [asked EXCEPT ![op[t].slot] = op[t].want]
  /\ still' = FALSE
  /\ UNCHANGED <<block, closed, inside, byte, claimed, lowest, named, op, held, wrote>>

(* The start stored back, the word claimed or the start the search read. *)
StoreLow(t) ==
  /\ lowest' = IF op[t].slot # 0 THEN op[t].word ELSE op[t].from
  /\ Goto(t, "low", CASE op[t].slot # 0 -> "raise"
                      [] op[t].slot = 0 /\ op[t].lost < 2 -> "search"
                      [] OTHER -> "back")
  /\ op' = [op EXCEPT ![t].from = 0, ![t].word = 0]
  /\ UNCHANGED <<block, closed, inside, byte, slot, claimed, named, held, history>>

(* named raised, and the slot answered. *)
Raise(t) ==
  /\ Return(t, "raise")
  /\ named' = IF op[t].slot > named THEN op[t].slot ELSE named
  /\ held' = [held EXCEPT ![t] = @ \cup {op[t].slot}]
  /\ still' = FALSE
  /\ UNCHANGED <<block, closed, inside, byte, slot, claimed, lowest, asked, wrote>>

-----------------------------------------------------------------------------
(* carcer_given of a cell of the persistent tier. *)

Standing(off) == Block!EndOf(off) = bounds.end

Given(off) ==
  /\ cell' = [cell EXCEPT ![off].busy = FALSE]
  /\ inUse' = (inUse - cell[off].size) % UseWrap
  /\ byte' = [o \in DOMAIN byte |->
                IF Wipes /\ o \in Span(off + CarcerHead, cell[off].size) THEN 0 ELSE byte[o]]

(* A take whose two claims were lost gives its cell back, outside any pass, *)
(* and answers NULL.                                                        *)
GiveBack(t) ==
  /\ pc[t] = "back"
  /\ Given(op[t].off)
  /\ IF Standing(op[t].off)
     THEN Goto(t, "back", "trim") /\ op' = [op EXCEPT ![t] = [NoOp EXCEPT !.kind = "trim"]]
     ELSE Return(t, "back")
  /\ still' = FALSE
  /\ UNCHANGED <<bounds, closed, inside, table, held, asked, wrote>>

-----------------------------------------------------------------------------
(* The passes.  A pass badges in, reads the closed bit clear and the slots'  *)
(* words (carcer_span_read), and copies out or in at the addresses it read; *)
(* one that finds the bit set touches nothing and tries again.              *)
Badged(t) ==
  /\ ~closed
  /\ inside' = inside \cup {t}

Pass(t, kind, spans) ==
  /\ Call(t, "copy", [NoOp EXCEPT !.kind = kind, !.at = [s \in spans |-> slot[s]]])
  /\ Badged(t)
  /\ UNCHANGED <<block, closed, byte, table, held, history>>

(* mmgr_movable_buf_read, _measure and _compare, of every cell held: a pass *)
(* that reads fewer slots stands at fewer addresses.                        *)
Read(t) == t \in Users /\ held[t] # {} /\ Pass(t, "read", held[t])

Write(t) == t \in Users /\ \E s \in held[t] : Pass(t, "write", {s})

(* The copy and the leave. *)
Copied(t) ==
  /\ Return(t, "copy")
  /\ inside' = inside \ {t}
  /\ IF op[t].kind = "write"
     THEN /\ byte' = [o \in DOMAIN byte |->
                        IF \E s \in DOMAIN op[t].at : o \in Span(op[t].at[s], asked[s])
                        THEN CHOOSE s \in DOMAIN op[t].at : TRUE ELSE byte[o]]
          /\ wrote' = wrote \cup DOMAIN op[t].at
     ELSE UNCHANGED <<byte, wrote>>
  /\ UNCHANGED <<block, closed, table, held, asked, still>>

(* carcer_slot_given, in its pass: the cell given back and the search's     *)
(* start read, then the slot cleared, the bit cleared, the start lowered.   *)
Release(t) ==
  \E s \in held[t] :
    /\ Call(t, "clear", [NoOp EXCEPT !.kind = "release", !.slot = s, !.from = lowest,
                                     !.edge = Standing(CellOf(s))])
    /\ Badged(t)
    /\ Given(CellOf(s))
    /\ held' = [held EXCEPT ![t] = @ \ {s}]
    /\ wrote' = wrote \ {s}
    /\ asked' = [asked EXCEPT ![s] = 0]
    /\ UNCHANGED <<bounds, closed, table, still>>

(* Mutant of SlotCleared: the word left naming the cell given back. *)
SlotLeft(t) ==
  /\ Goto(t, "clear", "unclaim")
  /\ UNCHANGED <<block, closed, inside, byte, table, op, held, history>>

SlotCleared(t) ==
  /\ Goto(t, "clear", "unclaim")
  /\ slot' = [slot EXCEPT ![op[t].slot] = 0]
  /\ UNCHANGED <<block, closed, inside, byte, claimed, lowest, named, op, held, history>>

BitCleared(t) ==
  /\ Goto(t, "unclaim", "lower")
  /\ claimed' = claimed \ {op[t].slot}
  /\ UNCHANGED <<block, closed, inside, byte, slot, lowest, named, op, held, history>>

Lowered(t) ==
  /\ lowest' = IF WordOf(op[t].slot) < op[t].from THEN WordOf(op[t].slot) ELSE op[t].from
  /\ inside' = inside \ {t}
  /\ IF op[t].edge
     THEN Goto(t, "lower", "trim") /\ op' = [op EXCEPT ![t] = [NoOp EXCEPT !.kind = "trim"]]
     ELSE Return(t, "lower")
  /\ UNCHANGED <<block, closed, byte, slot, claimed, named, held, history>>

(* carcer_trimmed: skipped where another writer holds the closed bit. *)
TrimSkipped(t) ==
  /\ closed
  /\ Return(t, "trim")
  /\ UNCHANGED <<block, closed, inside, byte, table, held, history>>

Trimmed(t) ==
  /\ Drained(t, "trim")
  /\ Return(t, "drain")
  /\ closed' = FALSE
  /\ bounds' = carcer_bounds(Block!SweptEnd(Free), bounds.top)
  /\ cell' = Block!SweptCells(Free)
  /\ UNCHANGED <<inside, byte, inUse, table, held, history>>

-----------------------------------------------------------------------------
(* mmgr_movable_buf_move: one cell, the highest that a run below it holds.  *)

Move(t) ==
  /\ t \in Movers
  /\ Call(t, "shut", [NoOp EXCEPT !.kind = "move", !.below = Size, !.refused = Size])
  /\ UNCHANGED <<block, closed, inside, byte, table, held, history>>

MoveBegin(t) ==
  /\ Drained(t, "move")
  /\ Goto(t, "drain", "seek")
  /\ still' = TRUE
  /\ UNCHANGED <<block, closed, inside, byte, table, op, held, asked, wrote>>

(* Mutant of Movable: a cell one grain smaller passed over. *)
MovableSmaller(below, refused) ==
  {s \in 1 .. named : /\ slot[s] # 0
                      /\ slot[s] < below
                      /\ cell[CellOf(s)].size + Align < refused}

(* carcer_slot_highest: the slots whose cell may move next. *)
Movable(below, refused) ==
  {s \in 1 .. named : /\ slot[s] # 0
                      /\ slot[s] < below
                      /\ cell[CellOf(s)].size < refused}

(* The highest picked, or none and the cellblock opened. *)
Seek(t) ==
  LET movable == Movable(op[t].below, op[t].refused)
  IN  /\ pc[t] = "seek"
      /\ IF movable = {}
         THEN Return(t, "seek") /\ closed' = FALSE
         ELSE /\ Goto(t, "seek", "move")
              /\ op' = [op EXCEPT ![t].slot =
                          CHOOSE s \in movable : \A r \in movable : slot[r] <= slot[s]]
              /\ UNCHANGED closed
      /\ UNCHANGED <<block, inside, byte, table, held, history>>

(* Mutant of RunsBelow: a run above the cell is taken too. *)
RunsAnywhere(off, size) == Block!Holding(Free, size)

(* The runs the sweep may take for a cell at off: those that close below it.*)
RunsBelow(off, size) == {r \in Block!Holding(Free, size) : r.to <= off}

(* No run below the cell holds it: the tier swept and trimmed, and the next *)
(* cell is a lower and a smaller one.                                       *)
MoveRefused(t) ==
  LET payload == slot[op[t].slot]
      off == CellOf(op[t].slot)
  IN  /\ Goto(t, "move", "seek")
      /\ RunsBelow(off, cell[off].size) = {}
      /\ bounds' = carcer_bounds(Block!SweptEnd(Free), bounds.top)
      /\ cell' = Block!SweptCells(Free)
      /\ op' = [op EXCEPT ![t].below = payload, ![t].refused = cell[off].size]
      /\ UNCHANGED <<inUse, closed, inside, byte, table, held, history>>

(* Mutant of EndMoved: the end moved wherever the cell stood. *)
EndAlways(off) == off

(* The end after the move: the cell's offset where it stood at the end. *)
EndMoved(off) ==
  IF Block!EndOf(off) = Block!SweptEnd(Free) THEN off ELSE Block!SweptEnd(Free)

(* Mutant of CopySize: one byte short. *)
CopyShort(off) == cell[off].size - 1

CopySize(off) == cell[off].size

(* The move: the run split, the end stored, the bytes copied, the copy's    *)
(* words laid, the slot renamed, and the cell left behind wiped and freed.  *)
Moved(t) ==
  LET s == op[t].slot
      off == CellOf(s)
      size == cell[off].size
      runs == RunsBelow(off, size)
      run == CHOOSE r \in runs : \A q \in runs : r.at <= q.at
      to == run.at + CarcerHead
      copied == [o \in DOMAIN byte |->
                   IF o \in Span(to, CopySize(off)) THEN byte[slot[s] + o - to] ELSE byte[o]]
      swept == Block!SplitCells(Block!SweptCells(Free), run, size)
      kept == Block!BusyCell(Block!SplitSize(run, size), cell[off].owner)
      laid == Block!LaidAt(Block!LaidAt(swept, run.at, kept), off, Block!FreeCell(size))
  IN  /\ Return(t, "move")
      /\ runs # {}
      /\ closed' = FALSE
      /\ bounds' = carcer_bounds(EndMoved(off), bounds.top)
      /\ byte' = [o \in DOMAIN byte |->
                    IF Wipes /\ o \in Span(slot[s], size) THEN 0 ELSE copied[o]]
      /\ cell' = Block!Only(laid, 0 .. EndMoved(off) - 1)
      /\ slot' = [slot EXCEPT ![s] = to]
      /\ UNCHANGED <<inUse, inside, claimed, lowest, named, held, history>>

-----------------------------------------------------------------------------
(* Every step of a call under way. *)
Step(t) ==
  \/ Shut(t) \/ SpillRun(t) \/ SpillGap(t)
  \/ Search(t) \/ LowestBit(t) \/ FetchOr(t) \/ Put(t) \/ StoreLow(t) \/ Raise(t)
  \/ GiveBack(t) \/ Copied(t) \/ SlotCleared(t) \/ BitCleared(t) \/ Lowered(t)
  \/ TrimSkipped(t) \/ Trimmed(t)
  \/ MoveBegin(t) \/ Seek(t) \/ MoveRefused(t) \/ Moved(t)

Next ==
  \E t \in Threads :
    Alloc(t) \/ Read(t) \/ Write(t) \/ Release(t) \/ Move(t) \/ Step(t)

Spec == Init /\ [][Next]_vars
-----------------------------------------------------------------------------
TypeOK ==
  /\ bounds \in Word /\ bounds.end <= bounds.top
  /\ closed \in BOOLEAN /\ inside \subseteq Threads
  /\ DOMAIN cell \subseteq 0 .. bounds.end - 1
  /\ \A o \in DOMAIN cell : cell[o].size \in 1 .. Size /\ cell[o].busy \in BOOLEAN
  /\ byte \in [0 .. Size - 1 -> Slots \cup {0}]
  /\ slot \in [Slots -> 0 .. Size - 1]
  /\ Spare \subseteq claimed /\ claimed \subseteq Bits
  /\ lowest \in Words /\ named \in 0 .. SlotCount
  /\ pc \in [Threads -> Steps] /\ held \in [Threads -> SUBSET Slots]
  /\ wrote \subseteq Slots

(* The slots a thread has: held, won by its take, or under its release. *)
Releasing(t) == op[t].kind = "release" /\ pc[t] \in {"clear", "unclaim"}

Having(t) ==
  held[t] \cup (IF Releasing(t) \/ pc[t] \in {"put", "low", "raise"}
                 THEN {op[t].slot} \ {0} ELSE {})

(* Slots whose word names a cell: all but those not yet put or given back. *)
Naming(t) == Having(t) \ (IF pc[t] \in {"put", "clear", "unclaim"} THEN {op[t].slot} ELSE {})

(* A slot has one taker, and every bit set has one: two claims that race    *)
(* for a bit (carcer_slot_claimed) never both win it, and no slot is lost.  *)
SlotsExclusive ==
  /\ \A t, u \in Threads : t # u => Having(t) \cap Having(u) = {}
  /\ claimed = Spare \cup UNION {Having(t) : t \in Threads}

(* A slot names a busy cell of its taker's that holds what was asked, and   *)
(* of no other slot; a slot nobody has names none, so the mover never       *)
(* carries a cell that was given back (carcer_slot_given).                  *)
SlotsNameCells ==
  /\ \A t \in Threads : \A s \in Naming(t) :
       /\ CellOf(s) \in DOMAIN cell
       /\ cell[CellOf(s)].busy /\ cell[CellOf(s)].owner = t
       /\ cell[CellOf(s)].size >= asked[s]
  /\ \A s \in Slots : slot[s] # 0 =>
       /\ \E t \in Threads : s \in Having(t)
       /\ \A r \in Slots \ {s} : slot[r] # slot[s]

(* The cells tile the tier whatever is moved, split, swept and trimmed:     *)
(* the walks read a header at every step (carcer_swept, the move).          *)
Tiled ==
  /\ \A o \in DOMAIN cell : Block!EndOf(o) \in DOMAIN cell \cup {bounds.end}
  /\ DOMAIN cell # {} => Min(DOMAIN cell) = 0
  /\ DOMAIN cell = {} => bounds.end = 0
  /\ \A o, p \in DOMAIN cell : o < p => Block!EndOf(o) <= p

(* What its holder wrote to a movable cell is there, wherever the mover     *)
(* carried it and whatever else was taken, wiped or moved since.            *)
ContentKept ==
  \A t \in Threads : \A s \in held[t] \cap wrote :
    \A o \in Span(slot[s], asked[s]) : byte[o] = s

(* The address a pass read of a slot stays where the cell stands until the  *)
(* pass leaves: no mover works under a read, a write or a compare.          *)
SpanStands ==
  \A t \in Threads : \A s \in DOMAIN op[t].at : op[t].at[s] = slot[s]

(* A cell that keeps its slot only ever moves down, and only with the       *)
(* cellblock closed and no pass inside (mmgr_movable_buf_move).             *)
MovesDown ==
  [][\A s \in Slots :
       slot[s] # slot'[s] /\ slot[s] # 0 /\ slot'[s] # 0 =>
         slot'[s] < slot[s] /\ closed /\ inside = {}]_vars

(* A move that moves nothing had nothing to move: cells as large as one     *)
(* refused above them are passed over unread, and rightly.                  *)
Exhausted ==
  [][\A t \in Threads :
       pc[t] = "seek" /\ pc'[t] = "idle" /\ still =>
         \A s \in 1 .. named :
           slot[s] # 0 => RunsBelow(CellOf(s), cell[CellOf(s)].size) = {}]_vars

(* mmgr_movable_buf_release and mmgr_movable_buf_alloc as a matched pair: a *)
(* cellblock every cell of which went back has no byte in use.              *)
MatchedPairs ==
  (\A t \in Threads : pc[t] = "idle" /\ held[t] = {}) => inUse = 0
=============================================================================
