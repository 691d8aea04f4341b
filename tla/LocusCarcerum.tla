---------------------------- MODULE LocusCarcerum ----------------------------
(***************************************************************************)
(* The cellblock allocator: two tiers of cells that grow toward each other *)
(* out of one block of Size bytes, shared by contexts that may be          *)
(* interrupted between any two atomic operations.                          *)
(*                                                                         *)
(* A take is a pass through the turnstiles: badge in at a lane, read the   *)
(* closed bit, bump the tier's boundary with one fetch-add, lay the cell's *)
(* words, leave.  A bump the gap cannot meet moves nothing back; its bytes *)
(* go on the tier's overrun and the take goes on to the writer's path:     *)
(* take the closed bit, drain the lanes, settle the boundaries, work       *)
(* alone, open.  A give needs no pass.                                     *)
(*                                                                         *)
(* The turnstiles are a library outside the repository, modelled from      *)
(* their use: a lane is claimed or there is none, a drain waits for every  *)
(* pass that was badged in when it read the lanes.                         *)
(***************************************************************************)
EXTENDS CarcerWord, FiniteSets, FiniteSetsExt

CONSTANTS
  Contexts,      \* the threads and interrupts that share the cellblock
  TempContexts,  \* those of them that take temporary cells
  Lanes,         \* turnstile lanes
  Owners,        \* owners of the program's owner table
  Strangers,     \* owners named by a caller that are not of the table
  NoOwner,       \* the place 0 of an owner word
  Requests,      \* byte counts asked of a take
  Growths,       \* byte counts asked of a growth
  Rewinds        \* whether the program rewinds the temporary tier

ASSUME CellblockAssumption ==
  /\ IsFiniteSet(Contexts) /\ TempContexts \subseteq Contexts
  /\ Lanes \in Nat /\ Lanes > 0
  /\ Requests \subseteq Nat /\ Growths \subseteq Nat /\ Rewinds \in BOOLEAN
  /\ Owners \cap Strangers = {} /\ NoOwner \notin Owners \cup Strangers
  \* a rewind drops every cell above the top, so only a context that has the
  \* temporary tier to itself rewinds
  /\ Rewinds => Cardinality(TempContexts) = 1

(* The headroom of each half (docs/concepts/locus-carcerum-algorithm.md,    *)
(* section 3).  The bumps up in flight are bounded by the lanes; the bumps  *)
(* down that await their writer are bounded by the contexts alone.          *)
ASSUME HeadroomAssumption ==
  /\ BytesMost + Lanes * NeedMost < Half
  /\ Size + Cardinality(TempContexts) * NeedMost < Half

VARIABLES
  bounds,           \* the word of the two boundaries
  over,             \* the two tiers' overruns
  closed,           \* bit 0 of the closed word
  lane,             \* the contexts badged in at a lane
  waits,            \* the passes the drain under way still waits for
  seen,             \* the cells already free when the boundaries were settled
  cell,             \* the cells laid, by the offset of their header
  inUse,            \* series->in_use
  persistentInUse,  \* series->persistent_in_use
  ownerInUse,       \* CellOwner.in_use of each owner
  pc,               \* where each context stands
  op,               \* the call each context is in
  held,             \* the cells each context was answered and has not given
  chain             \* history: where the two tiers of cells really end

counts == <<inUse, persistentInUse, ownerInUse>>
vars == <<bounds, over, closed, lane, waits, seen, cell, counts, pc, op, held, chain>>

Steps == {"idle", "enter", "read", "ahead", "bump", "owe", "lay", "leave",
          "refused", "shut", "drain", "wait", "work", "walk", "claim", "free", "trim"}

NoOp == [kind |-> "none", up |-> TRUE, want |-> 0, owner |-> NoOwner,
         off |-> 0, edge |-> FALSE]

Offsets == 0 .. Size - 1

TypeOK ==
  /\ bounds \in Word
  /\ over \in [end : Nat, top : Nat]
  /\ closed \in BOOLEAN
  /\ lane \subseteq Contexts /\ waits \subseteq lane
  /\ seen \subseteq Offsets
  /\ DOMAIN cell \subseteq Offsets
  /\ \A o \in DOMAIN cell :
       cell[o] \in [size : 1 .. Size, busy : BOOLEAN,
                    owner : Owners \cup {NoOwner}, complete : BOOLEAN]
  /\ inUse \in Int /\ persistentInUse \in Int /\ ownerInUse \in [Owners -> Int]
  /\ pc \in [Contexts -> Steps]
  /\ op \in [Contexts -> [kind : {"none", "take", "give", "grow", "rewind"},
                          up : BOOLEAN, want : Nat,
                          owner : Owners \cup Strangers \cup {NoOwner},
                          off : Nat, edge : BOOLEAN]]
  /\ held \in [Contexts -> SUBSET Offsets]
  /\ chain \in [end : 0 .. Size, top : 0 .. Size]

(* A cellblock as MMGR_CARCER_STATE leaves it: both tiers empty. *)
Init ==
  /\ bounds = carcer_bounds(0, Size)
  /\ over = [end |-> 0, top |-> 0]
  /\ closed = FALSE
  /\ lane = {} /\ waits = {} /\ seen = {}
  /\ cell = [o \in {} |-> 0]
  /\ inUse = 0 /\ persistentInUse = 0 /\ ownerInUse = [o \in Owners |-> 0]
  /\ pc = [c \in Contexts |-> "idle"]
  /\ op = [c \in Contexts |-> NoOp]
  /\ held = [c \in Contexts |-> {}]
  /\ chain = [end |-> 0, top |-> Size]
-----------------------------------------------------------------------------
EndOf(o) == carcer_end_of(o, cell[o].size)

Need(c) == Hdr + op[c].want

(* A context in no call begins one. *)
Call(c, step, call) ==
  /\ pc[c] = "idle"
  /\ pc' = [pc EXCEPT ![c] = step]
  /\ op' = [op EXCEPT ![c] = call]

Goto(c, from, to) ==
  /\ pc[c] = from
  /\ pc' = [pc EXCEPT ![c] = to]

Return(c, from) ==
  /\ Goto(c, from, "idle")
  /\ op' = [op EXCEPT ![c] = NoOp]

Unbadged(c) ==
  /\ lane' = lane \ {c}
  /\ waits' = waits \ {c}

FreeCell(size) == [size |-> size, busy |-> FALSE, owner |-> NoOwner, complete |-> FALSE]
BusyCell(size, owner) == [size |-> size, busy |-> TRUE, owner |-> owner, complete |-> FALSE]

(* The cells cells with one more laid at off, over whatever stood there. *)
LaidAt(cells, off, laid) ==
  [o \in DOMAIN cells \cup {off} |-> IF o = off THEN laid ELSE cells[o]]

Only(cells, offsets) == [o \in DOMAIN cells \cap offsets |-> cells[o]]

carcer_counted(owner, bytes, up) ==
  /\ inUse' = inUse + bytes
  /\ persistentInUse' = IF up THEN persistentInUse + bytes ELSE persistentInUse
  /\ ownerInUse' = [ownerInUse EXCEPT ![owner] = @ + bytes]

carcer_uncounted(owner, bytes, up) ==
  /\ inUse' = inUse - bytes
  /\ persistentInUse' = IF up THEN persistentInUse - bytes ELSE persistentInUse
  /\ ownerInUse' = [ownerInUse EXCEPT ![owner] = @ - bytes]

(* Mutant of carcer_foot_claimed: the bit found set counts off again. *)
FootClaimedAgain(off, up) ==
  /\ cell' = [cell EXCEPT ![off].complete = TRUE]
  /\ IF cell[off].owner # NoOwner
     THEN carcer_uncounted(cell[off].owner, cell[off].size, up)
     ELSE UNCHANGED counts

(* The completion bit of the owner word at off: the context that finds it   *)
(* clear counts the cell off, and a word that names no owner counts nothing.*)
carcer_foot_claimed(off, up) ==
  /\ cell' = [cell EXCEPT ![off].complete = TRUE]
  /\ IF ~cell[off].complete /\ cell[off].owner # NoOwner
     THEN carcer_uncounted(cell[off].owner, cell[off].size, up)
     ELSE UNCHANGED counts

-----------------------------------------------------------------------------
(* A take: the pass. *)

Take(c) ==
  \E up \in BOOLEAN, request \in Requests, owner \in Owners \cup Strangers :
    /\ up \/ c \in TempContexts
    /\ Call(c, "enter", [NoOp EXCEPT !.kind = "take", !.up = up,
                                     !.want = carcer_want(request), !.owner = owner])
    /\ UNCHANGED <<bounds, over, closed, lane, waits, seen, cell, counts, held, chain>>

(* The badge-in.  A pass that finds no lane backs off and tries again. *)
Enter(c) ==
  /\ Goto(c, "enter", "read")
  /\ Cardinality(lane) < Lanes
  /\ lane' = lane \cup {c}
  /\ UNCHANGED <<bounds, over, closed, waits, seen, cell, counts, op, held, chain>>

(* The closed bit, read after the badge-in.  A pass that finds it set       *)
(* touches nothing, leaves, backs off and badges in again.                  *)
Permit(c) ==
  /\ ~closed
  /\ Goto(c, "read", "ahead")
  /\ UNCHANGED <<bounds, over, closed, lane, waits, seen, cell, counts, op, held, chain>>

(* Mutant of Miss: the lane kept over the backoff. *)
MissBadgedIn(c) ==
  /\ closed
  /\ Goto(c, "read", "enter")
  /\ UNCHANGED <<bounds, over, closed, lane, waits, seen, cell, counts, op, held, chain>>

Miss(c) ==
  /\ closed
  /\ Goto(c, "read", "enter")
  /\ Unbadged(c)
  /\ UNCHANGED <<bounds, over, closed, seen, cell, counts, op, held, chain>>

(* Mutant of Ahead: no read of the end ahead of the bump. *)
AheadUnread(c) ==
  /\ Goto(c, "ahead", IF op[c].owner \in Owners /\ op[c].want <= WantMost
                      THEN "bump" ELSE "refused")
  /\ UNCHANGED <<bounds, over, closed, lane, waits, seen, cell, counts, op, held, chain>>

(* The word read ahead of the bump: an owner not of the table, a want past  *)
(* WantMost, or an end already past the headroom's start moves nothing.     *)
Ahead(c) ==
  /\ Goto(c, "ahead", IF /\ op[c].owner \in Owners
                         /\ op[c].want <= WantMost
                         /\ op[c].up => bounds.end <= BytesMost
                      THEN "bump" ELSE "refused")
  /\ UNCHANGED <<bounds, over, closed, lane, waits, seen, cell, counts, op, held, chain>>

(* The one fetch-add.  A bump that fits has its cell where the boundary     *)
(* moved over; one that does not leaves the boundary where it moved it.     *)
BumpUp(c) ==
  /\ op[c].up
  /\ bounds' = BumpedUp(bounds, Need(c))
  /\ IF FitsUp(bounds, Need(c))
     THEN /\ Goto(c, "bump", "lay")
          /\ op' = [op EXCEPT ![c].off = bounds.end]
          /\ chain' = [chain EXCEPT !.end = @ + Need(c)]
     ELSE /\ Goto(c, "bump", "owe")
          /\ UNCHANGED <<op, chain>>
  /\ UNCHANGED <<over, closed, lane, waits, seen, cell, counts, held>>

BumpDown(c) ==
  /\ ~op[c].up
  /\ bounds' = BumpedDown(bounds, Need(c))
  /\ IF FitsDown(bounds, Need(c))
     THEN /\ Goto(c, "bump", "lay")
          /\ op' = [op EXCEPT ![c].off = bounds.top - Need(c)]
          /\ chain' = [chain EXCEPT !.top = @ - Need(c)]
     ELSE /\ Goto(c, "bump", "owe")
          /\ UNCHANGED <<op, chain>>
  /\ UNCHANGED <<over, closed, lane, waits, seen, cell, counts, held>>

(* Mutants of Owe: a refused bump up undone by a second add to the word,    *)
(* and an overrun stored where it is to be added to.                        *)
OweUndone(c) ==
  /\ Goto(c, "owe", "refused")
  /\ IF op[c].up
     THEN bounds' = carcer_bounds(bounds.end - Need(c), bounds.top) /\ UNCHANGED over
     ELSE over' = [over EXCEPT !.top = @ + Need(c)] /\ UNCHANGED bounds
  /\ UNCHANGED <<closed, lane, waits, seen, cell, counts, op, held, chain>>

OweStored(c) ==
  /\ Goto(c, "owe", "refused")
  /\ over' = IF op[c].up THEN [over EXCEPT !.end = Need(c)]
                         ELSE [over EXCEPT !.top = Need(c)]
  /\ UNCHANGED <<bounds, closed, lane, waits, seen, cell, counts, op, held, chain>>

(* A refused bump's bytes go on its tier's overrun, one more fetch-add. *)
Owe(c) ==
  /\ Goto(c, "owe", "refused")
  /\ over' = IF op[c].up THEN [over EXCEPT !.end = @ + Need(c)]
                         ELSE [over EXCEPT !.top = @ + Need(c)]
  /\ UNCHANGED <<bounds, closed, lane, waits, seen, cell, counts, op, held, chain>>

(* carcer_laid: the owner word, the header, the counts. *)
Lay(c) ==
  /\ Goto(c, "lay", "leave")
  /\ cell' = LaidAt(cell, op[c].off, BusyCell(op[c].want, op[c].owner))
  /\ carcer_counted(op[c].owner, op[c].want, op[c].up)
  /\ UNCHANGED <<bounds, over, closed, lane, waits, seen, op, held, chain>>

(* A pass that landed leaves its lane and answers the cell. *)
Leave(c) ==
  /\ Return(c, "leave")
  /\ Unbadged(c)
  /\ held' = [held EXCEPT ![c] = @ \cup {op[c].off}]
  /\ UNCHANGED <<bounds, over, closed, seen, cell, counts, chain>>

(* Mutant of Refused: every refused take answers NULL at once. *)
RefusedAnswers(c) ==
  /\ Return(c, "refused")
  /\ Unbadged(c)
  /\ UNCHANGED <<bounds, over, closed, seen, cell, counts, held, chain>>

(* A refused pass leaves its lane and goes on to the writer's path; a take  *)
(* that named an owner not of the table answers NULL.                       *)
Refused(c) ==
  /\ IF op[c].owner \in Owners
     THEN Goto(c, "refused", "shut") /\ UNCHANGED op
     ELSE Return(c, "refused")
  /\ Unbadged(c)
  /\ UNCHANGED <<bounds, over, closed, seen, cell, counts, held, chain>>

-----------------------------------------------------------------------------
(* The writer's path: carcer_shut. *)

(* The fetch-or that found the closed bit clear.  One that finds it set     *)
(* changes nothing and is tried again after a backoff step.                 *)
Shut(c) ==
  /\ ~closed
  /\ Goto(c, "shut", "drain")
  /\ closed' = TRUE
  /\ UNCHANGED <<bounds, over, lane, waits, seen, cell, counts, op, held, chain>>

(* Mutant of Drain: the passes badged in are not waited for. *)
DrainNone(c) ==
  /\ Goto(c, "drain", "wait")
  /\ waits' = {}
  /\ UNCHANGED <<bounds, over, closed, lane, seen, cell, counts, op, held, chain>>

(* The drain reads the lanes, then waits out every pass it read. *)
Drain(c) ==
  /\ Goto(c, "drain", "wait")
  /\ waits' = lane
  /\ UNCHANGED <<bounds, over, closed, lane, seen, cell, counts, op, held, chain>>

(* carcer_settled, the drain over. *)
Settle(c) ==
  /\ waits = {}
  /\ Goto(c, "wait", "work")
  /\ bounds' = Settled(bounds, over)
  /\ over' = [end |-> 0, top |-> 0]
  /\ seen' = {o \in DOMAIN cell : ~cell[o].busy}
  /\ UNCHANGED <<closed, lane, waits, cell, counts, op, held, chain>>

(* carcer_opened: the closed bit cleared, the call over. *)
Opened(c, from) ==
  /\ Return(c, from)
  /\ closed' = FALSE
  /\ seen' = {}
  /\ UNCHANGED <<over, lane, waits>>

(* The boundaries stored by a writer are where the tiers' cells end. *)
Stored(end, top) ==
  /\ bounds' = carcer_bounds(end, top)
  /\ chain' = [end |-> end, top |-> top]

(* The cells a walk may read free.  It reads each header once, with gives   *)
(* still storing theirs: a cell freed since the settle is read either way.  *)
ReadFree(free) ==
  /\ seen \subseteq free
  /\ free \subseteq {o \in DOMAIN cell : ~cell[o].busy}

(* carcer_swept: the persistent tier walked, its runs of free cells that a  *)
(* busy cell closes, and the end past the last busy cell.                   *)
Busy(free) == {o \in DOMAIN cell : o < bounds.end} \ free

RunStarts(free) == {0} \cup {EndOf(o) : o \in Busy(free)}

Runs(free) ==
  {r \in [at : RunStarts(free), to : Busy(free)] :
     /\ r.at < r.to
     /\ \A o \in Busy(free) : o < r.at \/ r.to <= o}

RunSize(run) == run.to - run.at - Hdr

SweptEnd(free) ==
  CHOOSE e \in RunStarts(free) : \A s \in RunStarts(free) : s <= e

Holding(free, want) == {r \in Runs(free) : RunSize(r) >= want}

FirstRun(free, want) ==
  CHOOSE r \in Holding(free, want) : \A s \in Holding(free, want) : r.at <= s.at

(* The cells after the sweep: each run one free cell, the cells past the    *)
(* end back in the gap.                                                     *)
SweptCells(free) ==
  [o \in Busy(free) \cup {r.at : r \in Runs(free)}
           \cup {o \in DOMAIN cell : o >= bounds.end} |->
     IF \E r \in Runs(free) : r.at = o
     THEN FreeCell(RunSize(CHOOSE r \in Runs(free) : r.at = o))
     ELSE cell[o]]

(* Mutant of BusyAbove: the walk begins past the first cell at the top. *)
BusyPastTop(free) == {o \in DOMAIN cell : o > bounds.top} \ free

(* carcer_top_walked: the temporary top up over the free cells at it. *)
BusyAbove(free) == {o \in DOMAIN cell : o >= bounds.top} \ free

TopWalked(free) ==
  CHOOSE t \in BusyAbove(free) \cup {Size} : \A o \in BusyAbove(free) : t <= o

(* carcer_split: the payload a take carries over the run it was found in,   *)
(* and the cells with the rest of the run, where it holds a cell of its own.*)
Splits(run, want) == RunSize(run) >= want + Hdr + Align

(* Mutant of SplitSize: a run too small to split answered at the want. *)
SplitSizeWant(run, want) == want

SplitSize(run, want) == IF Splits(run, want) THEN want ELSE RunSize(run)

SplitCells(cells, run, want) ==
  IF Splits(run, want)
  THEN LaidAt(cells, carcer_end_of(run.at, want), FreeCell(RunSize(run) - want - Hdr))
  ELSE cells

Answered(c, off) == held' = [held EXCEPT ![c] = @ \cup {off}]

(* carcer_spilled, a persistent take: the first free run that holds it. *)
SpillRun(c) ==
  \E free \in SUBSET DOMAIN cell :
    LET want == op[c].want
        run == FirstRun(free, want)
    IN  /\ ReadFree(free)
        /\ op[c].kind = "take" /\ op[c].up
        /\ Holding(free, want) # {}
        /\ Opened(c, "work")
        /\ cell' = LaidAt(SplitCells(SweptCells(free), run, want), run.at,
                          BusyCell(SplitSize(run, want), op[c].owner))
        /\ Stored(SweptEnd(free), bounds.top)
        /\ carcer_counted(op[c].owner, SplitSize(run, want), TRUE)
        /\ Answered(c, run.at)

(* carcer_spilled, a persistent take no free run holds: the end trimmed and *)
(* the gap read exactly.                                                    *)
SpillUp(c) ==
  \E free \in SUBSET DOMAIN cell :
    LET end == SweptEnd(free)
    IN  /\ ReadFree(free)
        /\ op[c].kind = "take" /\ op[c].up
        /\ Holding(free, op[c].want) = {}
        /\ Opened(c, "work")
        /\ IF end <= bounds.top /\ Need(c) <= bounds.top - end
           THEN /\ cell' = LaidAt(SweptCells(free), end,
                                  BusyCell(op[c].want, op[c].owner))
                /\ Stored(end + Need(c), bounds.top)
                /\ carcer_counted(op[c].owner, op[c].want, TRUE)
                /\ Answered(c, end)
           ELSE /\ cell' = SweptCells(free)
                /\ Stored(end, bounds.top)
                /\ UNCHANGED <<counts, held>>

(* carcer_spilled, a temporary take: the top walked up and the gap read.    *)
SpillDown(c) ==
  \E free \in SUBSET DOMAIN cell :
    LET top == TopWalked(free)
        kept == Only(cell, {o \in DOMAIN cell : o < bounds.end \/ o >= top})
    IN  /\ ReadFree(free)
        /\ op[c].kind = "take" /\ ~op[c].up
        /\ Opened(c, "work")
        /\ IF bounds.end <= top /\ Need(c) <= top - bounds.end
           THEN /\ cell' = LaidAt(kept, top - Need(c),
                                  BusyCell(op[c].want, op[c].owner))
                /\ Stored(bounds.end, top - Need(c))
                /\ carcer_counted(op[c].owner, op[c].want, FALSE)
                /\ Answered(c, top - Need(c))
           ELSE /\ cell' = kept
                /\ Stored(bounds.end, top)
                /\ UNCHANGED <<counts, held>>

-----------------------------------------------------------------------------
(* A give: no pass.  The cell read, its tier and whether it stands at its   *)
(* tier's boundary read off the word; then the completion bit, then the     *)
(* header free.  A give naming another owner changes nothing.               *)
Give(c) ==
  \E o \in held[c] :
    /\ cell[o].busy /\ ~cell[o].complete
    /\ LET up == o < bounds.end
       IN  Call(c, "claim",
                [NoOp EXCEPT !.kind = "give", !.off = o, !.up = up,
                             !.edge = IF up THEN EndOf(o) = bounds.end
                                            ELSE o = bounds.top])
    /\ held' = [held EXCEPT ![c] = @ \ {o}]
    /\ UNCHANGED <<bounds, over, closed, lane, waits, seen, cell, counts, chain>>

Claim(c) ==
  /\ Goto(c, "claim", "free")
  /\ carcer_foot_claimed(op[c].off, op[c].up)
  /\ UNCHANGED <<bounds, over, closed, lane, waits, seen, op, held, chain>>

Freed(c) ==
  /\ IF op[c].edge
     THEN Goto(c, "free", "trim") /\ UNCHANGED op
     ELSE Return(c, "free")
  /\ cell' = [cell EXCEPT ![op[c].off].busy = FALSE]
  /\ UNCHANGED <<bounds, over, closed, lane, waits, seen, counts, held, chain>>

(* carcer_trimmed: one fetch-or, and the trim where the bit was clear.      *)
TrimTaken(c) ==
  /\ ~closed
  /\ Goto(c, "trim", "drain")
  /\ closed' = TRUE
  /\ UNCHANGED <<bounds, over, lane, waits, seen, cell, counts, op, held, chain>>

TrimSkipped(c) ==
  /\ closed
  /\ Return(c, "trim")
  /\ UNCHANGED <<bounds, over, closed, lane, waits, seen, cell, counts, held, chain>>

(* carcer_trimmed_held: the tier's boundary back to its newest busy cell. *)
TrimUp(c) ==
  \E free \in SUBSET DOMAIN cell :
    /\ ReadFree(free)
    /\ op[c].kind = "give" /\ op[c].up
    /\ Opened(c, "work")
    /\ cell' = SweptCells(free)
    /\ Stored(SweptEnd(free), bounds.top)
    /\ UNCHANGED <<counts, held>>

TrimDown(c) ==
  \E free \in SUBSET DOMAIN cell :
    LET top == TopWalked(free)
    IN  /\ ReadFree(free)
        /\ op[c].kind = "give" /\ ~op[c].up
        /\ Opened(c, "work")
        /\ cell' = Only(cell, {o \in DOMAIN cell : o < bounds.end \/ o >= top})
        /\ Stored(bounds.end, top)
        /\ UNCHANGED <<counts, held>>

-----------------------------------------------------------------------------
(* carcer_grown: the newest cell of its tier grown in place. *)
Grow(c) ==
  /\ \E o \in held[c], request \in Growths :
       Call(c, "shut", [NoOp EXCEPT !.kind = "grow", !.off = o,
                                    !.owner = cell[o].owner,
                                    !.want = carcer_want(request)])
  /\ UNCHANGED <<bounds, over, closed, lane, waits, seen, cell, counts, held, chain>>

Extra(c) == op[c].want - cell[op[c].off].size

(* Mutant of CanGrow: the room between the tiers not read. *)
CanGrowNoRoom(c) ==
  /\ Extra(c) > 0
  /\ IF op[c].off < bounds.end THEN EndOf(op[c].off) = bounds.end
                               ELSE op[c].off = bounds.top

CanGrow(c) ==
  /\ Extra(c) > 0
  /\ bounds.end <= bounds.top /\ Extra(c) <= bounds.top - bounds.end
  /\ IF op[c].off < bounds.end THEN EndOf(op[c].off) = bounds.end
                               ELSE op[c].off = bounds.top

GrowUp(c) ==
  /\ op[c].kind = "grow" /\ op[c].off < bounds.end
  /\ CanGrow(c)
  /\ Opened(c, "work")
  /\ cell' = [cell EXCEPT ![op[c].off].size = op[c].want]
  /\ Stored(bounds.end + Extra(c), bounds.top)
  /\ carcer_counted(op[c].owner, Extra(c), TRUE)
  /\ UNCHANGED held

(* A temporary cell moves down by the growth, its owner word standing. *)
GrowDown(c) ==
  LET at == op[c].off - Extra(c)
  IN  /\ op[c].kind = "grow" /\ op[c].off >= bounds.end
      /\ CanGrow(c)
      /\ Opened(c, "work")
      /\ cell' = LaidAt(Only(cell, Offsets \ {op[c].off}), at,
                        BusyCell(op[c].want, op[c].owner))
      /\ Stored(bounds.end, at)
      /\ carcer_counted(op[c].owner, Extra(c), FALSE)
      /\ held' = [held EXCEPT ![c] = (@ \ {op[c].off}) \cup {at}]

(* Not the newest cell, no room, or a size it carries already. *)
GrowRefused(c) ==
  /\ op[c].kind = "grow"
  /\ ~CanGrow(c)
  /\ Opened(c, "work")
  /\ UNCHANGED <<bounds, cell, counts, held, chain>>

-----------------------------------------------------------------------------
(* carcer_rewound: the temporary tier rewound to a mark, by the one context *)
(* that takes from it.  A mark is a top this cellblock reported: where a    *)
(* cell was newest, or the size.                                            *)
Rewind(c) ==
  /\ Rewinds /\ c \in TempContexts
  /\ \E mark \in {o \in DOMAIN cell : o >= chain.top} \cup {0, Size} :
       Call(c, "shut", [NoOp EXCEPT !.kind = "rewind", !.want = mark])
  /\ UNCHANGED <<bounds, over, closed, lane, waits, seen, cell, counts, held, chain>>

(* A mark at or below the top as it stands rewinds nothing. *)
RewindBegin(c) ==
  /\ op[c].kind = "rewind"
  /\ Goto(c, "work", "walk")
  /\ op' = [op EXCEPT ![c].off = bounds.top,
                      ![c].want = IF bounds.top < @ THEN @ ELSE bounds.top]
  /\ UNCHANGED <<bounds, over, closed, lane, waits, seen, cell, counts, held, chain>>

(* Each cell from the top to the mark counted off, once. *)
RewindStep(c) ==
  /\ pc[c] = "walk" /\ op[c].off < op[c].want
  /\ carcer_foot_claimed(op[c].off, FALSE)
  /\ op' = [op EXCEPT ![c].off = EndOf(@)]
  /\ UNCHANGED <<bounds, over, closed, lane, waits, seen, pc, held, chain>>

Rewound(c) ==
  LET mark == op[c].want
  IN  /\ op[c].want <= op[c].off
      /\ Opened(c, "walk")
      /\ cell' = Only(cell, {o \in DOMAIN cell : o < bounds.end \/ o >= mark})
      /\ Stored(bounds.end, mark)
      /\ held' = [held EXCEPT ![c] = {o \in @ : o < bounds.end \/ o >= mark}]
      /\ UNCHANGED counts

-----------------------------------------------------------------------------
Pass(c) == Enter(c) \/ Permit(c) \/ Miss(c) \/ Ahead(c) \/ BumpUp(c) \/ BumpDown(c)
           \/ Owe(c) \/ Lay(c) \/ Leave(c) \/ Refused(c)

Writer(c) == Shut(c) \/ Drain(c) \/ Settle(c)
             \/ SpillRun(c) \/ SpillUp(c) \/ SpillDown(c) \/ TrimUp(c) \/ TrimDown(c)
             \/ GrowUp(c) \/ GrowDown(c) \/ GrowRefused(c)
             \/ RewindBegin(c) \/ RewindStep(c) \/ Rewound(c)

GiveStep(c) == Claim(c) \/ Freed(c) \/ TrimTaken(c) \/ TrimSkipped(c)

Calls(c) == Take(c) \/ Give(c) \/ Grow(c) \/ Rewind(c)

Next == \E c \in Contexts : Calls(c) \/ Pass(c) \/ Writer(c) \/ GiveStep(c)

Spec == Init /\ [][Next]_vars

-----------------------------------------------------------------------------
(* Properties. *)

Claims == {c \in Contexts : pc[c] = "lay"}

ClaimEnd(c) == carcer_end_of(op[c].off, op[c].want)

InATier(from, to) ==
  \/ to <= chain.end
  \/ chain.top <= from /\ to <= Size

(* No two cells overlap, a cell a bump was answered and has not laid yet    *)
(* included, and every one lies in the bytes its tier has taken (the        *)
(* algorithm's theorem, part 2: carcer_bumped against carcer_spilled).      *)
NoOverlap ==
  /\ chain.end <= chain.top
  /\ \A o \in DOMAIN cell : InATier(o, EndOf(o))
  /\ \A c \in Claims : InATier(op[c].off, ClaimEnd(c))
  /\ \A o, p \in DOMAIN cell : o # p => EndOf(o) <= p \/ EndOf(p) <= o
  /\ \A c \in Claims, o \in DOMAIN cell : ClaimEnd(c) <= o \/ EndOf(o) <= op[c].off
  /\ \A c, d \in Claims : c # d => ClaimEnd(c) <= op[d].off \/ ClaimEnd(d) <= op[c].off

(* The two tiers have no hole: with every claim laid, the walks of          *)
(* carcer_swept, carcer_top_walked and carcer_rewound step from header to   *)
(* header and end exactly at the boundary.                                  *)
Starts == DOMAIN cell \cup {op[c].off : c \in Claims}

NoHole ==
  /\ 0 \in Starts \cup {chain.end}
  /\ chain.top \in Starts \cup {Size}
  /\ \A o \in DOMAIN cell : EndOf(o) \in Starts \cup {chain.end, Size}
  /\ \A c \in Claims : ClaimEnd(c) \in Starts \cup {chain.end, Size}

(* The algorithm's invariant I, once the two atomic operations of each bump *)
(* are complete: each boundary stands past its chain by its overrun.        *)
Overran ==
  (\A c \in Contexts : pc[c] # "owe") =>
    /\ bounds.end = chain.end + over.end
    /\ bounds.top = (chain.top - over.top) % Half

(* A writer that has drained works alone: no pass it let through is still   *)
(* between the closed bit and its leave, and no second writer is at work.   *)
InPass(c) == pc[c] \in {"ahead", "bump", "owe", "lay", "leave", "refused"}
AtWork(c) == pc[c] \in {"work", "walk"}
Exclusive ==
  \A c \in Contexts : AtWork(c) =>
    \A d \in Contexts \ {c} : ~AtWork(d) /\ ~InPass(d)

(* Every refused take's writer has taken its bytes back: with no call       *)
(* under way the boundaries are at rest.                                    *)
Quiet == \A c \in Contexts : pc[c] = "idle"
RestsQuiet == Quiet => over = [end |-> 0, top |-> 0] /\ bounds = chain

(* The running totals are the payload of the cells taken and not counted    *)
(* off: a give and a rewind, a split and a growth each count what they lay. *)
Counted(offsets) ==
  MapThenSumSet(LAMBDA o : cell[o].size,
                {o \in offsets : cell[o].owner # NoOwner /\ ~cell[o].complete})
InUseExact ==
  /\ inUse = Counted(DOMAIN cell)
  /\ \A owner \in Owners :
       ownerInUse[owner] = Counted({o \in DOMAIN cell : cell[o].owner = owner})

(* The part of in_use lying in the persistent tier, as locus_carcerum.h     *)
(* says of persistent_in_use.                                               *)
PersistentInUseExact ==
  persistentInUse = Counted({o \in DOMAIN cell : o < chain.end})

(* A cellblock whose every cell went back reads idle, as the note of        *)
(* carcer_trimmed_held and the stress test's last check say.                *)
AllBackReadsIdle ==
  (Quiet /\ \A o \in DOMAIN cell : ~cell[o].busy) => bounds = [end |-> 0, top |-> Size]

(* A cell a context holds stays as it is through every step of the others:  *)
(* its header, its owner word and its extent.                               *)
HeldIntact ==
  [][\A c \in Contexts : \A o \in held[c] :
       pc'[c] = pc[c] /\ op'[c] = op[c] => o \in DOMAIN cell' /\ cell'[o] = cell[o]]_vars

(* A bump up never carries into the temporary top's half. *)
NoCarry ==
  [][\A c \in Contexts : BumpUp(c) => bounds'.top = bounds.top]_vars

(* The allocator implements the store of its promise: a cell is taken when  *)
(* its words are laid and given back when its completion bit is set.        *)
Taken ==
  {[from |-> o, to |-> EndOf(o), owner |-> cell[o].owner] :
     o \in {p \in DOMAIN cell : cell[p].owner # NoOwner /\ ~cell[p].complete}}

Store == INSTANCE CellStore WITH taken <- Taken, Bytes <- Size, Holders <- Owners

ImplementsStore == Store!StoreSpec
=============================================================================
