# A verification of MMgr in TLA+

MMgr is a C library of memory verbs for hosted and bare-metal programs: an
allocator of fixed blocks shared by threads and interrupts, a lock-free ring, a
DMA schedule, and the scans, copies, writers and formatters that work over the
memory they hand out. Paths below are relative to the repository; `c:` and `h:`
stand for `src/locus_carcerum/locus_carcerum.c` and `.h`.

## 1. Inventory

| component | state it keeps | operations | what is hard | what makes it correct |
|---|---|---|---|---|
| **locus_carcerum: cellblock** (c: 100-1576) | one word with the end of the persistent tier and the top of the temporary one; an overrun per tier; the closed word; turnstile lanes; the headers and owner words in the block; running totals, per cellblock and per owner | takes of both tiers, gives, growth in place, mark and rewind | any number of contexts, interrupted between any two atomic operations; refused bumps left standing on the word; a writer against passes; gives against the writer's walk | cells never overlap; each tier is a chain without holes; a held cell stays as it is; the boundaries come back to rest; every byte is counted off once; every call ends |
| **locus_carcerum: movable option** (c: 1577-2230) | slots, a claimed bitmap, spans | movable takes and gives, sort, move | works as a writer over the same walks; a take loses its claim to another's | a slot's cell moves whole, spans and cells agree, a moved cell counts what it carries |
| **memoria_anularis** | ring bytes, head and tail, segments' two counters, loculi | write, read, peek, segment in and out, claim and give of a loculus | one producer and one consumer without locks; wrap at both ends | a byte queue: what is read is what was written, in order, once |
| **confinium_exclusivum_infinitas** | the same, opaque to the consumer, its segments an even division of the buffer | the same | the same | the same |
| **memoriam_praetereo: praet_ordo** | channels' states and flags, the pending flag, watchdog deadlines, statuses | submit, poll, raise, detach, keepalive | completions in interrupts against a poll; a poll inside a poll; timeouts racing answers; counters that wrap | a transfer's status is delivered once and to the transfer it belongs to; a raise is not lost |
| memoriam_praetereo: descriptors, port hooks | descriptor words | layout, weak defaults | none: the port's own | fields do not overlap |
| memoria_externa, confinium_externum | placement of a block; a two-buffer index | place, swap | none: one caller | the buffer read is not the one written |
| spatium, bitorum/octetus_introitus_exitus | a cursor over a caller's buffer, a bit accumulator | put, get, window | boundaries of the buffer and of a byte | never past the span, bits come out as they went in |
| verba_scribo, verba_linea | a line buffer and its sink | write, flush | a line that fills in mid-write | no byte lost or repeated at a flush |
| verbum_scrutor, cellularum_laboro, memoria_operor, proximus_operor | none | scans, compares, copies | none concurrent | equal to their byte-by-byte definitions |
| numeros_scribo, transformo, fractio, pow5 | none | number formatting and parsing at 128 bits | width | exact digits |
| clz, endian, ascii_persona_bitorum, impensa_ancorae_acus, config | none | bit counts, byte orders, tables | none | generated or one line each |
| turnstiles and atomics (`deps`) | lanes, a drain's list | enter, leave, drain | external | modelled from their use |
| theory (Lean) | | the sequential arithmetic of the cellblock | | a document beside the code |

The components meet in memory: a program takes a cell from a cellblock and
lends it to a ring, a span, a line or a DMA channel. No component calls back
into the cellblock while it works, so each is modelled on its own; what joins
the cellblock to its users is `CellStore`, the promise a user may rely on. The
movable option is the exception: it works inside its cellblock, and
`LocusMobilis` instantiates `LocusCarcerum` for the sweep, the split and the
words they lay. The formatters stand on one another in the code and in the
model: `VerbaLinea` and `NumerosScribo` on `VerbaScribo`, `Octetus` on
`Endian`.

Hazards, each at its line and with the property that would catch it going
wrong, are listed in `PROJECT.json`.

## 2. Plan

1. *Done:* `CarcerWord`, `CellStore`, `LocusCarcerum`: the allocator, the one
   part every context shares and the one whose interleavings no test enumerates.
2. *Done:* `LocusMobilis`: the movable option, its claims and its mover, over
   the cellblock's own sweep and split.
3. *Done:* `FifoQueue` and `MemoriaAnularis`, the ring shown to implement the
   queue; `ConfiniumExclusivum`, the other file translated on its own, load by
   load, and shown to take the ring's steps.
4. *Done:* `DmaChannel` and `PraetOrdo`: the poll against interrupts and the
   engine, the watchdog on a wrapping clock, each channel shown to implement the
   abstract one.
5. *Done:* the tools without a cellblock: `VerbaBitorum`, `VerbumScrutor`,
   `CellularumLaboro`, `VerbaScribo`, `VerbaLinea`, `NumerosScribo`,
   `MemoriaOperor`, `Endian`, `Octetus`, `Bitorum`, `Transformo`, each against a
   definition worked out another way.
6. Proofs. *Done:* the control of the cellblock, the boundary word (refused
   bytes in flight, no carry, the overruns, the word at rest), the geometry of
   the tiers, the cells held, and the refinement of `CellStore`; the channels of
   `PraetOrdo` and the refinement of `DmaChannel`; the ring, the refinement of
   `FifoQueue`, and that the twin file implements the ring; the movable
   option, its claims, its mover and its passes; the running totals of the
   cellblock, `InUseExact`; the lanes and masks of a word, `LanesAlone`; the moves
   and the scans of memory, and both byte orders, `BytesMoved`; the line,
   `LineKept`; rows of values, `AppendsWhole`; spans and the bit writer,
   `ReadsMirrorWrites`.
7. *Left to model:* the mover thread's reading of pressure (below), movable cells
   of the temporary tier.

No module that carries a theorem, or that one extends, uses a RECURSIVE operator.

## 3. The modules

| module | what it is |
|---|---|
| `CarcerWord` | the arithmetic of the bounds word at its width: rounding of a request, the bumps with carry and borrow, what counts as room, the settling subtraction |
| `LocusCarcerum` | the cellblock: one action per step between two atomic operations |
| `CellStore` | the abstract promise: a set of disjoint cells, each with an owner |
| `MCLocusCarcerum` | symmetry and view for TLC |
| `MCLocusLive` | `LocusCarcerum` with a bound on the calls of each context, and fairness |
| `LocusInvariantProofs` | lemmas: what one operation on the word does, at every width; least and greatest elements, sums, and the geometry of cells that tile two tiers; then the control invariant and the theorem about a writer alone; the whole inductive invariant, and what each kind of step does to the word, the tiers and a writer's cells; its preservation by every step, and the theorems; which cells are live, that every step is a step of `CellStore` or none, and the running totals |
| `LocusMobilisProofs` | the movable option's inductive invariant and its theorems, over the geometry of `LocusInvariantProofs` |
| `MemoriaAnularisProofs` | the ring's inductive invariant, its theorems, the queue it implements; the twin's link to the ring, step by step, and that every theorem of the ring holds of the twin |
| `PraetOrdoProofs` | the schedule's inductive invariant, its theorems, and the channels it implements |
| `VerborumProofs` | words of two, four and eight lanes: what carries and borrows do, every lane test and every mask; what every walk and every scan of memory does, for every region and word |
| `FluxusProofs` | values in either byte order; the bit writer's invariant and the span's, and what is read back of each |
| `InstrumentaProofs` | carries the two to the calls and answers of `MCInstrumenta`, whichever tool is at work |
| `TextusProofs` | the line's inductive invariant, and what is kept of a text that flush refuses; that a row is appended whole or not at all, for every list of fields and row |
| `LocusMobilis`, `MCMobilis` | the movable option: slots, claims, spans, the mover; its instance |
| `MemoriaAnularis` | the ring: stream, segments, loculi |
| `FifoQueue` | the abstract promise of the ring: a bounded queue of values |
| `ConfiniumExclusivum` | the second file, with locals and steps of its own, and what those locals are to a ring |
| `MCRings` | a ring worked through the entries of one of the two files |
| `PraetOrdo` | the DMA schedule: entries, poll, interrupts, engine |
| `DmaChannel` | the abstract promise of a channel: its states and what leads between them |
| `VerbaBitorum` | words as sets of bits, for the modules below |
| `VerbumScrutor` | lane and mask tests on a word of bytes |
| `CellularumLaboro` | string walks, searches, text to numbers |
| `VerbaScribo` | numbers and escaped text into a buffer |
| `LineaStatus` | a line under way, and what its parts owe each other |
| `VerbaLinea` | a line over a buffer and its flush |
| `NumerosStatus` | a buffer rows are appended to, and what its parts owe each other |
| `NumerosScribo` | rows of values against a list of fields |
| `MemoriaOperor`, `Endian` | moves and scans of memory; values in a byte order |
| `Octetus`, `Bitorum` | spans, views and the byte verbs; the bit writer |
| `Transformo` | the scaled mantissa and its roundings |
| `MCPura` | the calls asked of the stateless tools, and what their answers are held against |
| `MCFluxus` | the appends asked of a span and of a bit writer, and what is read back of them |
| `MCInstrumenta` | all tools under one specification |

### `LocusCarcerum`: state against the code

| variable | code |
|---|---|
| `bounds` | `series->bounds`: low half `end`, high half `top`, each modulo 2^H |
| `over` | `series->overrun[2]`, the two tiers' |
| `closed` | bit 0 of `series->closed`. Bit 1 (a sleeper) only picks how to wait, and is left out |
| `lane`, `waits` | `series->turnstiles` (external): who is badged in, and whom a drain under way still waits for |
| `cell` | the headers and owner words in the block, by offset of the header: payload size, busy or free, owner, completion bit |
| `inUse`, `persistentInUse`, `ownerInUse` | `series->in_use`, `series->persistent_in_use`, `CellOwner.in_use` |
| `pc`, `op` | where each context stands and its locals: kind of call, tier, rounded want, owner, offset, whether a give stood at its boundary |
| `seen` | which headers were already free when a writer settled (see the walk below) |
| `held` | what each caller was answered and has not given: the caller's side of the contract |
| `chain` | a history variable: where the two tiers of landed cells really end |

`chain` is read by `Rewind` alone, to pick a mark the code could have reported:
a program keeps the mark in a variable of its own.

### `LocusCarcerum`: actions against the code

* **Take, pass** (`carcer_attempted`, `carcer_passed`, `carcer_bumped`,
  `carcer_laid`): `Take`, `Enter`, `Permit` or `Miss`, `Ahead`, `BumpUp` or
  `BumpDown`, then `Lay`, `Leave` where the bump fitted, `Owe`, `Refused` where
  it did not. The fetch-add of the bump and the fetch-add on the overrun are two
  steps; another context may run between them.
* **Writer** (`carcer_shut`, `carcer_settled`, `carcer_spilled`): `Shut`,
  `Drain` (reads the lanes), `Settle` (the lanes it read are empty; the
  overruns come off), then the work and the store that clears the bit as one
  step: `SpillRun`, `SpillUp`, `SpillDown`.
* **Give** (`carcer_given`, `carcer_foot_claimed`, `carcer_trimmed`): `Give`
  reads the cell, its tier and whether it stands at the boundary; `Claim` sets
  the completion bit and counts off; `Freed` stores the header free;
  `TrimTaken` or `TrimSkipped`; `TrimUp` or `TrimDown` as a writer.
* **Growth** (`carcer_grown`): `Grow`, then `GrowUp`, `GrowDown`, `GrowRefused`.
* **Rewind** (`mmgr_temporary_buf_mark`, `carcer_rewound`): `Rewind`,
  `RewindBegin`, `RewindStep` for each cell, `Rewound`.

### `LocusCarcerum`: what is abstracted, and why that is sound

* **The walk of a writer is one step.** A writer works alone against passes,
  but gives need no pass: headers may go free while it walks. The step takes
  any set `free` between the headers free when it settled and those free when
  it stores (`ReadFree`), which covers each moment at which the walk may have
  read each header, since a header goes free only once and none goes busy
  beside a writer. A cell the walk read busy and that went free
  meanwhile stays in the chain as a free cell, as in the code.
* **The owner word, the header and the counts of a landed cell are one step**
  (`Lay`). Nobody reads a cell's words before its taker is answered, except a
  writer, and a writer waits for the lane. The counts are three atomic adds that
  nothing reads together.
* **The store that opens** is merged with the work it follows: the counts and
  headers are read by gives only, which read cells that their caller holds.
* Payload bytes and their zeroing, high-water marks, time stamps and backoff
  steps are left out: no branch of the allocator reads them. A backoff is a retry
  of the same guard.
* A give that names a stranger's cell, an owner other than its own, or a cell
  given already changes nothing in the code and is no step here.
* The block's base address does not appear: cells are named by offset.

### `LocusCarcerum`: assumptions

* `WordAssumption`, `CellblockAssumption`: the limits of `mmgr_config.h` and the
  static checks of c: (a half holds twice `MMGR_CARCER_BYTES_MOST`).
* Only a context that has the temporary tier to itself rewinds: h:1226 says that
  contexts sharing a cellblock give singly. A rewind beside another holder of
  temporary cells takes that holder's cells, by design.
* `HeadroomAssumption`: how many refused bumps a half may carry. Its first
  conjunct, for bumps up, is the lanes' count against the headroom above
  `MMGR_CARCER_BYTES_MOST`, which the code reads ahead of each bump. Its second,
  for bumps down, is about **contexts**: no read ahead limits them, and the test
  `fits_down <= size` alone refuses a top that wrapped. A program with more than
  (2^H - Size)/NeedMost contexts refused and not yet settled would wrap the top
  back into the cellblock. With H = 32 that is out of any program's reach; with
  H = 16 and a large block it is a few hundred.

### `LocusMobilis`

| variable | code |
|---|---|
| `bounds`, `closed`, `cell`, `inUse` | as in `LocusCarcerum`, the persistent tier alone |
| `inside` | the threads badged in whose pass read the bit clear: what a drain waits for |
| `byte` | the payload bytes, each the slot whose holder wrote it, or 0 |
| `slot`, `claimed`, `lowest`, `named` | `CarcerMovable.slot[].word`, `.claimed`, `.lowest`, `.named` |
| `pc`, `op`, `held` | the calls under way and the slots answered |
| `asked`, `wrote`, `still` | history, for the properties |

* **A take** (`mmgr_movable_buf_alloc`): `Alloc` out of the gap, or `Shut`,
  `SpillRun`, `SpillGap` as a writer; then the claim (`carcer_slot_claimed`):
  `Search` reads the words, `LowestBit` reads one again, `FetchOr` wins the bit or
  loses it, `Put` names the cell, `StoreLow` stores the start back, `Raise`
  raises `named`. A second loss ends in `GiveBack` and NULL.
* **A release** (`carcer_slot_given`): `Release`, `SlotCleared`, `BitCleared`,
  `Lowered`, then a trim (`Trimmed`, `TrimSkipped`).
* **Reads, writes, compares, measures**: `Read` or `Write` place the spans,
  `Copied` copies at the addresses placed before. A mover may stand at its
  drain in between.
* **The mover** (`mmgr_movable_buf_move`): `Move`, `MoveBegin`, then `Seek` picks
  the highest cell that may move, `MoveRefused` or `Moved`.

A take from the gap, a give of a cell and a sweep are single steps here.
`LocusCarcerum` takes them apart and shows that they act as one
(`ImplementsStore`, `Exclusive`). `in_use` is kept modulo `UseWrap`, which the run
that asks about it sets to a wrapping word and the other to 1. A writer's
loop over the slots ends because each refusal lowers both of its bounds; no
liveness property is stated for it. Left out: movable cells of the temporary
tier; the rows of touches and the count of passes; and `mmgr_movable_run`, the
thread that reads fragmentation and the count of passes to decide when to call
the move. The model calls it at any time, so whatever that thread decides is
among its behaviours.

### `MemoriaAnularis`, `ConfiniumExclusivum`

The variables carry the names of `RingState` and its header fields; `prod`,
`cons` and `holder` are the locals of one producer, one consumer and the
contexts that hold loculi. Loads and stores of the atomics are steps of their own
and a copy is a step per byte (`MoveIn`, `MoveOut`, the fill of a segment), so
the two copies interleave at every point. `PutDone`, `ReadDone`, `SegPublish`
and `SegRelease` publish. `claimed` and `released` wrap at `2^Width`. `use` says
which view a ring's callers work: the code forbids mixing them on one
ring. A loculus is taken in the code's order, the two masks loaded apart
(`LoculusGratis`, `LoculusReady`), a bit named, the fetch-or (`LoculusHold`), then
the record's three plain stores one by one (`LoculusRecord`).

`ConfiniumExclusivum` is the second file translated on its own, and finer:
`filler`, `drainer` and `opener` hold the locals its functions declare (`h`, `t`,
`to`, `n`, `done`, `idx`, `mask`), and the cursors carry its names (`cap`, `nsegs`,
`seg`, `claim`, `rel`, `keep`). Each load of a cursor is a step (`infin_put` loads
the head, `infin_put_fits` the tail and decides); where the two loads are arguments
of one call (`infin_available`, `infin_vacant`, `infin_loculus_ready`) either may
come first. A move is the loop of two passes the file writes, with `to` or `from`
set back to 0 at the turn (`ring_move_in`, `ring_move_out`). A segment's index is
picked when the counter is loaded and turned into an address when it is used. The
views at its end say what these locals are to a ring of `memoria_anularis`: a call
that has loaded only its own side's cursor has done nothing yet, and one that has
loaded the other side's cursor first has, at that load, all it will be told.
`MCRings` puts the two side by side: a ring is worked through one file, and
for the second its `prod`, `cons`, `holder` and `keepout` are the views, so the
properties below are read off either. Left out: the readers of one word
(`loculus_keepout`, `seg_inflight`) and the word-wise copy loop under
`ring_move`, whose order inside a span nobody can see.

### `PraetOrdo`

| variable | code |
|---|---|
| `flags` | the flag word of a channel: its core state, its status bits, its region (`praet_tabula_vexillorum.h`) |
| `keepalive_deadline`, `settle_deadline`, `elapsed_micros` | the deadlines and the clock, modulo `2^Width` |
| `bound` ... `boundary_crc` | what recovery keeps of a channel's storage and of where its transfer got to |
| `set`, `busy` | the two volatiles of a context |
| `poll` | the locals of the poll under way |
| `wrote`, `moving` | the engine, which belongs to the port |
| `unkicked`, `clock` | history, for the properties: time since a sign of life; unwrapped time |

Each public entry is the action of its name (`adnectere`, `separare`, `relatio`,
`efficere`, `completed`, `resolve`, `advance_ticks`, `reset`). `praet_ordo_poll` is
`PollBegin` (progress of every running channel read and taken), then
`PollShort`, or `PollWalk`, a `Walk` per channel in order, and `PollEnd`. `raise`,
the one thing an interrupt does, and the engine's `Write` may come between any
two. The boundary word's checksum is the span it is taken of.

Taken from the headers: the application's entries run on one thread and not
inside a poll; an interrupt only raises; a port reports a completion from that
thread; the engine is stopped before a channel is resolved or the context
reset. What a port answers about progress is nothing, bytes, or whole words.

### The tools

`MCPura` asks the stateless tools one call at a time out of a set of inputs, and
holds each answer against a definition of the result that does not go through the
code's algorithm: bytes one by one for a word's lanes, a walk by bytes for a walk
by words, exact integers for a rounding, the printed text read back for a
printer. `VerbaLinea`, `NumerosScribo`, `Octetus` and `Bitorum` have state, and their
operations are asked in any order up to a bound. `MCInstrumenta` puts them under
one specification, one tool to a behaviour.

* Words are of four lanes (`VerbumScrutor`), two bytes (`MemoriaOperor`,
  `CellularumLaboro`) or six bits with a mantissa of two (`Transformo`), and the
  algorithms are parameterised by those widths. The constants of
  `VerbaScribo` keep every relation the code asserts among them.
* The lane tests `CellularumLaboro` calls are the sets of offsets they answer;
  that a lane's answer is its own byte's is `LanesAlone`.
* The vector forms of the walks, and builds with the assertions on, are left out:
  they compile to other code for the same answers. Entry wrappers that fill an
  argument record and macros that expand to a call are covered by what they
  call.
* `Endian` models the load of a little-endian target. `VerbumScrutor` is checked
  in both orders.
* Needles hold no terminator: the header says they are strings. The doubled
  product of a processor with a wide multiply is one exact product in `Transformo`.
* A map entry may span a function together with the comment block attached to
  it.

## 4. The runs

| run | instance | checks | shows |
|---|---|---|---|
| `carcer_shared` | 2 contexts, both tiers, gives and growths, 72 bytes | `TypeOK NoOverlap NoHole HeldIntact ImplementsStore` | the chains of both tiers, disjoint and without holes; a held cell untouched by others; `CellStore` implemented |
| `carcer_rewind` | 2 contexts, one with the temporary tier, 528 bytes, wants below and above `WantMost`, 2 owners and a stranger, 1 lane | `InUseExact RestsQuiet` | each byte counted off once; boundaries at rest whenever nobody is in a call |
| `carcer_three` | half of 256, 3 contexts over 2 lanes, no slack in `HeadroomAssumption` | `Exclusive Overran NoCarry` | refused bumps piled up while others land: a writer alone, the overruns account for every refused byte, no carry at the very limit |
| `carcer_live` | 2 contexts, 1 lane, 3 calls each | `EveryCallEnds` | no lane, bit or drain is left held |
| `carcer_idle` | violation | `AllBackReadsIdle` | finding 1 |
| `carcer_tier` | violation | `PersistentInUseExact` | finding 2 |
| `ring` | every ring `init` lays over up to 4 bytes, counters of 3 bits, 2 holders of 2 loculi | `TypeOK CopiesApart SnapshotsHold KeepoutHolds ImplementsFifo` | stream and segments are a bounded queue across every wrap; the two copies never meet; a loculus has one holder; through either file, the second load by load. A stream or loculi never look at the division into segments, so `OneDivision` takes one for them; rings of segments are checked in every division |
| `ordo` | 2 channels of 3 bytes, words of 2, a window of 1 microsecond | `TypeOK NothingMissed StalledHonestly WritesHeld MeasuredTold ImplementsChannel DetachEnds` | a dropped raise is made good; a stall, a measure and a detach tell the truth; the engine never writes given-up storage; a detach ends |
| `ordo_wrap` | violation: 1 channel, a clock of 3 bits | `StalledHonestly` | finding 3 |
| `mobilis` | 2 threads, one of them moving, 2 slots each in a claim word of its own, 3 cells | `TypeOK SlotsExclusive SlotsNameCells Tiled ContentKept SpanStands MovesDown Exhausted` | claims race without losing or sharing a slot; a moved cell keeps what was written; no mover under a copy; what could move moves |
| `mobilis_inuse` | violation: 3 slots, `in_use` counted | `MatchedPairs` | finding 4 |
| `instrumenta` | the tools, one to a behaviour | `LanesAlone StringsRight NumbersRight PrintedReadsBack BytesMoved RoundsOnce LineKept AppendsWhole ReadsMirrorWrites` | the answers of the stateless tools; lines, rows, spans and bit buffers whole after refusals and overflows |

Every property of a passing run has a mutant of the code's step that breaks it
(`PROJECT.json`).

**Bounds.** *Cellblock.* Two contexts produce every pair of steps; the third in
`carcer_three` is there for a refused bump standing on the word while a second
lands and a third drains. 72 bytes hold three small cells or a small and a large
one, so neighbours, a hole between cells, a run too small to split, the
two tiers meeting exactly, and refusals on either side all occur. The offsets
are in the code's units (a header of 16, alignment 8), so that a run a few
bytes too large for a want exists. 528 bytes with requests of 240 and 264 put a
want on either side of `WantMost`. The word of `carcer_three` has the widths
scaled down and the inequality kept: with one more context or a request eight
bytes longer the assumption fails.

*Ring.* Four bytes wrap after two puts and hold spans that are split by the wrap;
three bits of counters wrap twice as far out as the segments do. *Schedule.* Two
channels give a walk that has passed one when a raise lands; three bytes in words
of two end inside a word; `ClockMost` lets a window run out and another begin, and
in `ordo_wrap` reaches past the clock's wrap. *Movable option.* With a claim word a
slot, a search may find its word filled and go round; three cells give
a hole below, a cell that fits it and one that does not, and one beside the
end. *Tools.* Strings of up to six bytes and words of two leave a head, whole
words and a tail; lines of zero, one and three bytes break inside every kind of
entry; a span of four overflows under a width of seven, one of eleven does not. The
numbers put in a span are small enough to serve as the length of a run that is all
there (3, after it), or too large for any (2^9, 2^16), so that a read of a run both
takes its bytes and refuses; seven bytes are a width stored in pieces of four, two
and one.

**Symmetry and view.** Contexts with the same rights are interchangeable: no
action or property orders them. `carcer_live` uses no symmetry. The view drops
`persistentInUse`, which drifts (finding 2) and which nothing reads.

**Fairness.** `LiveSpec` gives weak fairness to each context's steps inside a
call: a scheduler that runs every context. It gives none to beginning a call,
and bounds the calls each context makes: a fetch-or owes a context no turn while
others take the bit for ever, so without the bound "every call ends" is false of
the code and of any lock built this way. `PraetOrdo!Spec` gives weak fairness to
the poll: praet_ordo.h asks the application to call it over and over, and a
poll begun runs to its end. Nothing is asked of interrupts, engine or clock, so
`DetachEnds` holds of a port that never answers.

**Deadlock** is not checked in the runs whose cfg says so: contexts that used up
their calls, a clock at `ClockMost`, a stateless tool that has answered all stop.

## 5. Findings

Shown by a run:

1. `carcer_idle`. The note of `carcer_trimmed_held` says a cellblock whose every
   cell went back reads idle. Two gives of neighbouring cells can leave the end
   above a tier of free cells: the lower reads that it is not at the boundary,
   the upper trims while the lower is still busy, the lower is stored free with no
   trim to follow. The next writer's walk takes the bytes back; until then
   the boundary reads in use.
2. `carcer_tier`. `persistent_in_use` is documented as the part of `in_use` in
   the persistent tier. A give reads its cell's tier off the raw end, which
   stands past the chain while a refused bump is unsettled: a temporary cell
   then reads as persistent and its bytes come off the wrong total, below zero.
3. `ordo_wrap`. The note of `PRAET_KEEPALIVE_MICROS` says a word's width is no
   problem to a short window. Deadlines are compared as plain words: a transfer
   submitted within its window of the clock's wrap gets a deadline that wrapped,
   and the next poll marks it stalled at once.
4. `mobilis_inuse`. A matched take and release is documented to return `in_use`
   to where it stood. A moved cell that landed on a run too small to split keeps
   the whole run in its header and the count its old size: its give takes off
   more than its take put on.

Met while modelling, without a run of their own. Each is either a hazard with a
note in `PROJECT.json`, or what the wording of a property leaves out:

* `praet_ordo_commotus_est` does not round a sample that stands on a word
  boundary, though praet_ordo.h:508 says it can be a word behind
  (praet_ordo.c:573).
* Negative powers of ten come from a truncated table, so an exact tie scaled down
  reads as a little under: 9007199254740995.0 ends in 4 where the tie should go
  to even (transformo.c:350). `RoundsOnce` states what does hold.
* `muto_scale_to_u64` adds its rounding half to a whole that may be all ones, and
  the sum wraps to 0 (transformo.c:503).
* After an append that did not fit, the cursor verba answers stands past the
  capacity; given back as the next call's cursor, `numer_abandon` ends the string
  there (numeros_scribo.c:154). `NumerosScribo` begins each call inside the buffer.
* A flush refused by an untouched line leaves its buffer as the program handed it
  over, so the line is not a string yet (verba_linea.c:99); hence `touched` in
  `LineKept`.
* `memor.move_down` is `cpy` over `restrict` pointers, and the growth of a temporary
  cell calls it on a payload that overlaps itself (memoria_operor.c:78, c:1455).
  The model gives it the order its loop has, which is right for a move down.
* A take whose claim lost twice answers NULL with slots free (c:1673), against
  h:1403.
* An exponent stops taking digits once it is past `MMGR_MUTO_EXP_LIMIT`, so a text
  with thousands of zeros after the point and an exponent that makes up for them
  reads as 0 (cellularum_laboro.c:1451).

## 6. Proofs

Assumptions used, each named where the constants are declared and evaluated by TLC
on every run: `WordAssumption`, `CellblockAssumption`, `HeadroomAssumption` for
the cellblock; `RingAssumption` for the ring, with `EvenAssumption`, that `init` may be handed no segment size, for the
two files together; `OrdoAssumption` for the schedule;
`CapsAssumption` for spans and writers: their capacities are numbers; `LineaAssumption` for the line;
`RowsAssumption` for rows of values: a buffer of at least one byte, and literals
and pieces of values that hold no terminator;
`WordAssumption` and `MobilisAssumption` for the movable option, the second with
the cellblock's headroom for one lane and a header of two words; and for the
ring, the schedule and the line a `PowersAssumption`: that 2^`Width` is a number
above 0, for the ring that a segment count that is a smaller power of two divides
it, and for the line what the powers of 2, 10, 16 and 100 are that its digits are
worked out with. These are plain facts, stated only because no prover here knows
powers. One theorem has a hypothesis, `ShortOfWrap`: the clock
stays a window short of its wrap. Past it `StalledHonestly` is false, as
`ordo_wrap` shows. The theorems about words and memory have `LanesAssumption` or
`WordBytesAssumption` as hypotheses, the sizes of word the code has, and
`InstrumentaProofs` shows both of the sizes that `MCPura` uses.

| theorem | property | says |
|---|---|---|
| `ExclusiveHolds` | `Exclusive` | a writer that has drained works alone |
| `TypeOKHolds` | `TypeOK` | types, and the width of the word |
| `NoOverlapHolds` | `NoOverlap` | cells and claims share no byte, each in its tier |
| `NoHoleHolds` | `NoHole` | each tier is tiled by its cells |
| `OverranHolds` | `Overran` | the word is the chains and the overruns, exactly |
| `NoCarryHolds` | `NoCarry` | a bump up leaves the top's half alone |
| `RestsQuietHolds` | `RestsQuiet` | with no call under way, nothing is owed |
| `HeldIntactHolds` | `HeldIntact` | a cell held is untouched by others' steps |
| `StoreImplemented` | `ImplementsStore` | every step of the cellblock is a step of the abstract store, or none |
| `InUseExactHolds` | `InUseExact` | the running totals are the payload of the cells taken and not counted off |
| `TakenApart` | (`StoreInv`) | from the promise alone: cells taken are disjoint and each is someone's |
| `MemoriaAnularisProofs!Invariance` | (`RingInv`) | the ring's inductive invariant |
| `MemoriaAnularisProofs!TypeCorrect` | `TypeOK` | ranges, and no loculus bit lost |
| `SnapshotsStand` | `SnapshotsHold` | room and bytes once read are still there |
| `KeepoutStands` | `KeepoutHolds` | a loculus has one holder and keeps its record |
| `CopiesNeverMeet` | `CopiesApart` | the two sides' copies share no byte |
| `RingImplementsFifo` | `ImplementsFifo` | the stream and the segments are bounded queues |
| `TwinIsRing` | (`Spec`) | every load, pass and store of the second file is a step of the ring, or changes nothing of it |
| `BothFilesKeep` | `ImplementsFifo` | so a ring through either file is the bounded queue, and keeps the four invariants |
| `PraetOrdoProofs!Invariance` | (`OrdoInv`) | the schedule's inductive invariant |
| `PraetOrdoProofs!TypeCorrect` | `TypeOK` | ranges, and a detached channel's word is bare |
| `WorkFound` | `NothingMissed` | a poll cut short would have changed nothing |
| `EngineInside` | `WritesHeld` | the engine writes only storage its channel holds |
| `MeasureIsOfTheTransfer` | `MeasuredTold` | a measure told is of the transfer that stalled |
| `StalledAfterWindow` | `StalledHonestly` | a stall follows a whole window without progress, short of the clock's wrap |
| `ContextImplementsChannels` | `ImplementsChannel` | every step is a step of each channel's state machine, or none |
| `MobilisInvariant` | (`MobilisInv`) | the movable option's inductive invariant |
| `ClaimsExclusive` | `SlotsExclusive` | a slot and its bit have one taker |
| `NamesHold` | `SlotsNameCells` | a slot held names its taker's cell, and nobody else's does |
| `ContentStays` | `ContentKept` | what was written stays, moved or not |
| `SpansStand` | `SpanStands` | no mover works under a pass |
| `TilingStands` | `Tiled` | the cells tile the tier through every move |
| `MobilisTypes` | `TypeOK` | ranges of words, slots and addresses |
| `MovesOnlyDown` | `MovesDown` | a cell moves down only, with everyone out |
| `MoverExhausts` | `Exhausted` | a move that moves nothing had nothing to move |
| `LanesAnswered` | (`LaneWanted`) | each lane's answer is its own byte's, whatever the bytes beside it |
| `MasksAnswered` | (`MaskWanted`) | a mask is counted, searched, cut and run together as the set of its lanes |
| `LanesAloneAlways` | `LanesAlone` | the two of them, at every answer, in both byte orders |
| `CpyMoves`, `MoveUpMoves`, `ReadMoves` | (`MoveWanted`) | each byte of the destination is what the source held, overlap included, and no other byte changes |
| `CmpFinds`, `ChrFinds` | (`CmpWanted`, `ChrWanted`) | a scan by words answers the first byte that differs, or that is the one sought |
| `OrdersReadBack` | (`E!RdLe`, `E!RdBe`) | a value written in either byte order reads back in it, kept to its width |
| `BytesMovedAlways` | `BytesMoved` | moves, fills, scans and byte orders, at every answer |
| `BitsMirrorHolds` | (`BitsMirror`) | the bits written are the bits asked; a put that does not fit is dropped whole |
| `ReadsMirrorWritesAlways` | `ReadsMirrorWrites` | what is appended reads back in order; what does not fit changes nothing |
| `LineKeptHolds` | `LineKept` | what flush took and the buffer holds is what the entries said |
| `AppendsWholeHolds` | `AppendsWhole` | the buffer holds the whole text of every call that reported one and nothing of the others |

They hold for every finite set of contexts, every number of lanes and owners,
every set of requests, and every alignment, header and width of the word that
meets the assumptions; for every capacity, segment, counter width, set of holders
and number of loculi of a ring; for every set of channels, lengths, offsets,
windows and clock of a schedule; for every set of threads, movers and users, every
number of slots and width of a claim word; for every word of two, four or eight lanes,
the sizes the code has, in either byte order; for every memory and region and words
of 2, 4 and 8 bytes; for every value of 64 bits at every address; for every capacity
of a span and of a bit writer; for every capacity, bound and buffer of a line. `LanesAlone`, `BytesMoved`
and `ReadsMirrorWrites` speak of the calls that `MCPura` and `MCFluxus` ask; the
first is about words of four lanes, the second about words of two bytes, and the third
about runs of any length and capacities of any size, with `SpanNext`'s appends and
`BitNext`'s puts. The lemmas under them about lanes, moves, byte orders and the put
of bits are about every call.

### The cellblock

**The inductive invariant.** None of the properties is inductive. `IInv` of
`LocusInvariantProofs` is the conjunction of

* `ControlInv`: the closed bit has one holder, a pass stands in its lane, a drain
  under way waits for every pass that read the bit clear. It gives `Exclusive`.
* `TypeInv`, `OpInv`: types, and which locals go with which step of which call.
* `WordInv`: each boundary stands past its chain by refused bytes (`UpOwed`,
  `DownOwed`), and these are the overrun and the needs of the bumps between
  their two atomic steps, summed. While any are owed the word shows no room.
  The end is bounded by the lanes, the top by the contexts; those two lines are
  why `HeadroomAssumption` has its two conjuncts. A context at work finds
  nothing owed.
* `TierInv`: the cells laid and the claims not yet laid, taken together
  (`Full`), tile the two tiers.
* `HeldInv`: a cell a context holds, or is giving, is laid, busy, nobody else's
  and in a tier its context may use.
* `MarkInv`: a rewind's mark and its walk stand where a cell begins.

**The argument.** A fetch-add returns the one word it moved. If that word
leaves room then nothing is owed (`WordInv`), so what it claims lies exactly
between the two chains, and the tiers stay tiled. If it leaves none, its bytes
are owed until its writer settles them. The drain makes sure that no bump is
between its two steps when a writer settles (`ControlInv`), so the sums leave
just the overruns, and these come off. From there the writer works on a plain
sequential structure: each of its last steps is shown to leave `Worked(c)`,
which says the tiers are tiled, the word is at the chains, and the cells of the
others are as they were. The geometry of sweeping, splitting, trimming and
growing opens `LocusInvariantProofs` and speaks of any set of cells, not of states.
The sets a walk read free in `ReadFree` are arbitrary there, so the proof covers
every moment at which a give may have gone past the walk.

`RestsQuietHolds` needs one thing more, `DebtInv`: bytes owed at the end always
have a refused taker on its way to settle them.

**The refinement.** `ImplementsStore` maps a state to its live cells: laid, with
an owner and the completion bit clear. What `IInv` lacks for it is what the bit
means. `SpentInv`: a free cell's bit is set or it has no owner, a give sets the
bit before it frees the header, a growth's owner is its cell's, and behind a
rewind's walk every bit is set. `HeldLive`: the bit of a cell a context holds is
clear, but inside its own rewind behind the walk. TLC checked both over every
state of the instances of `carcer_shared` and `carcer_rewind` before they were
proved. Each step is then one of four moves of the live cells: `Stays`, `Gives`
one, `Takes` one clear of the others, `Grows` one over bytes that were free. A
sweep or a split stays, since it merges and cuts free cells alone; a growth needs
the two cells beside each other to be disjoint from every other, which the tiling
gives. With `TakenApart` this is the promise to a user of the cellblock, whatever
the interleaving.

**The totals.** Each move also says what it counts: a give its cell's payload off,
a take its cell's on (the whole of a run too small to split), a growth the
difference, and a stay nothing (`Moves`). `UseInv` says that `inUse` is the sum
over the block of what each live cell weighs, and each owner's total the sum of
its own; one move changes one weight, or two, so the sums follow. `InUseExact`
states the totals as folds. That a fold is such a sum would be an induction over
the set; `FoldIsSum` takes a smallest set of offsets on which the two differ
instead, which loses an element and differs still.

A sum, over contexts or over the block, is stated by a witness (`SumIs`: some
function on the subsets adds the weights up), so that one weight's change is
followed without an induction over the set.

### The ring

`RingInv` is `Types`, `Views`, `Streaming`, `Segmented` and `Pinned`; TLC checked it
on the 1,208,697 states of the instance of `ring`, as part of `RingsInv` below. `Views` keeps a ring to the
view its callers work. `Streaming` says that what a side was told (`promise`,
`seen`) still stands, since the other side can only have added to it; that a copy
under way is of bytes the other side leaves alone; and that the bytes copied so
far are the ones that lie there. `Segmented` says the same of a segment being
filled, which is not in flight, and of the one in front, which is; its two
counters are compared modulo `2^Width`, and the lemmas about their distance hold
of any modulus that the segment count divides. `CopiesApart` and the refinement
follow from the two. `Pinned` ties a loculus's bit to its one holder, and each
store that the holder has made to the record. The refinement maps a ring to the
values from its tail to its head; a put or a take shows up at its store, and a
byte of a copy changes what neither mapping reads yet.

`TwinIsRing` is a refinement: `ConfiniumExclusivum` shares the ring's bytes,
counters and masks and nothing else, and has steps the ring has not. `Link` ties its
locals to the ring's. `FillerLink` and `DrainerLink` say that what a call has loaded
of its own cursor still stands there, and, by `InRun`, where a move in its first or
second pass is: `RunStep` shows that the byte it moves next is the one the
ring's two runs have next (`RunAt`), which fails if a pass does not turn to the
buffer's first byte. `OpenerLink` says which masks and indices a context
can hold. From `RingsInv`, `Link` beside `RingInv`, each action is a step of one
ring action or a stutter: a load of one's own cursor is a stutter, a load of the
other side's is the ring's step, whichever of the two came first, and the second
load then adds nothing because only its own side moves that cursor. TLC checked
`RingsInv` on every state of `ring`. `BothFilesKeep` follows.

### The schedule

`OrdoInv` is `Types`; `Held` of each channel, which ties its flag word to what is kept
beside it: the engine moves while the core is busy and then inside the storage
bound, a stall is of a busy channel, a measure of the transfer that was resolved;
and `Walked`, which says of a channel that a poll's walk has passed, or that no
raise has asked a walk for, that a walk would leave it as it is (`Quiet`). A raise
may land between any two steps of a poll and only takes from what `Walked`
claims. `StallInv` adds the clock: a running channel's deadline is a window
after its last sign of life, as plain numbers, which is where `ShortOfWrap` is
needed. The refinement maps a flag word to the state of `DmaChannel`; each
action changes one channel by one arrow, or none.

### The movable option

None of its properties is inductive alone: that two slots never name one cell
needs the cell a take has and no slot names yet, and that a copy's address stands
needs to know who is inside. `MobilisInv` is the conjunction of

* `Types`; `Control`: the closed bit has one holder, `inside` is the threads
  between their badge and their leave, and a mover works with nobody inside;
* `Lies`: the cells tile the tier up to the end;
* `SlotsExclusive`, `NamesApart`, `ContentKept`: a slot and its bit have one
  taker, a slot that names a cell has a taker and the cell no other name, and
  what was written is there;
* `Called(t)`, for each thread: which locals go with which step of which call,
  and that the addresses a copy placed are those its slots hold;
* `Celled(t)`: every slot a thread has named is its own busy cell with room for
  what was asked; a take's unnamed cell is busy, its own and under none of these;
  a cell being released is free before its slot is cleared;
* `Passed(t)`: until a move has moved something, no cell at or above `below`, or as
  large as `refused`, has a run below it that holds it, and the slot picked is the highest
  of those that may move.

TLC checked it on the 1,175,222 states of the instance of `mobilis`, and on the
4,277,732 of another with three slots, claim words of two bits, two movers and a
cellblock of 16 bytes.

The tier is `LocusCarcerum`'s, and `LocusInvariantProofs` is instantiated for what a sweep,
a split and a laid cell leave tiled: no geometry is proved twice. What is new is
what those leave to the **names**: a sweep and a split keep every busy cell where
it is, so a claim can be followed through any of them (`Keeps`, `Lets`); a move lays
the same cell at one free place below and frees the one it came from
(`MovesTo`), which changes one slot and bytes of nobody else's. Each property of the
invariant is then followed by the step that may disturb it; the other threads'
parts stand because each step changes its own thread's locals alone.

`MoverExhausts` is the property a reviewer would argue about: the code lowers two
bounds at a refusal and never looks at the cells above them again. It holds
because the highest is picked: the cells above it have been refused before, and a
cell as large that stands lower has below it only runs that the refused one had
below it too, none of which held it.

### Lanes and masks

A lane test works on a whole word: it adds or subtracts a byte repeated in every
lane and reads each lane's high bit. The hazard is a carry or a borrow that
crosses into the next lane. `VerbaBitorum` gives a sum by its bits: a bit is the
exclusive or of the two and of whether some lower place carries and every place
between passes it on (`Carries`), and a difference the same way (`Owes`). Both are
questions about sets, so no power of two as large as a word is needed. A minuend
with every high bit and a subtrahend with none owes nothing past its lane
(`MinusIs`), a sum of seven bits and seven bits carries nothing past its own
(`HasZeroIs`), and what is left is a question about two bytes, worked out bit by bit
(`Difference`). A mask is a set of lanes, the high bit of each. The marks below the
lowest are those that taking one away turns over (`OneLess`), the highest is what a
smear by doubled shifts ends at (`SmearIs`), a run is followed by the offsets at which
so many marks stand in a row (`Starting`), and a count is a sum of shifted masks
whose lanes never pass eight, so that none reaches the next (`CountIs`).

`InstrumentaProofs` carries this to `MCPura`, which instantiates `VerbumScrutor`
twice: that the operators of two instances are the same is proved name by name
(`LittleLanesSame` and its kin), then an answer's invariant over `Spec` says
which call was made and that the answer is the operator's.

### Memory

A walk is a sequence of pieces, each loaded whole before it is stored, and `Copied`
is a recursive function over them. What it computes is said in one formula,
`Moved`: after the first n pieces, the bytes of those hold what the source held at
the start, as long as no piece is loaded from bytes an earlier one stored
(`Unspoilt`). That the function is this formula would be an induction; instead the
least n at which the two differ is taken, and there is none. The walks themselves
are judged by their order alone: pieces that tile the region upward (`Rises`) are
unspoilt when the destination is not above the source, downward (`Falls`) when it
is not below; words, singles, blocks of four and reversed walks rise or fall by
what they are made of. A scan is judged by its words: they tile the extent, so the
earliest lane of the earliest word with a hit is the first hit.

A value in a byte order is a set of bits, and a load or a store of a width is one of
its bytes at each address (`LaidAt`). `OrdersReadBack` needs that the bits of a
byte's number are those it was made of (`BitsOfNumber`), and that turning the bytes
round twice is nothing (`RevTwice`). `BytesMovedAlways` adds the fill and
states all of it at the answers.

### The bit writer and spans

`WriterOk` ties a bit writer to the bits poured into it: each byte written holds
eight of them, the residue the ones left over, and the bytes beyond are untouched. A put
finishes the residue's byte, stores whole bytes and keeps a rest; the k-th byte it
stores is `Came`: bits of the residue below and of the value above, shifted by what was
waiting. A put that would pass the capacity is refused before it stores, and `overflow`
stays set, so `WriterOk` then asks for nothing but what was stored.

`SpanInv` says of a span that every append asked lies where the sums of the lengths
before it say (`Starts`, `Holds`), or that its cursor is past its capacity and no
read succeeds; a number in a field stands alone (`Meant`). Widths that are not a
machine's own are stored and loaded in pieces of four, two and one byte
(`Piecewise`, `Gathered`): `BeStored` and `GatheredIs` say of the widths asked what
each byte of the pieces is. `ReadsMirrorWrites` reads everything back: each view
after n takes stands at the n-th sum (`Stands`), which would be an induction over n
and is done by a least n that fails; and how many bytes a run has is the number its
length of four bytes spells (`Worths`).

### The line

`LineInv` says of every state between two pieces of an entry: while the line has
room, the bytes flush took followed by those before the offset are what the
entries said and the part of the one under way that was put (`Open`), none of them
is a terminator, and a terminator stands behind them once anything was written; a
line that is full reads that same text up to its first terminator (`Reads`), has
`flushed` at what flush took, and lets no entry under way have begun. `LineKept`
speaks only of the states between entries, and is not inductive: it says nothing
of an entry half put. A capacity of 0 or 1 is where a line is full or one byte
from it before anything is written, which is why `Small` has steps of its own. The
numbers the entries write are shown to have no zero byte, from the digits each
one is made of. TLC checked `LineInv` on 372,977 states of a line of up to four
bytes and six asked before it was proved.

### Rows of values

`RowInv` says that the buffer holds what the calls were asked for, terminated, that
the byte past it is untouched, and that a cursor is 0 or where the string ends; so
a call that measures the string and one that goes on from the cursor begin at the
same byte. What a call does is four folds one in another: a row's values, a
value's pieces, and the text of each. `Grown(b, o, e, text)` is said of every stage of
all four: the first e bytes are those the call found, and unless the offset stands
at the capacity, text and nothing else follows them. A piece grows the buffer by
itself or runs it over for good (`PutNGrows`); so do a value (`PutGrows`) and a row
(`RowGrows`); and then the terminator at byte e takes back whatever a call that
failed has written, and at the offset ends what one that did not has. That each
fold exists, and that what holds of one stage holds of the next and so of the last,
are `Stepped` and `Climbs`, by a least stage that fails. The text of a value is
whatever `Pieces` says it is; that numbers are printed right is `NumbersRight` and
`PrintedReadsBack`, which TLC checks.

## 7. Model-checked only, and not modelled

* Liveness (`EveryCallEnds`, `DetachEnds`): under fairness, out of the prover's
  reach.
* What finding 4 says of the movable option's totals: a violation has no theorem.
* `StringsRight`, `NumbersRight`, `PrintedReadsBack` and `RoundsOnce`: walks over
  strings, digits and powers against a definition worked out another way. What they
  answer is a recursion over a text or over powers of ten, and products of two
  unknowns; no induction theorem can be instantiated here, and the least
  counterexample that takes its place elsewhere would have to be carried through
  each of their loops. The run checks them over its inputs.
* The four findings with a run are violations of what the documents say.

Not modelled:

* `memoria_externa`: a comparison to place a block and an index of two that flips
  for one caller; nothing to interleave and no state a step could leave wrong.
  `confinium_externum` is an older copy of it that the build leaves out.
* `praet_descriptor` and the hooks of the ports: layout and weak defaults; what
  the schedule reads of a port is an input of `PraetOrdo`.
* The tables (`ascii_persona_bitorum`, `impensa_ancorae_acus`, `pow5.h`): generated
  data. `Transformo` builds its own table of powers the way the generator
  truncates it.
* Configuration and types; the turnstiles' own source, which is not in the
  repository; the Lean document.
