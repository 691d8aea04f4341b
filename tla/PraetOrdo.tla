------------------------------- MODULE PraetOrdo -------------------------------
(***************************************************************************)
(* praet_ordo.c with PRAET_RECOVERY on: the flag word of every channel,    *)
(* its keepalive window, the one settle timer and the two volatiles of a   *)
(* context.  The application's entries run one at a time on its thread;    *)
(* the poll walks a channel a step, and an interrupt raises set between    *)
(* any two steps.  The engine moves bytes by itself, and its port reports  *)
(* outside the poll, from the thread.                                      *)
(***************************************************************************)
EXTENDS Integers, FiniteSets

CONSTANTS
  Channels,        \* below PRAET_CHANNELS
  Regions,         \* region descriptors an attach states
  Extent,          \* bytes of the pool a channel is attached over
  Offsets, Lengths, \* what a submit names of it
  Word,            \* sizeof(embed_word), in the bytes a transfer is counted in
  Width,           \* EMBED_WORD_BITS: the clock and its deadlines wrap here
  ProgressWidth,   \* bits of what praet_hw_progress answers
  SettleMicros,    \* PRAET_SETTLE_MICROS
  KeepaliveMicros, \* PRAET_KEEPALIVE_MICROS
  TicksPerMicro,   \* PRAET_TICKS_PER_MICRO
  Answers,         \* what declarations answer about the boundary word check
  Ticks,           \* differences of the counter a port passes
  ClockMost        \* bound: microseconds a context runs for

ASSUME OrdoAssumption ==
  /\ Channels \subseteq Nat /\ Offsets \subseteq Nat /\ Lengths \subseteq Nat
  /\ Extent \in Nat /\ Word \in Nat \ {0} /\ Width \in Nat /\ ProgressWidth \in Nat
  /\ SettleMicros \in Nat /\ SettleMicros < 2 ^ Width
  /\ KeepaliveMicros \in Nat \ {0} /\ KeepaliveMicros < 2 ^ Width
  /\ TicksPerMicro \in Nat \ {0} /\ Ticks \subseteq Nat /\ ClockMost \in Nat
  /\ Answers \subseteq BOOLEAN

(* Arithmetic that holds of every width, stated because no prover has powers. *)
ASSUME PowersAssumption == \A width \in {Width, ProgressWidth} : 2 ^ width \in Nat \ {0}

VARIABLES
  flags,              \* per channel: [core, statuses, region]
  keepalive_deadline, settle_deadline, elapsed_micros,
  bound, bound_bytes, start, length, position, boundary_crc,
  word_boundary_crc,  \* as the declaration answered
  set, busy,          \* the two volatiles
  poll,               \* the poll in progress: [pc, moved, settled, left]
  wrote, moving,      \* the engine: bytes written of this transfer; whether it runs
  unkicked,           \* microseconds since a running channel last showed life
  clock               \* microseconds since the context started, unwrapped

timers == <<keepalive_deadline, settle_deadline, elapsed_micros, unkicked, clock>>
recovery == <<bound, bound_bytes, start, length, position, boundary_crc>>
engine == <<wrote, moving>>
vars == <<flags, timers, recovery, word_boundary_crc, set, busy, poll, engine>>

Cores == {"SEPARATUS", "ADNEXUS", "BUSY", "OK"}
Statuses == {"CLAIMED", "SETTLING", "SEPARANS", "ERROR", "STALLED",
             "ABANDONED", "SCRUBBED", "MEASURED"}

(* Mutant of TransferStatuses: the list forgets one. *)
TransferStatusesForgot == {"ERROR", "STALLED", "ABANDONED", "SCRUBBED"}

(* PRAET_TRANSFER_STATUSES: what a submit takes off. *)
TransferStatuses == {"ERROR", "STALLED", "ABANDONED", "SCRUBBED", "MEASURED"}

Detached == [core |-> "SEPARATUS", statuses |-> {}, region |-> 0]
Null == -1             \* no address, and an offset into the pool otherwise
NoSpan == <<0, 0>>     \* nothing was measured

Later(micros) == (elapsed_micros + micros) % (2 ^ Width)

Plus(word, statuses) == [word EXCEPT !.statuses = @ \cup statuses]
Without(word, statuses) == [word EXCEPT !.statuses = @ \ statuses]

Init ==
  /\ flags = [ch \in Channels |-> Detached]
  /\ keepalive_deadline = [ch \in Channels |-> 0]
  /\ bound = [ch \in Channels |-> Null] /\ bound_bytes = [ch \in Channels |-> 0]
  /\ start = [ch \in Channels |-> Null] /\ length = [ch \in Channels |-> 0]
  /\ position = [ch \in Channels |-> 0] /\ boundary_crc = [ch \in Channels |-> NoSpan]
  /\ word_boundary_crc \in Answers
  /\ settle_deadline = 0 /\ elapsed_micros = 0
  /\ set = FALSE /\ busy = FALSE
  /\ poll = [pc |-> "none", moved |-> FALSE, settled |-> FALSE, left |-> {}]
  /\ wrote = [ch \in Channels |-> 0] /\ moving = [ch \in Channels |-> FALSE]
  /\ unkicked = [ch \in Channels |-> 0] /\ clock = 0

----------------------------------------------------------------------------
(* The entries.  A call that a guard refuses changes nothing. *)

(* praet_ordo_reset, where the engine is at rest; it does not ask. *)
reset ==
  /\ \A ch \in Channels : ~moving[ch]
  /\ flags' = [ch \in Channels |-> Detached]
  /\ keepalive_deadline' = [ch \in Channels |-> 0]
  /\ bound' = [ch \in Channels |-> Null] /\ bound_bytes' = [ch \in Channels |-> 0]
  /\ start' = [ch \in Channels |-> Null] /\ length' = [ch \in Channels |-> 0]
  /\ position' = [ch \in Channels |-> 0] /\ boundary_crc' = [ch \in Channels |-> NoSpan]
  /\ settle_deadline' = 0 /\ elapsed_micros' = 0
  /\ set' = FALSE /\ busy' = FALSE
  /\ unkicked' = [ch \in Channels |-> 0] /\ clock' = 0
  /\ UNCHANGED <<word_boundary_crc, poll, engine>>

adnectere(ch, region) ==
  /\ flags[ch].core = "SEPARATUS"
  /\ settle_deadline' = IF Later(SettleMicros) > settle_deadline
                        THEN Later(SettleMicros) ELSE settle_deadline
  /\ flags' = [flags EXCEPT ![ch] =
       [core |-> "ADNEXUS", region |-> region,
        statuses |-> {"CLAIMED"} \cup
                     IF elapsed_micros < settle_deadline' THEN {"SETTLING"} ELSE {}]]
  /\ bound' = [bound EXCEPT ![ch] = 0] /\ bound_bytes' = [bound_bytes EXCEPT ![ch] = Extent]
  /\ set' = TRUE
  /\ UNCHANGED <<keepalive_deadline, elapsed_micros, unkicked, clock, start, length,
                 position, boundary_crc, word_boundary_crc, busy, poll, engine>>

(* Mutant of separare: the detach does not raise set. *)
separareUnraised(ch) ==
  /\ flags[ch].core # "SEPARATUS"
  /\ flags' = [flags EXCEPT ![ch] = Plus(@, {"SEPARANS"})]
  /\ UNCHANGED <<timers, recovery, word_boundary_crc, set, busy, poll, engine>>

separare(ch) ==
  /\ flags[ch].core # "SEPARATUS"
  /\ flags' = [flags EXCEPT ![ch] = Plus(@, {"SEPARANS"})]
  /\ set' = TRUE
  /\ UNCHANGED <<timers, recovery, word_boundary_crc, busy, poll, engine>>

(* Mutant of Accepting: a leaving channel takes a transfer. *)
AcceptingLeaving(ch) ==
  flags[ch].core \in {"ADNEXUS", "OK"} /\ "SETTLING" \notin flags[ch].statuses

Accepting(ch) ==
  /\ flags[ch].core \in {"ADNEXUS", "OK"}
  /\ flags[ch].statuses \cap {"SETTLING", "SEPARANS"} = {}

(* PraetSubmit proved the span inside the pool. *)
relatio(ch, offset, bytes) ==
  /\ Accepting(ch)
  /\ offset + bytes <= bound_bytes[ch]
  /\ flags' = [flags EXCEPT ![ch] = [Without(@, TransferStatuses) EXCEPT !.core = "BUSY"]]
  /\ keepalive_deadline' = [keepalive_deadline EXCEPT ![ch] = Later(KeepaliveMicros)]
  /\ start' = [start EXCEPT ![ch] = bound[ch] + offset]
  /\ length' = [length EXCEPT ![ch] = bytes]
  /\ position' = [position EXCEPT ![ch] = 0]
  /\ set' = TRUE
  /\ wrote' = [wrote EXCEPT ![ch] = 0] /\ moving' = [moving EXCEPT ![ch] = TRUE]
  /\ unkicked' = [unkicked EXCEPT ![ch] = 0]
  /\ UNCHANGED <<settle_deadline, elapsed_micros, clock, bound, bound_bytes,
                 boundary_crc, word_boundary_crc, busy, poll>>

(* Mutant of Reached: the figure is not cut. *)
ReachedUncut(ch, at) == IF at <= position[ch] THEN position[ch] ELSE at

(* What a port may report: nothing, the bytes the engine wrote, or its      *)
(* words of them.                                                          *)
Reports(ch) == {0, wrote[ch], Word * ((wrote[ch] + Word - 1) \div Word)}

(* A figure past the length is cut to it, one not past the position not taken. *)
Reached(ch, at) ==
  IF at <= position[ch] THEN position[ch] ELSE IF at > length[ch] THEN length[ch] ELSE at

efficere(ch, at) ==
  /\ flags[ch].core = "BUSY" /\ moving[ch]
  /\ flags' = [flags EXCEPT ![ch] = Without(@, {"STALLED"})]
  /\ keepalive_deadline' = [keepalive_deadline EXCEPT ![ch] = Later(KeepaliveMicros)]
  /\ position' = [position EXCEPT ![ch] = Reached(ch, at)]
  /\ unkicked' = [unkicked EXCEPT ![ch] = 0]
  /\ set' = TRUE
  /\ UNCHANGED <<settle_deadline, elapsed_micros, clock, bound, bound_bytes, start, length,
                 boundary_crc, word_boundary_crc, busy, poll, engine>>

completed(ch, failed) ==
  /\ flags[ch].core = "BUSY" /\ moving[ch]
  /\ ~failed => wrote[ch] = length[ch]
  /\ flags' = [flags EXCEPT ![ch] =
       [Plus(Without(@, {"STALLED"}), IF failed THEN {"ERROR"} ELSE {}) EXCEPT !.core = "OK"]]
  /\ position' = IF failed THEN position ELSE [position EXCEPT ![ch] = length[ch]]
  /\ keepalive_deadline' = [keepalive_deadline EXCEPT ![ch] = 0]
  /\ set' = TRUE
  /\ moving' = [moving EXCEPT ![ch] = FALSE] /\ wrote' = [wrote EXCEPT ![ch] = 0]
  /\ unkicked' = [unkicked EXCEPT ![ch] = 0]
  /\ UNCHANGED <<settle_deadline, elapsed_micros, clock, bound, bound_bytes, start,
                 length, boundary_crc, word_boundary_crc, busy, poll>>

(* The bytes whose checksum praet_boundary_crc answers. *)
BoundarySpan(ch) ==
  LET first == position[ch] - (position[ch] % Word)
      last == IF first + Word > length[ch] THEN length[ch] ELSE first + Word
  IN  <<start[ch] + first, start[ch] + last>>

(* Mutant of Resolvable: a running channel is resolved. *)
ResolvableRunning(ch) == flags[ch].core = "BUSY"

Resolvable(ch) == "STALLED" \in flags[ch].statuses

(* The caller has stopped the engine under the transfer it gives up. *)
resolve(ch, recovered) ==
  /\ Resolvable(ch)
  /\ LET measured == word_boundary_crc /\ position[ch] % Word # 0
     IN  /\ flags' = [flags EXCEPT ![ch] =
                [Plus(Without(@, {"STALLED"}), {recovered} \cup IF measured THEN {"MEASURED"} ELSE {})
                   EXCEPT !.core = "ADNEXUS"]]
         /\ boundary_crc' = IF measured THEN [boundary_crc EXCEPT ![ch] = BoundarySpan(ch)]
                            ELSE boundary_crc
  /\ keepalive_deadline' = [keepalive_deadline EXCEPT ![ch] = 0]
  /\ set' = TRUE
  /\ moving' = [moving EXCEPT ![ch] = FALSE] /\ wrote' = [wrote EXCEPT ![ch] = 0]
  /\ unkicked' = [unkicked EXCEPT ![ch] = 0]
  /\ UNCHANGED <<settle_deadline, elapsed_micros, clock, bound, bound_bytes, start,
                 length, position, word_boundary_crc, busy, poll>>

(* PRAET_CLOCK_MICROS: what is short of a microsecond is dropped. *)
ClockMicros(ticks) == ticks \div TicksPerMicro

advance(micros) ==
  /\ clock + micros <= ClockMost
  /\ elapsed_micros' = Later(micros)
  /\ clock' = clock + micros
  /\ unkicked' = [ch \in Channels |->
       IF flags[ch].core # "BUSY" THEN unkicked[ch]
       ELSE IF unkicked[ch] + micros > KeepaliveMicros THEN KeepaliveMicros
       ELSE unkicked[ch] + micros]
  /\ set' = TRUE
  /\ UNCHANGED <<flags, keepalive_deadline, settle_deadline, recovery, word_boundary_crc,
                 busy, poll, engine>>

advance_ticks(ticks) == advance(ClockMicros(ticks))

(* All an interrupt does, at any time. *)
raise ==
  /\ set' = TRUE
  /\ UNCHANGED <<flags, timers, recovery, word_boundary_crc, busy, poll, engine>>

----------------------------------------------------------------------------
(* The poll, and what it reads of the port. *)

(* praet_hw_progress answers in ProgressWidth bits. *)
Progress(ch) == {reported % (2 ^ ProgressWidth) : reported \in Reports(ch)}

(* praet_ordo_take_progress over one answer of every running channel. *)
take_progress(reached) ==
  LET moved == {ch \in Channels : flags[ch].core = "BUSY" /\ reached[ch] > position[ch]}
  IN  /\ flags' = [ch \in Channels |->
            IF ch \in moved THEN Without(flags[ch], {"STALLED"}) ELSE flags[ch]]
      /\ position' = [ch \in Channels |->
            IF ch \in moved THEN Reached(ch, reached[ch]) ELSE position[ch]]
      /\ keepalive_deadline' = [ch \in Channels |->
            IF ch \in moved THEN Later(KeepaliveMicros) ELSE keepalive_deadline[ch]]
      /\ unkicked' = [ch \in Channels |-> IF ch \in moved THEN 0 ELSE unkicked[ch]]
      /\ poll' = [pc |-> "ask", moved |-> moved # {}, settled |-> FALSE, left |-> {}]

(* A poll that finds busy set declines and changes nothing. *)
PollBegin ==
  /\ poll.pc = "none" /\ ~busy
  /\ busy' = TRUE
  /\ \E reached \in [Channels -> UNION {Progress(ch) : ch \in Channels}] :
       /\ \A ch \in Channels : reached[ch] \in Progress(ch)
       /\ take_progress(reached)
  /\ UNCHANGED <<settle_deadline, elapsed_micros, clock, bound, bound_bytes, start, length,
                 boundary_crc, word_boundary_crc, set, engine>>

PollShort ==
  /\ poll.pc = "ask" /\ ~set /\ ~poll.moved
  /\ busy' = FALSE
  /\ poll' = [poll EXCEPT !.pc = "none"]
  /\ UNCHANGED <<flags, timers, recovery, word_boundary_crc, set, engine>>

PollWalk ==
  /\ poll.pc = "ask" /\ (set \/ poll.moved)
  /\ poll' = [poll EXCEPT !.pc = "walk", !.moved = FALSE, !.left = Channels,
                          !.settled = elapsed_micros >= settle_deadline]
  /\ UNCHANGED <<flags, timers, recovery, word_boundary_crc, set, busy, engine>>

(* Mutants: a detach that does not wait for the transfer; a stall marked    *)
(* one microsecond early.                                                  *)
LeavesBusy(word) == "SEPARANS" \in word.statuses
ElapsedEarly(ch) == elapsed_micros + 1 >= keepalive_deadline[ch]

Leaves(word) == "SEPARANS" \in word.statuses /\ word.core # "BUSY"
Elapsed(ch) == elapsed_micros >= keepalive_deadline[ch]

(* What the walk leaves in a channel's flag word. *)
Serviced(ch, settled) ==
  LET calm == IF settled THEN Without(flags[ch], {"SETTLING"}) ELSE flags[ch]
      watched == IF calm.core = "BUSY" /\ Elapsed(ch) THEN Plus(calm, {"STALLED"}) ELSE calm
  IN  IF flags[ch].core # "SEPARATUS" /\ Leaves(watched) THEN Detached ELSE watched

Walk(ch) ==
  /\ poll.pc = "walk" /\ ch \in poll.left
  /\ \A other \in poll.left : ch <= other
  /\ poll' = [poll EXCEPT !.left = @ \ {ch}]
  /\ flags' = [flags EXCEPT ![ch] = Serviced(ch, poll.settled)]
  /\ IF flags'[ch] = Detached /\ flags[ch] # Detached
     THEN /\ keepalive_deadline' = [keepalive_deadline EXCEPT ![ch] = 0]
          /\ bound' = [bound EXCEPT ![ch] = Null] /\ bound_bytes' = [bound_bytes EXCEPT ![ch] = 0]
          /\ start' = [start EXCEPT ![ch] = Null] /\ length' = [length EXCEPT ![ch] = 0]
          /\ position' = [position EXCEPT ![ch] = 0]
          /\ boundary_crc' = [boundary_crc EXCEPT ![ch] = NoSpan]
     ELSE UNCHANGED <<keepalive_deadline, recovery>>
  /\ UNCHANGED <<settle_deadline, elapsed_micros, unkicked, clock, word_boundary_crc,
                 set, busy, engine>>

PollEnd ==
  /\ poll.pc = "walk" /\ poll.left = {}
  /\ set' = FALSE /\ busy' = FALSE
  /\ poll' = [poll EXCEPT !.pc = "none", !.settled = FALSE]
  /\ UNCHANGED <<flags, timers, recovery, word_boundary_crc, engine>>

(* The engine writes a byte. *)
Write(ch) ==
  /\ moving[ch] /\ wrote[ch] < length[ch]
  /\ wrote' = [wrote EXCEPT ![ch] = @ + 1]
  /\ UNCHANGED <<flags, timers, recovery, word_boundary_crc, set, busy, poll, moving>>

----------------------------------------------------------------------------

Application ==
  /\ poll.pc = "none"
  /\ \/ reset
     \/ \E ticks \in Ticks : advance_ticks(ticks)
     \/ \E ch \in Channels :
          \/ \E region \in Regions : adnectere(ch, region)
          \/ separare(ch)
          \/ \E offset \in Offsets, bytes \in Lengths : relatio(ch, offset, bytes)
          \/ \E at \in Reports(ch) : efficere(ch, at)
          \/ \E failed \in BOOLEAN : completed(ch, failed)
          \/ \E recovered \in {"ABANDONED", "SCRUBBED"} : resolve(ch, recovered)

Poll == PollBegin \/ PollShort \/ PollWalk \/ (\E ch \in Channels : Walk(ch)) \/ PollEnd

Next == Application \/ Poll \/ raise \/ \E ch \in Channels : Write(ch)

(* The application polls for ever, and a poll it began runs to its end. *)
Spec == Init /\ [][Next]_vars /\ WF_vars(Poll)

----------------------------------------------------------------------------
(* praet_ordo_situs, praet_ordo_commotus_est and praet_ordo_boundary_crc. *)

situs(ch) == position[ch]

commotus_est(ch) ==
  LET remainder == position[ch] % Word
      needed == Word - remainder
  IN  IF remainder = 0 THEN position[ch]
      ELSE IF needed >= length[ch] - position[ch] THEN length[ch]
      ELSE position[ch] + needed

----------------------------------------------------------------------------

TypeOK ==
  /\ flags \in [Channels -> [core : Cores, statuses : SUBSET Statuses, region : Regions \cup {0}]]
  /\ keepalive_deadline \in [Channels -> 0 .. 2 ^ Width - 1]
  /\ {settle_deadline, elapsed_micros} \subseteq 0 .. 2 ^ Width - 1
  /\ \A ch \in Channels : position[ch] \in 0 .. length[ch] /\ length[ch] \in 0 .. Extent
  /\ \A ch \in Channels : flags[ch].core = "SEPARATUS" => flags[ch] = Detached
  /\ busy = (poll.pc # "none")

(* A poll that finds set down and no port report has nothing to do: the    *)
(* walk it skips would leave every flag word as it found it, also after a  *)
(* raise the last walk dropped (praet_ordo.c:482, :547).                   *)
NothingMissed ==
  poll.pc = "none" /\ ~set =>
    \A ch \in Channels : Serviced(ch, elapsed_micros >= settle_deadline) = flags[ch]

(* A channel reads stalled only once its whole window went by without a    *)
(* sign of life (praet_praefinitum.h:69).                                  *)
StalledHonestly ==
  \A ch \in Channels : "STALLED" \in flags[ch].statuses => unkicked[ch] >= KeepaliveMicros

(* The engine writes only into storage its channel still names and still   *)
(* holds (praet_ordo.c:525).                                               *)
WritesHeld ==
  \A ch \in Channels : moving[ch] =>
    /\ flags[ch].core = "BUSY"
    /\ start[ch] >= bound[ch] /\ start[ch] + wrote[ch] <= bound[ch] + bound_bytes[ch]

(* What a resolved channel tells of its boundary word is of the transfer   *)
(* that was resolved: the measured span is the word the sample fell inside *)
(* and ends where commotus_est ends.                                       *)
MeasuredTold ==
  \A ch \in Channels : "MEASURED" \in flags[ch].statuses =>
    /\ flags[ch].core = "ADNEXUS"
    /\ boundary_crc[ch][2] = start[ch] + commotus_est(ch)
    /\ boundary_crc[ch][1] < start[ch] + situs(ch)
    /\ start[ch] + situs(ch) <= boundary_crc[ch][2]

(* Every channel goes through the states DmaChannel lets it. *)
State(ch) ==
  LET word == flags[ch]
      of == word.statuses
  IN  CASE word.core = "SEPARATUS" -> "detached"
        [] word.core = "BUSY" -> IF "STALLED" \in of THEN "stalled" ELSE "running"
        [] word.core = "OK" -> IF "ERROR" \in of THEN "failed" ELSE "done"
        [] OTHER -> IF of \cap {"ABANDONED", "SCRUBBED"} = {} THEN "idle" ELSE "resolved"

Channel == INSTANCE DmaChannel WITH
  channel <- [ch \in Channels |-> [state |-> State(ch), leaving |-> "SEPARANS" \in flags[ch].statuses]]

ImplementsChannel == Channel!Spec

(* A detach asked of a channel at rest ends, whatever an interrupt raises   *)
(* and whichever polls are cut short.                                      *)
DetachEnds ==
  \A ch \in Channels :
    "SEPARANS" \in flags[ch].statuses /\ flags[ch].core # "BUSY" ~> flags[ch].core = "SEPARATUS"
=============================================================================
