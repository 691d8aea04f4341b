---------------------------- MODULE PraetOrdoProofs ----------------------------
(***************************************************************************)
(* What PraetOrdo keeps for any number of channels, any extent and word    *)
(* and any windows, and that it implements DmaChannel.                     *)
(***************************************************************************)
EXTENDS PraetOrdo, TLAPS

FlagWord == [core : Cores, statuses : SUBSET Statuses, region : Regions \cup {0}]
Clocked == 0 .. 2 ^ Width - 1

Types ==
  /\ flags \in [Channels -> FlagWord]
  /\ keepalive_deadline \in [Channels -> Clocked]
  /\ settle_deadline \in Clocked /\ elapsed_micros \in Clocked
  /\ bound \in [Channels -> Int] /\ bound_bytes \in [Channels -> 0 .. Extent]
  /\ start \in [Channels -> Int] /\ length \in [Channels -> 0 .. Extent]
  /\ position \in [Channels -> Nat] /\ boundary_crc \in [Channels -> Int \X Int]
  /\ word_boundary_crc \in BOOLEAN /\ set \in BOOLEAN /\ busy \in BOOLEAN
  /\ poll \in [pc : {"none", "ask", "walk"}, moved : BOOLEAN, settled : BOOLEAN,
               left : SUBSET Channels]
  /\ wrote \in [Channels -> Nat] /\ moving \in [Channels -> BOOLEAN]
  /\ unkicked \in [Channels -> Nat] /\ clock \in Nat

(* What a channel's flag word says of its transfer and of the engine. *)
Held(ch) ==
  /\ moving[ch] <=> flags[ch].core = "BUSY"
  /\ "STALLED" \in flags[ch].statuses => flags[ch].core = "BUSY"
  /\ flags[ch].core = "SEPARATUS" => flags[ch] = Detached
  /\ position[ch] <= length[ch]
  /\ flags[ch].core = "BUSY" =>
       /\ start[ch] >= bound[ch] /\ start[ch] + length[ch] <= bound[ch] + bound_bytes[ch]
       /\ wrote[ch] <= length[ch]
  /\ "MEASURED" \in flags[ch].statuses =>
       /\ flags[ch].core = "ADNEXUS" /\ position[ch] % Word # 0
       /\ boundary_crc[ch] = BoundarySpan(ch)

Polled == busy = (poll.pc # "none")

(* What the poll has established: nothing is left to do where no walk is    *)
(* due, and in a walk nothing behind it.                                    *)
Quiet(ch) == Serviced(ch, elapsed_micros >= settle_deadline) = flags[ch]

Walked ==
  /\ ~set /\ (poll.pc = "none" \/ (poll.pc = "ask" /\ ~poll.moved)) =>
       \A ch \in Channels : Quiet(ch)
  /\ poll.pc = "walk" =>
       /\ poll.settled = (elapsed_micros >= settle_deadline)
       /\ \A ch \in Channels \ poll.left : Quiet(ch)

(* The inductive invariant. *)
OrdoInv == Types /\ Polled /\ (\A ch \in Channels : Held(ch)) /\ Walked

----------------------------------------------------------------------------
(* Arithmetic. *)

(* The modulus of a clock word is a number above 0, and what is reduced by *)
(* it a clock word.                                                        *)
LEMMA Wraps ==
  /\ 2 ^ Width \in Nat \ {0} /\ 2 ^ ProgressWidth \in Nat \ {0}
  /\ \A n \in Nat : n % (2 ^ Width) \in Clocked /\ n % (2 ^ ProgressWidth) \in Nat
<1>1. 2 ^ Width \in Nat \ {0} /\ 2 ^ ProgressWidth \in Nat \ {0}
  BY PowersAssumption
<1> QED BY <1>1 DEF Clocked

(* A window added to the clock is a clock word. *)
LEMMA LaterClocked ==
  ASSUME elapsed_micros \in Clocked, NEW n \in Nat PROVE Later(n) \in Clocked
<1>1. elapsed_micros + n \in Nat  BY Wraps DEF Clocked
<1> QED BY <1>1, Wraps DEF Later

(* What a port may report is a number of bytes. *)
LEMMA ReportsNat ==
  ASSUME Types, NEW ch \in Channels PROVE Reports(ch) \subseteq Nat /\ Progress(ch) \subseteq Nat
<1>1. wrote[ch] \in Nat /\ Word \in Nat \ {0}  BY OrdoAssumption DEF Types
<1>2. \A n \in Nat : n \div Word \in Nat  BY <1>1
<1>3. \A n \in Nat : Word * n \in Nat  BY <1>1
<1>4. wrote[ch] + Word - 1 \in Nat  BY <1>1
<1>5. Reports(ch) \subseteq Nat  BY <1>1, <1>2, <1>3, <1>4 DEF Reports
<1> QED BY <1>5, Wraps DEF Progress

(* A progress taken stays inside the transfer and does not go back. *)
LEMMA ReachedInside ==
  ASSUME Types, NEW ch \in Channels, Held(ch), NEW at \in Nat
  PROVE  Reached(ch, at) \in Nat /\ Reached(ch, at) <= length[ch] /\ Reached(ch, at) >= position[ch]
BY DEF Types, Held, Reached

(* The word a sample fell inside is inside the pool's addresses. *)
LEMMA SpanType ==
  ASSUME Types, NEW ch \in Channels PROVE BoundarySpan(ch) \in Int \X Int
<1>1. Word \in Nat \ {0} /\ position[ch] \in Nat /\ start[ch] \in Int /\ length[ch] \in Int
  BY OrdoAssumption DEF Types
<1>2. position[ch] % Word \in Int  BY <1>1
<1> QED BY <1>1, <1>2 DEF BoundarySpan

(* A detached channel's flag word is a flag word. *)
LEMMA DetachedWord == Detached \in FlagWord
BY DEF Detached, FlagWord, Cores

(* Statuses put on a flag word and taken off it leave a flag word. *)
LEMMA WordEdits ==
  ASSUME NEW word \in FlagWord, NEW s \in SUBSET Statuses
  PROVE  /\ Plus(word, s) \in FlagWord /\ Plus(word, s).core = word.core
         /\ Plus(word, s).statuses = word.statuses \cup s
         /\ Plus(word, s).region = word.region
         /\ Without(word, s) \in FlagWord /\ Without(word, s).core = word.core
         /\ Without(word, s).statuses = word.statuses \ s
         /\ Without(word, s).region = word.region
<1>1. \A t \in SUBSET Statuses : [word EXCEPT !.statuses = t] \in FlagWord
  BY DEF FlagWord
<1>2. word \in FlagWord /\ word.statuses \in SUBSET Statuses  BY DEF FlagWord
<1> QED BY <1>1, <1>2 DEF Plus, Without, FlagWord

----------------------------------------------------------------------------
(* The types. *)

(* The first state of a context. *)
LEMMA InitTypes == Init => Types
<1> SUFFICES ASSUME Init PROVE Types  OBVIOUS
<1>2. 0 \in Clocked  BY Wraps DEF Clocked
<1>3. word_boundary_crc \in BOOLEAN  BY OrdoAssumption DEF Init
<1>4. Null \in Int /\ 0 \in 0 .. Extent /\ NoSpan \in Int \X Int
  BY OrdoAssumption DEF Null, NoSpan
<1> QED BY <1>2, <1>3, <1>4, DetachedWord DEF Init, Types

LEMMA ResetTypes == ASSUME Types, reset PROVE Types'
<1>2. 0 \in Clocked  BY Wraps DEF Clocked
<1>4. Null \in Int /\ 0 \in 0 .. Extent /\ NoSpan \in Int \X Int
  BY OrdoAssumption DEF Null, NoSpan
<1> QED BY <1>2, <1>4, DetachedWord DEF reset, Types, engine

LEMMA AdnectereTypes ==
  ASSUME Types, NEW ch \in Channels, NEW region \in Regions, adnectere(ch, region)
  PROVE  Types'
<1>1. Later(SettleMicros) \in Clocked  BY LaterClocked, OrdoAssumption DEF Types
<1>2. settle_deadline' \in Clocked  BY <1>1 DEF adnectere, Types
<1>3. [core |-> "ADNEXUS", region |-> region,
       statuses |-> {"CLAIMED"} \cup
                    IF elapsed_micros < settle_deadline' THEN {"SETTLING"} ELSE {}] \in FlagWord
  BY DEF FlagWord, Cores, Statuses
<1>4. flags' \in [Channels -> FlagWord]  BY <1>3 DEF adnectere, Types
<1>5. Extent \in 0 .. Extent  BY OrdoAssumption
<1> QED BY <1>2, <1>4, <1>5 DEF adnectere, Types, engine

LEMMA SeparareTypes ==
  ASSUME Types, NEW ch \in Channels, separare(ch) PROVE Types'
<1>1. Plus(flags[ch], {"SEPARANS"}) \in FlagWord  BY WordEdits DEF Types, Statuses
<1> QED BY <1>1 DEF separare, Types, timers, recovery, engine

LEMMA RelatioTypes ==
  ASSUME Types, NEW ch \in Channels, NEW offset \in Offsets, NEW bytes \in Lengths,
         relatio(ch, offset, bytes)
  PROVE  Types'
<1>1. Later(KeepaliveMicros) \in Clocked  BY LaterClocked, OrdoAssumption DEF Types
<1>2. Without(flags[ch], TransferStatuses) \in FlagWord
  BY WordEdits DEF Types, Statuses, TransferStatuses
<1>3. [Without(flags[ch], TransferStatuses) EXCEPT !.core = "BUSY"] \in FlagWord
  BY <1>2 DEF FlagWord, Cores
<1>4. bytes \in 0 .. Extent /\ bound[ch] + offset \in Int
  BY OrdoAssumption DEF relatio, Types
<1> QED BY <1>1, <1>3, <1>4 DEF relatio, Types

LEMMA EfficereTypes ==
  ASSUME Types, NEW ch \in Channels, Held(ch), NEW at \in Reports(ch), efficere(ch, at)
  PROVE  Types'
<1>1. Later(KeepaliveMicros) \in Clocked  BY LaterClocked, OrdoAssumption DEF Types
<1>2. Without(flags[ch], {"STALLED"}) \in FlagWord  BY WordEdits DEF Types, Statuses
<1>3. Reached(ch, at) \in Nat  BY ReportsNat, ReachedInside
<1> QED BY <1>1, <1>2, <1>3 DEF efficere, Types, engine

LEMMA CompletedTypes ==
  ASSUME Types, NEW ch \in Channels, NEW failed \in BOOLEAN, completed(ch, failed)
  PROVE  Types'
<1>1. 0 \in Clocked  BY Wraps DEF Clocked
<1>2. Without(flags[ch], {"STALLED"}) \in FlagWord  BY WordEdits DEF Types, Statuses
<1>3. Plus(Without(flags[ch], {"STALLED"}), IF failed THEN {"ERROR"} ELSE {}) \in FlagWord
  BY <1>2, WordEdits DEF Statuses
<1>4. [Plus(Without(flags[ch], {"STALLED"}), IF failed THEN {"ERROR"} ELSE {})
         EXCEPT !.core = "OK"] \in FlagWord
  BY <1>3 DEF FlagWord, Cores
<1>5. length[ch] \in Nat  BY OrdoAssumption DEF Types
<1> QED BY <1>1, <1>4, <1>5 DEF completed, Types

LEMMA ResolveTypes ==
  ASSUME Types, NEW ch \in Channels, NEW recovered \in {"ABANDONED", "SCRUBBED"},
         resolve(ch, recovered)
  PROVE  Types'
<1> DEFINE measured == word_boundary_crc /\ position[ch] % Word # 0
           told == {recovered} \cup IF measured THEN {"MEASURED"} ELSE {}
<1>1. 0 \in Clocked  BY Wraps DEF Clocked
<1>2. Without(flags[ch], {"STALLED"}) \in FlagWord  BY WordEdits DEF Types, Statuses
<1>3. told \in SUBSET Statuses  BY DEF Statuses
<1>4. Plus(Without(flags[ch], {"STALLED"}), told) \in FlagWord
  <2> HIDE DEF told
  <2> QED BY <1>2, <1>3, WordEdits
<1>5. [Plus(Without(flags[ch], {"STALLED"}), told) EXCEPT !.core = "ADNEXUS"] \in FlagWord
  <2> HIDE DEF told
  <2> QED BY <1>4 DEF FlagWord, Cores
<1>6. boundary_crc' \in [Channels -> Int \X Int]
  BY SpanType DEF resolve, Types
<1>7. flags' \in [Channels -> FlagWord]  BY <1>5 DEF resolve, Types
<1> QED BY <1>1, <1>6, <1>7 DEF resolve, Types

LEMMA AdvanceTypes ==
  ASSUME Types, NEW micros \in Nat, advance(micros) PROVE Types'
<1>1. Later(micros) \in Clocked  BY LaterClocked DEF Types
<1>2. unkicked' \in [Channels -> Nat]  BY OrdoAssumption DEF advance, Types
<1> QED BY <1>1, <1>2 DEF advance, Types, recovery, engine

(* A tick count is a number of microseconds. *)
LEMMA TicksNat == \A ticks \in Ticks : ClockMicros(ticks) \in Nat
BY OrdoAssumption DEF ClockMicros

LEMMA PollBeginTypes ==
  ASSUME Types, \A ch \in Channels : Held(ch), PollBegin PROVE Types'
<1>1. PICK reached \in [Channels -> UNION {Progress(ch) : ch \in Channels}] :
        (\A ch \in Channels : reached[ch] \in Progress(ch)) /\ take_progress(reached)
  BY DEF PollBegin
<1>2. Later(KeepaliveMicros) \in Clocked  BY LaterClocked, OrdoAssumption DEF Types
<1>3. \A ch \in Channels : Without(flags[ch], {"STALLED"}) \in FlagWord
  BY WordEdits DEF Types, Statuses
<1>4. \A ch \in Channels : Reached(ch, reached[ch]) \in Nat
  BY <1>1, ReportsNat, ReachedInside
<1>5. flags' \in [Channels -> FlagWord]  BY <1>1, <1>3 DEF take_progress, Types
<1>6. keepalive_deadline' \in [Channels -> Clocked]
  BY <1>1, <1>2 DEF take_progress, Types
<1>7. position' \in [Channels -> Nat] /\ unkicked' \in [Channels -> Nat]
  BY <1>1, <1>4 DEF take_progress, Types
<1>8. poll' \in [pc : {"none", "ask", "walk"}, moved : BOOLEAN, settled : BOOLEAN,
                 left : SUBSET Channels]
  BY <1>1 DEF take_progress
<1> QED BY <1>5, <1>6, <1>7, <1>8 DEF PollBegin, Types, engine

(* A channel the walk serves keeps a flag word. *)
LEMMA ServicedWord ==
  ASSUME Types, NEW ch \in Channels, NEW settled \in BOOLEAN
  PROVE  Serviced(ch, settled) \in FlagWord
<1> DEFINE calm == IF settled THEN Without(flags[ch], {"SETTLING"}) ELSE flags[ch]
<1>1. calm \in FlagWord  BY WordEdits DEF Types, Statuses
<1>2. Plus(calm, {"STALLED"}) \in FlagWord
  <2> HIDE DEF calm
  <2> QED BY <1>1, WordEdits DEF Statuses
<1> QED BY <1>1, <1>2, DetachedWord DEF Serviced

LEMMA WalkTypes ==
  ASSUME Types, NEW ch \in Channels, Walk(ch) PROVE Types'
<1>1. poll.settled \in BOOLEAN  BY DEF Types
<1>2. flags' \in [Channels -> FlagWord]  BY <1>1, ServicedWord DEF Walk, Types
<1>3. poll' \in [pc : {"none", "ask", "walk"}, moved : BOOLEAN, settled : BOOLEAN,
                 left : SUBSET Channels]
  BY DEF Walk, Types
<1>4. 0 \in Clocked /\ Null \in Int /\ 0 \in 0 .. Extent /\ NoSpan \in Int \X Int
  BY Wraps, OrdoAssumption DEF Clocked, Null, NoSpan
<1>5. keepalive_deadline' \in [Channels -> Clocked]
  BY <1>4 DEF Walk, Types
<1>6. /\ bound' \in [Channels -> Int] /\ bound_bytes' \in [Channels -> 0 .. Extent]
      /\ start' \in [Channels -> Int] /\ length' \in [Channels -> 0 .. Extent]
      /\ position' \in [Channels -> Nat] /\ boundary_crc' \in [Channels -> Int \X Int]
  <2>1. CASE flags'[ch] = Detached /\ flags[ch] # Detached
    BY <1>4, <2>1 DEF Walk, Types
  <2>2. CASE ~(flags'[ch] = Detached /\ flags[ch] # Detached)
    BY <2>2 DEF Walk, Types, recovery
  <2> QED BY <2>1, <2>2
<1> QED BY <1>2, <1>3, <1>5, <1>6 DEF Walk, Types, engine

(* A step of the context leaves the types. *)
LEMMA NextTypes ==
  ASSUME Types, \A ch \in Channels : Held(ch), [Next]_vars PROVE Types'
<1>1. CASE Application
  <2>1. CASE reset  BY <2>1, ResetTypes
  <2>2. CASE \E ticks \in Ticks : advance_ticks(ticks)
    BY <2>2, AdvanceTypes, TicksNat DEF advance_ticks
  <2>3. ASSUME NEW ch \in Channels, NEW region \in Regions, adnectere(ch, region) PROVE Types'
    BY <2>3, AdnectereTypes
  <2>4. ASSUME NEW ch \in Channels, separare(ch) PROVE Types'
    BY <2>4, SeparareTypes
  <2>5. ASSUME NEW ch \in Channels, NEW offset \in Offsets, NEW bytes \in Lengths,
               relatio(ch, offset, bytes)
        PROVE  Types'
    BY <2>5, RelatioTypes
  <2>6. ASSUME NEW ch \in Channels, NEW at \in Reports(ch), efficere(ch, at) PROVE Types'
    BY <2>6, EfficereTypes
  <2>7. ASSUME NEW ch \in Channels, NEW failed \in BOOLEAN, completed(ch, failed) PROVE Types'
    BY <2>7, CompletedTypes
  <2>8. ASSUME NEW ch \in Channels, NEW recovered \in {"ABANDONED", "SCRUBBED"},
               resolve(ch, recovered)
        PROVE  Types'
    BY <2>8, ResolveTypes
  <2> QED BY <1>1, <2>1, <2>2, <2>3, <2>4, <2>5, <2>6, <2>7, <2>8 DEF Application
<1>2. CASE PollBegin  BY <1>2, PollBeginTypes
<1>3. CASE PollShort
  BY <1>3 DEF PollShort, Types, timers, recovery, engine
<1>4. CASE PollWalk
  <2>1. (elapsed_micros >= settle_deadline) \in BOOLEAN  OBVIOUS
  <2>2. poll' \in [pc : {"none", "ask", "walk"}, moved : BOOLEAN, settled : BOOLEAN,
                   left : SUBSET Channels]
    BY <1>4, <2>1 DEF PollWalk, Types
  <2> QED BY <1>4, <2>2 DEF PollWalk, Types, timers, recovery, engine
<1>5. CASE \E ch \in Channels : Walk(ch)  BY <1>5, WalkTypes
<1>6. CASE PollEnd
  BY <1>6 DEF PollEnd, Types, timers, recovery, engine
<1>7. CASE raise  BY <1>7 DEF raise, Types, timers, recovery, engine
<1>8. ASSUME NEW ch \in Channels, Write(ch) PROVE Types'
  BY <1>8 DEF Write, Types, timers, recovery
<1>9. CASE UNCHANGED vars
  BY <1>9 DEF vars, Types, timers, recovery, engine
<1> QED BY <1>1, <1>2, <1>3, <1>4, <1>5, <1>6, <1>7, <1>8, <1>9 DEF Next, Poll

----------------------------------------------------------------------------
(* What the flag words say. *)

(* A channel none of whose state changed says what it said. *)
LEMMA HeldUnchanged ==
  ASSUME NEW ch \in Channels, Held(ch),
         flags'[ch] = flags[ch], moving'[ch] = moving[ch], wrote'[ch] = wrote[ch],
         position'[ch] = position[ch], length'[ch] = length[ch], start'[ch] = start[ch],
         bound'[ch] = bound[ch], bound_bytes'[ch] = bound_bytes[ch],
         boundary_crc'[ch] = boundary_crc[ch]
  PROVE  Held(ch)'
BY DEF Held, BoundarySpan

LEMMA InitHeld == Init => \A ch \in Channels : Held(ch)
BY OrdoAssumption DEF Init, Held, Detached

LEMMA ResetHeld ==
  ASSUME Types, \A ch \in Channels : Held(ch), reset PROVE \A ch \in Channels : Held(ch)'
BY DEF reset, Held, Detached, Types, engine

LEMMA AdnectereHeld ==
  ASSUME Types, \A ch \in Channels : Held(ch),
         NEW ch \in Channels, NEW region \in Regions, adnectere(ch, region)
  PROVE  \A c \in Channels : Held(c)'
<1>1. Held(ch)'
  <2>1. flags'[ch].core = "ADNEXUS" /\ flags'[ch].statuses \subseteq {"CLAIMED", "SETTLING"}
    BY DEF adnectere, Types
  <2>2. ~moving[ch]  BY DEF adnectere, Held
  <2> QED BY <2>1, <2>2 DEF adnectere, Held, engine
<1>2. ASSUME NEW c \in Channels \ {ch} PROVE Held(c)'
  BY <1>2, HeldUnchanged DEF adnectere, Types, engine
<1> QED BY <1>1, <1>2

LEMMA SeparareHeld ==
  ASSUME Types, \A ch \in Channels : Held(ch), NEW ch \in Channels, separare(ch)
  PROVE  \A c \in Channels : Held(c)'
<1>1. Held(ch)'
  <2>1. /\ flags'[ch].core = flags[ch].core
        /\ flags'[ch].statuses = flags[ch].statuses \cup {"SEPARANS"}
    BY WordEdits DEF separare, Types, Statuses
  <2> QED BY <2>1 DEF separare, Held, recovery, engine, BoundarySpan
<1>2. ASSUME NEW c \in Channels \ {ch} PROVE Held(c)'
  BY <1>2, HeldUnchanged DEF separare, Types, recovery, engine
<1> QED BY <1>1, <1>2

LEMMA RelatioHeld ==
  ASSUME Types, \A ch \in Channels : Held(ch),
         NEW ch \in Channels, NEW offset \in Offsets, NEW bytes \in Lengths,
         relatio(ch, offset, bytes)
  PROVE  \A c \in Channels : Held(c)'
<1>1. Held(ch)'
  <2>1. /\ Without(flags[ch], TransferStatuses) \in FlagWord
        /\ Without(flags[ch], TransferStatuses).statuses = flags[ch].statuses \ TransferStatuses
    BY WordEdits DEF Types, Statuses, TransferStatuses
  <2>2. /\ flags'[ch].core = "BUSY"
        /\ flags'[ch].statuses = flags[ch].statuses \ TransferStatuses
    BY <2>1 DEF relatio, Types, FlagWord
  <2>3. "MEASURED" \notin flags'[ch].statuses  BY <2>2 DEF TransferStatuses
  <2>4. /\ start'[ch] = bound[ch] + offset /\ length'[ch] = bytes /\ position'[ch] = 0
        /\ wrote'[ch] = 0 /\ moving'[ch] /\ bound' = bound /\ bound_bytes' = bound_bytes
    BY DEF relatio, Types
  <2>5. bound[ch] \in Int /\ offset \in Nat /\ bytes \in Nat /\ bound_bytes[ch] \in Int
    BY OrdoAssumption DEF Types
  <2> QED BY <2>2, <2>3, <2>4, <2>5 DEF relatio, Held
<1>2. ASSUME NEW c \in Channels \ {ch} PROVE Held(c)'
  BY <1>2, HeldUnchanged DEF relatio, Types
<1> QED BY <1>1, <1>2

LEMMA EfficereHeld ==
  ASSUME Types, \A ch \in Channels : Held(ch),
         NEW ch \in Channels, NEW at \in Reports(ch), efficere(ch, at)
  PROVE  \A c \in Channels : Held(c)'
<1>1. Held(ch)'
  <2>1. flags'[ch].core = "BUSY" /\ flags'[ch].statuses = flags[ch].statuses \ {"STALLED"}
    BY WordEdits DEF efficere, Types, Statuses
  <2>2. position'[ch] <= length[ch]
    BY ReportsNat, ReachedInside DEF efficere, Types
  <2> QED BY <2>1, <2>2 DEF efficere, Held, Types, engine
<1>2. ASSUME NEW c \in Channels \ {ch} PROVE Held(c)'
  BY <1>2, HeldUnchanged DEF efficere, Types, engine
<1> QED BY <1>1, <1>2

LEMMA CompletedHeld ==
  ASSUME Types, \A ch \in Channels : Held(ch),
         NEW ch \in Channels, NEW failed \in BOOLEAN, completed(ch, failed)
  PROVE  \A c \in Channels : Held(c)'
<1>1. Held(ch)'
  <2> DEFINE word == Plus(Without(flags[ch], {"STALLED"}), IF failed THEN {"ERROR"} ELSE {})
  <2>1. /\ Without(flags[ch], {"STALLED"}) \in FlagWord
        /\ Without(flags[ch], {"STALLED"}).statuses = flags[ch].statuses \ {"STALLED"}
    BY WordEdits DEF Types, Statuses
  <2>2. word \in FlagWord /\ word.statuses \subseteq (flags[ch].statuses \ {"STALLED"}) \cup {"ERROR"}
    BY <2>1, WordEdits DEF Statuses
  <2>3. flags'[ch] = [word EXCEPT !.core = "OK"]  BY DEF completed, Types
  <2>4. flags'[ch].core = "OK" /\ flags'[ch].statuses = word.statuses
    <3> HIDE DEF word
    <3> QED BY <2>2, <2>3 DEF FlagWord
  <2>5. "STALLED" \notin flags'[ch].statuses /\ "MEASURED" \notin flags'[ch].statuses
    BY <2>2, <2>4 DEF completed, Held
  <2>6. position'[ch] <= length'[ch] /\ ~moving'[ch]
    BY DEF completed, Held, Types
  <2> QED BY <2>4, <2>5, <2>6 DEF Held
<1>2. ASSUME NEW c \in Channels \ {ch} PROVE Held(c)'
  BY <1>2, HeldUnchanged DEF completed, Types
<1> QED BY <1>1, <1>2

LEMMA ResolveHeld ==
  ASSUME Types, \A ch \in Channels : Held(ch),
         NEW ch \in Channels, NEW recovered \in {"ABANDONED", "SCRUBBED"},
         resolve(ch, recovered)
  PROVE  \A c \in Channels : Held(c)'
<1>1. Held(ch)'
  <2> DEFINE measured == word_boundary_crc /\ position[ch] % Word # 0
             told == {recovered} \cup IF measured THEN {"MEASURED"} ELSE {}
             word == Plus(Without(flags[ch], {"STALLED"}), told)
  <2>1. /\ Without(flags[ch], {"STALLED"}) \in FlagWord
        /\ Without(flags[ch], {"STALLED"}).statuses = flags[ch].statuses \ {"STALLED"}
    BY WordEdits DEF Types, Statuses
  <2>2. told \in SUBSET Statuses /\ "STALLED" \notin told /\ ("MEASURED" \in told => measured)
    BY DEF Statuses
  <2>3. word \in FlagWord /\ word.statuses = (flags[ch].statuses \ {"STALLED"}) \cup told
    <3> HIDE DEF told
    <3> QED BY <2>1, <2>2, WordEdits
  <2>4. flags'[ch] = [word EXCEPT !.core = "ADNEXUS"]  BY DEF resolve, Types
  <2>5. flags'[ch].core = "ADNEXUS" /\ flags'[ch].statuses = word.statuses
    <3> HIDE DEF word
    <3> QED BY <2>3, <2>4 DEF FlagWord
  <2>6. "STALLED" \notin flags'[ch].statuses
    <3> HIDE DEF told, word
    <3> QED BY <2>2, <2>3, <2>5
  <2>7. "MEASURED" \notin flags[ch].statuses  BY DEF resolve, Resolvable, Held
  <2>8. "MEASURED" \in flags'[ch].statuses => measured /\ boundary_crc'[ch] = BoundarySpan(ch)
    <3>1. measured => boundary_crc'[ch] = BoundarySpan(ch)  BY DEF resolve, Types
    <3>2. "MEASURED" \in flags'[ch].statuses => measured
      <4> HIDE DEF told, word, measured
      <4> QED BY <2>2, <2>3, <2>5, <2>7
    <3> QED BY <3>1, <3>2
  <2>9. BoundarySpan(ch)' = BoundarySpan(ch) /\ position' = position
    BY DEF resolve, BoundarySpan
  <2>10. position'[ch] <= length'[ch] /\ ~moving'[ch]  BY DEF resolve, Held, Types
  <2> QED BY <2>5, <2>6, <2>8, <2>9, <2>10 DEF Held
<1>2. ASSUME NEW c \in Channels \ {ch} PROVE Held(c)'
  BY <1>2, HeldUnchanged DEF resolve, Types
<1> QED BY <1>1, <1>2

LEMMA AdvanceHeld ==
  ASSUME Types, \A ch \in Channels : Held(ch), NEW micros \in Nat, advance(micros)
  PROVE  \A ch \in Channels : Held(ch)'
BY HeldUnchanged DEF advance, recovery, engine

LEMMA PollBeginHeld ==
  ASSUME Types, \A ch \in Channels : Held(ch), PollBegin
  PROVE  \A ch \in Channels : Held(ch)'
<1>1. PICK reached \in [Channels -> UNION {Progress(ch) : ch \in Channels}] :
        (\A ch \in Channels : reached[ch] \in Progress(ch)) /\ take_progress(reached)
  BY DEF PollBegin
<1>2. ASSUME NEW ch \in Channels PROVE Held(ch)'
  <2> DEFINE moves == flags[ch].core = "BUSY" /\ reached[ch] > position[ch]
  <2>1. CASE moves
    <3>1. /\ flags'[ch] = Without(flags[ch], {"STALLED"})
          /\ position'[ch] = Reached(ch, reached[ch])
      BY <1>1, <2>1, Zenon DEF take_progress
    <3>2. flags'[ch].core = "BUSY" /\ flags'[ch].statuses = flags[ch].statuses \ {"STALLED"}
      <4>1. flags[ch] \in FlagWord /\ {"STALLED"} \in SUBSET Statuses  BY DEF Types, Statuses
      <4>2. flags[ch].core = "BUSY"  BY <2>1
      <4> QED BY <3>1, <4>1, <4>2, WordEdits
    <3>3. position'[ch] <= length[ch]
      BY <1>1, <3>1, ReportsNat, ReachedInside
    <3>4. Held(ch) /\ flags[ch].core = "BUSY" /\ "MEASURED" \notin flags[ch].statuses
      BY <2>1 DEF Held
    <3> QED BY <3>2, <3>3, <3>4 DEF PollBegin, Held, engine
  <2>2. CASE ~moves
    <3>1. flags'[ch] = flags[ch] /\ position'[ch] = position[ch]
      BY <1>1, <2>2 DEF take_progress
    <3> QED BY <3>1, HeldUnchanged DEF PollBegin, engine
  <2> QED BY <2>1, <2>2
<1> QED BY <1>2

(* The walk detaches a channel that leaves under no transfer, and leaves    *)
(* every other as its flag word reads.                                     *)
LEMMA ServicedCases ==
  ASSUME Types, NEW ch \in Channels, NEW settled \in BOOLEAN
  PROVE  LET word == Serviced(ch, settled)
             lapsed == flags[ch].core = "BUSY" /\ Elapsed(ch)
         IN  IF flags[ch].core \notin {"SEPARATUS", "BUSY"} /\ "SEPARANS" \in flags[ch].statuses
             THEN word = Detached
             ELSE /\ word \in FlagWord
                  /\ word.core = flags[ch].core /\ word.region = flags[ch].region
                  /\ word.statuses = (flags[ch].statuses \ (IF settled THEN {"SETTLING"} ELSE {}))
                                        \cup (IF lapsed THEN {"STALLED"} ELSE {})
<1> DEFINE calm == IF settled THEN Without(flags[ch], {"SETTLING"}) ELSE flags[ch]
           lapsed == flags[ch].core = "BUSY" /\ Elapsed(ch)
           watched == IF calm.core = "BUSY" /\ Elapsed(ch) THEN Plus(calm, {"STALLED"}) ELSE calm
<1>1. /\ calm \in FlagWord /\ calm.core = flags[ch].core /\ calm.region = flags[ch].region
      /\ calm.statuses = flags[ch].statuses \ (IF settled THEN {"SETTLING"} ELSE {})
  BY WordEdits DEF Types, Statuses
<1>2. /\ watched \in FlagWord /\ watched.core = flags[ch].core
      /\ watched.region = flags[ch].region
      /\ watched.statuses = calm.statuses \cup (IF lapsed THEN {"STALLED"} ELSE {})
  <2> HIDE DEF calm
  <2> QED BY <1>1, WordEdits DEF Statuses
<1>3. Serviced(ch, settled) =
        IF flags[ch].core # "SEPARATUS" /\ Leaves(watched) THEN Detached ELSE watched
  BY DEF Serviced
<1>4. Leaves(watched) <=> flags[ch].core # "BUSY" /\ "SEPARANS" \in flags[ch].statuses
  <2> HIDE DEF watched, calm
  <2> QED BY <1>1, <1>2 DEF Leaves
<1> HIDE DEF watched, calm
<1> QED BY <1>1, <1>2, <1>3, <1>4

LEMMA WalkHeld ==
  ASSUME Types, \A ch \in Channels : Held(ch), NEW ch \in Channels, Walk(ch)
  PROVE  \A c \in Channels : Held(c)'
<1>1. flags'[ch] = Serviced(ch, poll.settled) /\ poll.settled \in BOOLEAN
  BY DEF Walk, Types
<1>2. Held(ch)'
  <2>1. CASE flags[ch].core \notin {"SEPARATUS", "BUSY"} /\ "SEPARANS" \in flags[ch].statuses
    <3>1. flags'[ch] = Detached /\ flags[ch] # Detached
      <4>1. flags'[ch] = Detached  BY <1>1, <2>1, ServicedCases
      <4> QED BY <2>1, <4>1 DEF Detached
    <3>2. position'[ch] = 0 /\ length'[ch] = 0 /\ ~moving'[ch]
      BY <2>1, <3>1 DEF Walk, Types, Held, engine
    <3> QED BY <3>1, <3>2 DEF Held, Detached
  <2>2. CASE ~(flags[ch].core \notin {"SEPARATUS", "BUSY"} /\ "SEPARANS" \in flags[ch].statuses)
    <3>1. /\ flags'[ch] \in FlagWord /\ flags'[ch].core = flags[ch].core
          /\ flags'[ch].region = flags[ch].region
          /\ "MEASURED" \in flags'[ch].statuses => "MEASURED" \in flags[ch].statuses
          /\ "STALLED" \in flags'[ch].statuses => flags[ch].core = "BUSY"
      BY <1>1, <2>2, ServicedCases DEF Held
    <3>2. flags[ch].core = "SEPARATUS" => flags'[ch] = Detached
      <4> SUFFICES ASSUME flags[ch].core = "SEPARATUS" PROVE flags'[ch] = Detached  OBVIOUS
      <4>1. flags[ch] = Detached  BY DEF Held
      <4>2. flags'[ch].statuses = {}
        BY <1>1, <2>2, <4>1, ServicedCases DEF Detached
      <4> QED BY <3>1, <4>1, <4>2 DEF FlagWord, Detached
    <3>3. flags'[ch] = Detached => flags[ch] = Detached
      BY <3>1 DEF Held, Detached
    <3> QED BY <3>1, <3>2, <3>3 DEF Walk, Held, recovery, engine, BoundarySpan
  <2> QED BY <2>1, <2>2
<1>3. ASSUME NEW c \in Channels \ {ch} PROVE Held(c)'
  <2>1. /\ flags'[c] = flags[c] /\ position'[c] = position[c] /\ length'[c] = length[c]
        /\ start'[c] = start[c] /\ bound'[c] = bound[c] /\ bound_bytes'[c] = bound_bytes[c]
        /\ boundary_crc'[c] = boundary_crc[c]
    <3>1. CASE flags'[ch] = Detached /\ flags[ch] # Detached
      BY <1>3, <3>1 DEF Walk, Types
    <3>2. CASE ~(flags'[ch] = Detached /\ flags[ch] # Detached)
      BY <1>3, <3>2 DEF Walk, Types, recovery
    <3> QED BY <3>1, <3>2
  <2> QED BY <1>3, <2>1, HeldUnchanged DEF Walk, engine
<1> QED BY <1>2, <1>3

(* The engine writes only while a byte of its transfer is left. *)
LEMMA WriteHeld ==
  ASSUME Types, \A ch \in Channels : Held(ch), NEW ch \in Channels, Write(ch)
  PROVE  \A c \in Channels : Held(c)'
<1>1. Held(ch)'
  BY OrdoAssumption DEF Write, Held, Types, recovery, BoundarySpan
<1>2. ASSUME NEW c \in Channels \ {ch} PROVE Held(c)'
  BY <1>2, HeldUnchanged DEF Write, Types, recovery
<1> QED BY <1>1, <1>2

(* A step of the context leaves every channel saying what is so. *)
LEMMA NextHeld ==
  ASSUME Types, \A ch \in Channels : Held(ch), [Next]_vars
  PROVE  \A ch \in Channels : Held(ch)'
<1> DEFINE Kept == \A ch \in Channels : Held(ch)'
<1>1. CASE Application
  <2>1. CASE reset  BY <2>1, ResetHeld
  <2>2. CASE \E ticks \in Ticks : advance_ticks(ticks)
    BY <2>2, AdvanceHeld, TicksNat DEF advance_ticks
  <2>3. ASSUME NEW ch \in Channels, NEW region \in Regions, adnectere(ch, region) PROVE Kept
    BY <2>3, AdnectereHeld
  <2>4. ASSUME NEW ch \in Channels, separare(ch) PROVE Kept  BY <2>4, SeparareHeld
  <2>5. ASSUME NEW ch \in Channels, NEW offset \in Offsets, NEW bytes \in Lengths,
               relatio(ch, offset, bytes)
        PROVE  Kept
    BY <2>5, RelatioHeld
  <2>6. ASSUME NEW ch \in Channels, NEW at \in Reports(ch), efficere(ch, at) PROVE Kept
    BY <2>6, EfficereHeld
  <2>7. ASSUME NEW ch \in Channels, NEW failed \in BOOLEAN, completed(ch, failed) PROVE Kept
    BY <2>7, CompletedHeld
  <2>8. ASSUME NEW ch \in Channels, NEW recovered \in {"ABANDONED", "SCRUBBED"},
               resolve(ch, recovered)
        PROVE  Kept
    BY <2>8, ResolveHeld
  <2> QED BY <1>1, <2>1, <2>2, <2>3, <2>4, <2>5, <2>6, <2>7, <2>8 DEF Application
<1>2. CASE PollBegin  BY <1>2, PollBeginHeld
<1>3. CASE PollShort \/ PollWalk \/ PollEnd \/ raise
  BY <1>3, HeldUnchanged DEF PollShort, PollWalk, PollEnd, raise, timers, recovery, engine
<1>4. ASSUME NEW ch \in Channels, Walk(ch) PROVE Kept  BY <1>4, WalkHeld
<1>5. ASSUME NEW ch \in Channels, Write(ch) PROVE Kept  BY <1>5, WriteHeld
<1>6. CASE UNCHANGED vars
  BY <1>6, HeldUnchanged DEF vars, timers, recovery, engine
<1> QED BY <1>1, <1>2, <1>3, <1>4, <1>5, <1>6 DEF Next, Poll

----------------------------------------------------------------------------
(* What the poll has established. *)

(* A channel that is not due to leave, is not settling past the settle      *)
(* time, and reads stalled if its window lapsed.                           *)
NothingDue(ch) ==
  /\ ~(flags[ch].core \notin {"SEPARATUS", "BUSY"} /\ "SEPARANS" \in flags[ch].statuses)
  /\ elapsed_micros >= settle_deadline => "SETTLING" \notin flags[ch].statuses
  /\ flags[ch].core = "BUSY" /\ Elapsed(ch) => "STALLED" \in flags[ch].statuses

(* A walk has nothing to do there. *)
LEMMA QuietWhen == Types => \A ch \in Channels : NothingDue(ch) => Quiet(ch)
<1> SUFFICES ASSUME Types, NEW ch \in Channels, NothingDue(ch) PROVE Quiet(ch)
  OBVIOUS
<1> DEFINE word == Serviced(ch, elapsed_micros >= settle_deadline)
<1>1. (elapsed_micros >= settle_deadline) \in BOOLEAN  OBVIOUS
<1>2. /\ word \in FlagWord
      /\ word.core = flags[ch].core /\ word.region = flags[ch].region
      /\ word.statuses = (flags[ch].statuses \ (IF elapsed_micros >= settle_deadline
                                                  THEN {"SETTLING"} ELSE {}))
                            \cup (IF flags[ch].core = "BUSY" /\ Elapsed(ch)
                                   THEN {"STALLED"} ELSE {})
  BY <1>1, ServicedCases DEF NothingDue
<1>3. word.statuses = flags[ch].statuses  BY <1>2 DEF NothingDue
<1>4. flags[ch] \in FlagWord  BY DEF Types
<1> HIDE DEF word
<1>5. word = flags[ch]  BY <1>2, <1>3, <1>4 DEF FlagWord
<1> QED BY <1>5 DEF Quiet, word

(* The same after a step. *)
LEMMA QuietThen == (Types => \A ch \in Channels : NothingDue(ch) => Quiet(ch))'
BY QuietWhen, PTL

(* What a walk is due at a channel depends on its flag word and the clock. *)
LEMMA QuietUnchanged ==
  ASSUME NEW ch \in Channels, Quiet(ch), flags'[ch] = flags[ch],
         keepalive_deadline'[ch] = keepalive_deadline[ch],
         elapsed_micros' = elapsed_micros, settle_deadline' = settle_deadline
  PROVE  Quiet(ch)'
BY DEF Quiet, Serviced, Elapsed, Leaves

(* One step of the walk leaves its channel with nothing to do. *)
LEMMA WalkQuiet ==
  ASSUME Types, \A ch \in Channels : Held(ch), Types', \A ch \in Channels : Held(ch)',
         Walked, NEW ch \in Channels, Walk(ch)
  PROVE  Quiet(ch)'
<1>0. NothingDue(ch)' => Quiet(ch)'  BY QuietThen
<1>1. /\ poll.settled = (elapsed_micros >= settle_deadline)
      /\ flags'[ch] = Serviced(ch, poll.settled) /\ poll.settled \in BOOLEAN
      /\ elapsed_micros' = elapsed_micros /\ settle_deadline' = settle_deadline
  BY DEF Walk, Types, Walked
<1>2. CASE flags[ch].core \notin {"SEPARATUS", "BUSY"} /\ "SEPARANS" \in flags[ch].statuses
  <2>1. flags'[ch] = Detached  BY <1>1, <1>2, ServicedCases
  <2> QED BY <1>0, <2>1 DEF NothingDue, Detached
<1>3. CASE ~(flags[ch].core \notin {"SEPARATUS", "BUSY"} /\ "SEPARANS" \in flags[ch].statuses)
  <2>1. /\ flags'[ch].core = flags[ch].core
        /\ flags'[ch].statuses = (flags[ch].statuses \ (IF poll.settled THEN {"SETTLING"} ELSE {}))
              \cup (IF flags[ch].core = "BUSY" /\ Elapsed(ch) THEN {"STALLED"} ELSE {})
    <3> DEFINE word == Serviced(ch, poll.settled)
    <3>1. /\ word.core = flags[ch].core
          /\ word.statuses = (flags[ch].statuses \ (IF poll.settled THEN {"SETTLING"} ELSE {}))
                \cup (IF flags[ch].core = "BUSY" /\ Elapsed(ch) THEN {"STALLED"} ELSE {})
      BY <1>1, <1>3, ServicedCases
    <3>2. flags'[ch] = word  BY <1>1
    <3> HIDE DEF word
    <3> QED BY <3>1, <3>2
  <2>2. "SEPARANS" \in flags'[ch].statuses => "SEPARANS" \in flags[ch].statuses
    BY <2>1
  <2>3. elapsed_micros' >= settle_deadline' => "SETTLING" \notin flags'[ch].statuses
    BY <1>1, <2>1
  <2>4. flags'[ch].core = "BUSY" => keepalive_deadline'[ch] = keepalive_deadline[ch]
    <3>1. flags'[ch].core = "BUSY" => flags'[ch] # Detached  BY DEF Detached
    <3> QED BY <3>1 DEF Walk
  <2>5. flags'[ch].core = "BUSY" /\ Elapsed(ch)' => "STALLED" \in flags'[ch].statuses
    BY <1>1, <2>1, <2>4 DEF Elapsed
  <2> QED BY <1>0, <1>3, <2>1, <2>2, <2>3, <2>5 DEF NothingDue
<1> QED BY <1>2, <1>3

LEMMA InitWalked == Init => Walked
<1> SUFFICES ASSUME Init PROVE Walked  OBVIOUS
<1>1. \A ch \in Channels : NothingDue(ch)  BY DEF Init, NothingDue, Detached
<1>2. Types  BY InitTypes
<1> QED BY <1>1, <1>2, QuietWhen DEF Init, Walked

(* An entry of the application raises set, or starts the context over. *)
LEMMA ApplicationWalked ==
  ASSUME Types', Application PROVE Walked'
<1>1. poll'.pc = "none"
  BY DEF Application, reset, advance_ticks, advance, adnectere, separare, relatio, efficere,
         completed, resolve
<1>2. CASE reset
  <2>1. \A ch \in Channels : NothingDue(ch)'  BY <1>2 DEF reset, NothingDue, Detached
  <2> QED BY <1>1, <2>1, QuietThen DEF Walked
<1>3. CASE ~reset
  <2>1. set' = TRUE
    BY <1>3 DEF Application, advance_ticks, advance, adnectere, separare, relatio, efficere,
         completed, resolve
  <2> QED BY <1>1, <2>1 DEF Walked
<1> QED BY <1>2, <1>3

(* A poll that finds no report leaves every flag word as it was. *)
LEMMA PollBeginWalked ==
  ASSUME Types, Walked, PollBegin PROVE Walked'
<1>1. PICK reached \in [Channels -> UNION {Progress(ch) : ch \in Channels}] :
        take_progress(reached)
  BY DEF PollBegin
<1>2. poll'.pc = "ask"  BY <1>1 DEF take_progress
<1>3. ASSUME ~set', ~poll'.moved, NEW ch \in Channels PROVE Quiet(ch)'
  <2>1. Quiet(ch)  BY <1>3 DEF PollBegin, Walked
  <2>2. ~(flags[ch].core = "BUSY" /\ reached[ch] > position[ch])
    BY <1>1, <1>3 DEF take_progress
  <2>3. flags'[ch] = flags[ch] /\ keepalive_deadline'[ch] = keepalive_deadline[ch]
    BY <1>1, <2>2 DEF take_progress
  <2> QED BY <2>1, <2>3, QuietUnchanged DEF PollBegin
<1> QED BY <1>2, <1>3 DEF Walked

LEMMA WalkWalked ==
  ASSUME Types, \A ch \in Channels : Held(ch), Types', \A ch \in Channels : Held(ch)',
         Walked, NEW ch \in Channels, Walk(ch)
  PROVE  Walked'
<1>1. /\ poll'.pc = "walk" /\ poll'.left = poll.left \ {ch}
      /\ poll'.settled = poll.settled /\ poll.pc = "walk"
  BY DEF Walk, Types
<1>2. Quiet(ch)'  BY WalkQuiet
<1>3. ASSUME NEW c \in Channels \ poll.left, c # ch PROVE Quiet(c)'
  <2>1. Quiet(c)  BY <1>1, <1>3 DEF Walked
  <2>2. flags'[c] = flags[c]  BY <1>3 DEF Walk, Types
  <2>3. keepalive_deadline'[c] = keepalive_deadline[c]
    BY <1>3 DEF Walk, Types
  <2> QED BY <2>1, <2>2, <2>3, QuietUnchanged DEF Walk
<1> QED BY <1>1, <1>2, <1>3 DEF Walked, Walk

(* A step of the context leaves what the poll established. *)
LEMMA NextWalked ==
  ASSUME OrdoInv, Types', \A ch \in Channels : Held(ch)', [Next]_vars PROVE Walked'
<1> USE DEF OrdoInv
<1>1. CASE Application  BY <1>1, ApplicationWalked
<1>2. CASE PollBegin  BY <1>2, PollBeginWalked
<1>3. CASE PollShort
  <2>1. poll'.pc = "none" /\ \A ch \in Channels : Quiet(ch)
    BY <1>3 DEF PollShort, Walked, Types
  <2> QED BY <1>3, <2>1, QuietUnchanged DEF PollShort, Walked, timers
<1>4. CASE PollWalk
  BY <1>4 DEF PollWalk, Walked, Types, timers
<1>5. ASSUME NEW ch \in Channels, Walk(ch) PROVE Walked'  BY <1>5, WalkWalked
<1>6. CASE PollEnd
  <2>1. poll'.pc = "none" /\ \A ch \in Channels : Quiet(ch)
    BY <1>6 DEF PollEnd, Walked, Types
  <2> QED BY <1>6, <2>1, QuietUnchanged DEF PollEnd, Walked, timers
<1>7. CASE raise
  BY <1>7, QuietUnchanged DEF raise, Walked, timers
<1>8. ASSUME NEW ch \in Channels, Write(ch) PROVE Walked'
  BY <1>8, QuietUnchanged DEF Write, Walked, timers
<1>9. CASE UNCHANGED vars
  BY <1>9, QuietUnchanged DEF vars, Walked, timers
<1> QED BY <1>1, <1>2, <1>3, <1>4, <1>5, <1>6, <1>7, <1>8, <1>9 DEF Next, Poll

(* busy is up while a poll runs, and only then. *)
LEMMA NextPolled ==
  ASSUME Types, Polled, [Next]_vars PROVE Polled'
<1>1. CASE Application
  BY <1>1 DEF Polled, Application, reset, advance_ticks, advance, adnectere, separare, relatio,
              efficere, completed, resolve
<1>2. CASE PollBegin
  <2>1. busy' = TRUE  BY <1>2 DEF PollBegin
  <2>2. poll'.pc = "ask"  BY <1>2 DEF PollBegin, take_progress
  <2> QED BY <2>1, <2>2 DEF Polled
<1>3. CASE PollShort \/ PollWalk \/ (\E ch \in Channels : Walk(ch)) \/ PollEnd
  BY <1>3 DEF Polled, PollShort, PollWalk, Walk, PollEnd, Types
<1>4. CASE raise \/ (\E ch \in Channels : Write(ch)) \/ UNCHANGED vars
  BY <1>4 DEF Polled, raise, Write, vars
<1> QED BY <1>1, <1>2, <1>3, <1>4 DEF Next, Poll

(* The invariant holds of every run of the context. *)
THEOREM Invariance == Spec => []OrdoInv
<1>1. Init => OrdoInv
  <2>1. Init => busy = FALSE /\ poll.pc = "none"  BY DEF Init
  <2>2. Init => Polled  BY <2>1 DEF Polled
  <2> QED BY <2>2, InitTypes, InitHeld, InitWalked DEF OrdoInv
<1>2. OrdoInv /\ [Next]_vars => OrdoInv'
  <2> SUFFICES ASSUME OrdoInv, [Next]_vars PROVE OrdoInv'  OBVIOUS
  <2>1. Types'  BY NextTypes DEF OrdoInv
  <2>2. \A ch \in Channels : Held(ch)'  BY NextHeld DEF OrdoInv
  <2>3. Walked'  BY <2>1, <2>2, NextWalked
  <2>4. Polled'  BY NextPolled DEF OrdoInv
  <2> QED BY <2>1, <2>2, <2>3, <2>4 DEF OrdoInv
<1> QED BY <1>1, <1>2, PTL DEF Spec

----------------------------------------------------------------------------
(* The safety properties. *)

(* TypeOK: every word of a context keeps its range, a detached channel's    *)
(* flag word is bare, and busy is up exactly while a poll runs.            *)
THEOREM TypeCorrect == Spec => []TypeOK
<1>1. OrdoInv => TypeOK
  <2> SUFFICES ASSUME OrdoInv PROVE TypeOK  OBVIOUS
  <2>1. \A ch \in Channels : position[ch] \in 0 .. length[ch] /\ length[ch] \in 0 .. Extent
    BY OrdoAssumption DEF OrdoInv, Types, Held
  <2> QED BY <2>1 DEF OrdoInv, Types, Polled, Held, TypeOK, FlagWord, Clocked
<1> QED BY <1>1, Invariance, PTL

(* NothingMissed: the walk a poll skips would have changed no flag word,    *)
(* whatever an interrupt raised and whichever raise the last walk dropped. *)
THEOREM WorkFound == Spec => []NothingMissed
<1>1. OrdoInv => NothingMissed  BY DEF OrdoInv, Walked, Quiet, NothingMissed
<1> QED BY <1>1, Invariance, PTL

(* WritesHeld: the engine writes only into storage its channel holds.       *)
THEOREM EngineInside == Spec => []WritesHeld
<1>1. OrdoInv => WritesHeld
  <2> SUFFICES ASSUME OrdoInv, NEW ch \in Channels, moving[ch]
               PROVE  /\ flags[ch].core = "BUSY" /\ start[ch] >= bound[ch]
                      /\ start[ch] + wrote[ch] <= bound[ch] + bound_bytes[ch]
    BY DEF WritesHeld
  <2>1. /\ start[ch] \in Int /\ wrote[ch] \in Int /\ length[ch] \in Int
        /\ bound[ch] \in Int /\ bound_bytes[ch] \in Int
    BY OrdoAssumption DEF OrdoInv, Types
  <2> QED BY <2>1 DEF OrdoInv, Held
<1> QED BY <1>1, Invariance, PTL

(* MeasuredTold: the span a resolved channel's checksum is of is the word    *)
(* the sample of that transfer fell inside, and ends where commotus_est      *)
(* ends.                                                                   *)
THEOREM MeasureIsOfTheTransfer == Spec => []MeasuredTold
<1>1. OrdoInv => MeasuredTold
  <2> SUFFICES ASSUME OrdoInv, NEW ch \in Channels, "MEASURED" \in flags[ch].statuses
               PROVE  /\ flags[ch].core = "ADNEXUS"
                      /\ boundary_crc[ch][2] = start[ch] + commotus_est(ch)
                      /\ boundary_crc[ch][1] < start[ch] + situs(ch)
                      /\ start[ch] + situs(ch) <= boundary_crc[ch][2]
    BY DEF MeasuredTold
  <2> DEFINE r == position[ch] % Word
             first == position[ch] - r
             last == IF first + Word > length[ch] THEN length[ch] ELSE first + Word
  <2>1. flags[ch].core = "ADNEXUS" /\ r # 0 /\ boundary_crc[ch] = BoundarySpan(ch)
    BY DEF OrdoInv, Held
  <2>2. /\ Word \in Nat \ {0} /\ position[ch] \in Nat /\ length[ch] \in Nat
        /\ start[ch] \in Int /\ position[ch] <= length[ch]
    BY OrdoAssumption DEF OrdoInv, Types, Held
  <2>3. r \in 1 .. Word - 1  BY <2>1, <2>2
  <2>4. boundary_crc[ch][1] = start[ch] + first /\ boundary_crc[ch][2] = start[ch] + last
    BY <2>1 DEF BoundarySpan
  <2>5. commotus_est(ch) = IF Word - r >= length[ch] - position[ch] THEN length[ch]
                           ELSE position[ch] + (Word - r)
    BY <2>1 DEF commotus_est
  <2> HIDE DEF r
  <2> QED BY <2>1, <2>2, <2>3, <2>4, <2>5 DEF situs
<1> QED BY <1>1, Invariance, PTL

----------------------------------------------------------------------------
(* Stalls, where a context ends a keepalive window short of the clock's      *)
(* wrap: the deadline of a running channel then says how long ago it last   *)
(* showed life.                                                            *)

Watched(ch) ==
  /\ flags[ch].core = "BUSY" =>
       \/ unkicked[ch] >= KeepaliveMicros
       \/ unkicked[ch] + keepalive_deadline[ch] >= clock + KeepaliveMicros
  /\ "STALLED" \in flags[ch].statuses => unkicked[ch] >= KeepaliveMicros

StallInv ==
  /\ elapsed_micros = clock /\ clock <= ClockMost
  /\ \A ch \in Channels : Watched(ch)

ShortOfWrap == ClockMost + KeepaliveMicros < 2 ^ Width

(* Short of the wrap a deadline is the sum it was computed as.              *)
LEMMA LaterIsSum ==
  ASSUME ShortOfWrap, StallInv, Types, NEW n \in Nat, clock + n < 2 ^ Width
  PROVE  Later(n) = clock + n
<1>1. 2 ^ Width \in Nat \ {0} /\ clock \in Nat  BY Wraps DEF Types
<1> QED BY <1>1 DEF Later, StallInv

(* What a channel's window says is of its flag word and its own timers. *)
LEMMA WatchedUnchanged ==
  ASSUME NEW ch \in Channels, Watched(ch), flags'[ch] = flags[ch], clock' = clock,
         keepalive_deadline'[ch] = keepalive_deadline[ch], unkicked'[ch] = unkicked[ch]
  PROVE  Watched(ch)'
BY DEF Watched

(* A kick starts the window over: the deadline is a whole window ahead.     *)
LEMMA Kicked ==
  ASSUME ShortOfWrap, StallInv, Types, NEW ch \in Channels, clock' = clock,
         keepalive_deadline'[ch] = Later(KeepaliveMicros), unkicked'[ch] = 0,
         "STALLED" \notin flags'[ch].statuses
  PROVE  Watched(ch)'
<1>1. 2 ^ Width \in Nat \ {0} /\ clock \in Nat /\ KeepaliveMicros \in Nat /\ ClockMost \in Nat
  BY Wraps, OrdoAssumption DEF Types
<1>2. Later(KeepaliveMicros) = clock + KeepaliveMicros
  BY <1>1, LaterIsSum DEF ShortOfWrap, StallInv
<1> QED BY <1>1, <1>2 DEF Watched

LEMMA AdvanceWatched ==
  ASSUME ShortOfWrap, StallInv, Types, \A ch \in Channels : Held(ch),
         NEW micros \in Nat, advance(micros)
  PROVE  StallInv'
<1>1. /\ 2 ^ Width \in Nat \ {0} /\ clock \in Nat /\ KeepaliveMicros \in Nat
      /\ ClockMost \in Nat
  BY Wraps, OrdoAssumption DEF Types
<1>2. clock' = clock + micros /\ clock + micros <= ClockMost  BY DEF advance
<1>3. elapsed_micros' = clock'
  BY <1>1, <1>2, LaterIsSum DEF advance, ShortOfWrap
<1>4. ASSUME NEW ch \in Channels PROVE Watched(ch)'
  <2>1. /\ unkicked[ch] \in Nat /\ keepalive_deadline[ch] \in Int
        /\ flags' = flags /\ keepalive_deadline' = keepalive_deadline
    BY Wraps DEF Types, Clocked, advance
  <2>2. CASE flags[ch].core = "BUSY"
    <3>1. unkicked'[ch] = IF unkicked[ch] + micros > KeepaliveMicros THEN KeepaliveMicros
                          ELSE unkicked[ch] + micros
      BY <2>2 DEF advance
    <3>2. Watched(ch)  BY DEF StallInv
    <3> QED BY <1>1, <1>2, <2>1, <2>2, <3>1, <3>2 DEF Watched
  <2>3. CASE flags[ch].core # "BUSY"
    BY <2>1, <2>3 DEF Watched, Held
  <2> QED BY <2>2, <2>3
<1> QED BY <1>2, <1>3, <1>4 DEF StallInv

(* An entry that moves no clock leaves the windows honest. *)
LEMMA EntryWatched ==
  ASSUME ShortOfWrap, StallInv, Types, \A ch \in Channels : Held(ch),
         \A ch \in Channels : Held(ch)', NEW ch \in Channels,
         \/ \E region \in Regions : adnectere(ch, region)
         \/ separare(ch)
         \/ \E offset \in Offsets, bytes \in Lengths : relatio(ch, offset, bytes)
         \/ \E at \in Reports(ch) : efficere(ch, at)
         \/ \E failed \in BOOLEAN : completed(ch, failed)
         \/ \E recovered \in {"ABANDONED", "SCRUBBED"} : resolve(ch, recovered)
  PROVE  StallInv'
<1>1. elapsed_micros' = elapsed_micros /\ clock' = clock
  BY DEF adnectere, separare, timers, relatio, efficere, completed, resolve
<1>2. ASSUME NEW c \in Channels \ {ch} PROVE Watched(c)'
  <2>1. /\ flags'[c] = flags[c] /\ keepalive_deadline'[c] = keepalive_deadline[c]
        /\ unkicked'[c] = unkicked[c]
    BY <1>2 DEF adnectere, separare, timers, relatio, efficere, completed, resolve, Types
  <2> QED BY <1>1, <2>1, WatchedUnchanged DEF StallInv
<1>3. Watched(ch)  BY DEF StallInv
<1>4. CASE \E region \in Regions : adnectere(ch, region)
  <2>1. flags'[ch].core = "ADNEXUS" /\ "STALLED" \notin flags'[ch].statuses
    BY <1>4 DEF adnectere, Types
  <2> QED BY <1>1, <1>2, <2>1 DEF Watched, StallInv
<1>5. CASE separare(ch)
  <2>1. /\ flags'[ch].core = flags[ch].core
        /\ flags'[ch].statuses = flags[ch].statuses \cup {"SEPARANS"}
    BY <1>5, WordEdits DEF separare, Types, Statuses
  <2>2. keepalive_deadline' = keepalive_deadline /\ unkicked' = unkicked
    BY <1>5 DEF separare, timers
  <2> QED BY <1>1, <1>2, <1>3, <2>1, <2>2 DEF Watched, StallInv
<1>6. CASE \E offset \in Offsets, bytes \in Lengths : relatio(ch, offset, bytes)
  <2>1. keepalive_deadline'[ch] = Later(KeepaliveMicros) /\ unkicked'[ch] = 0
    BY <1>6 DEF relatio, Types
  <2>2. "STALLED" \notin flags'[ch].statuses
    <3>1. /\ Without(flags[ch], TransferStatuses) \in FlagWord
          /\ Without(flags[ch], TransferStatuses).statuses = flags[ch].statuses \ TransferStatuses
      BY WordEdits DEF Types, Statuses, TransferStatuses
    <3>2. flags'[ch].statuses = flags[ch].statuses \ TransferStatuses
      BY <1>6, <3>1 DEF relatio, Types, FlagWord
    <3> QED BY <3>2 DEF TransferStatuses
  <2> QED BY <1>1, <1>2, <2>1, <2>2, Kicked DEF StallInv
<1>7. CASE \E at \in Reports(ch) : efficere(ch, at)
  <2>1. keepalive_deadline'[ch] = Later(KeepaliveMicros) /\ unkicked'[ch] = 0
    BY <1>7 DEF efficere, Types
  <2>2. "STALLED" \notin flags'[ch].statuses
    BY <1>7, WordEdits DEF efficere, Types, Statuses
  <2> QED BY <1>1, <1>2, <2>1, <2>2, Kicked DEF StallInv
<1>8. CASE \/ \E failed \in BOOLEAN : completed(ch, failed)
           \/ \E recovered \in {"ABANDONED", "SCRUBBED"} : resolve(ch, recovered)
  <2>1. ~moving'[ch]  BY <1>8 DEF completed, resolve, Types
  <2>2. flags'[ch].core # "BUSY" /\ "STALLED" \notin flags'[ch].statuses
    BY <2>1 DEF Held
  <2> QED BY <1>1, <1>2, <2>2 DEF Watched, StallInv
<1> QED BY <1>4, <1>5, <1>6, <1>7, <1>8

LEMMA PollBeginWatched ==
  ASSUME ShortOfWrap, StallInv, Types, PollBegin PROVE StallInv'
<1>1. PICK reached \in [Channels -> UNION {Progress(ch) : ch \in Channels}] :
        take_progress(reached)
  BY DEF PollBegin
<1>2. elapsed_micros' = elapsed_micros /\ clock' = clock  BY DEF PollBegin
<1>3. ASSUME NEW ch \in Channels PROVE Watched(ch)'
  <2> DEFINE moves == flags[ch].core = "BUSY" /\ reached[ch] > position[ch]
  <2>1. CASE moves
    <3>1. /\ flags'[ch] = Without(flags[ch], {"STALLED"})
          /\ keepalive_deadline'[ch] = Later(KeepaliveMicros) /\ unkicked'[ch] = 0
      BY <1>1, <2>1, Zenon DEF take_progress
    <3>2. "STALLED" \notin flags'[ch].statuses
      BY <3>1, WordEdits DEF Types, Statuses
    <3> QED BY <1>2, <3>1, <3>2, Kicked
  <2>2. CASE ~moves
    <3>1. /\ flags'[ch] = flags[ch] /\ unkicked'[ch] = unkicked[ch]
          /\ keepalive_deadline'[ch] = keepalive_deadline[ch]
      BY <1>1, <2>2 DEF take_progress
    <3> QED BY <1>2, <3>1, WatchedUnchanged DEF StallInv
  <2> QED BY <2>1, <2>2
<1> QED BY <1>2, <1>3 DEF StallInv

(* The walk marks a channel stalled only once its deadline has passed. *)
LEMMA WalkWatched ==
  ASSUME StallInv, Types, \A ch \in Channels : Held(ch), NEW ch \in Channels, Walk(ch)
  PROVE  StallInv'
<1>1. /\ elapsed_micros' = elapsed_micros /\ clock' = clock /\ unkicked' = unkicked
      /\ elapsed_micros = clock
  BY DEF Walk, StallInv
<1>2. flags'[ch] = Serviced(ch, poll.settled) /\ poll.settled \in BOOLEAN
  BY DEF Walk, Types
<1>3. Watched(ch)'
  <2>1. CASE flags[ch].core \notin {"SEPARATUS", "BUSY"} /\ "SEPARANS" \in flags[ch].statuses
    <3>1. flags'[ch] = Detached  BY <1>2, <2>1, ServicedCases
    <3> QED BY <3>1 DEF Watched, Detached
  <2>2. CASE ~(flags[ch].core \notin {"SEPARATUS", "BUSY"} /\ "SEPARANS" \in flags[ch].statuses)
    <3>1. /\ flags'[ch].core = flags[ch].core
          /\ "STALLED" \in flags'[ch].statuses =>
               "STALLED" \in flags[ch].statuses \/ (flags[ch].core = "BUSY" /\ Elapsed(ch))
      BY <1>2, <2>2, ServicedCases
    <3>2. flags'[ch].core = "BUSY" => keepalive_deadline'[ch] = keepalive_deadline[ch]
      <4>1. flags'[ch].core = "BUSY" => flags'[ch] # Detached  BY DEF Detached
      <4> QED BY <4>1 DEF Walk
    <3>3. /\ unkicked[ch] \in Nat /\ keepalive_deadline[ch] \in Int /\ clock \in Nat
          /\ KeepaliveMicros \in Nat
      BY Wraps, OrdoAssumption DEF Types, Clocked
    <3>4. flags[ch].core = "BUSY" /\ Elapsed(ch) => unkicked[ch] >= KeepaliveMicros
      BY <1>1, <3>3 DEF Elapsed, Watched, StallInv
    <3> QED BY <1>1, <3>1, <3>2, <3>4 DEF Watched, StallInv
  <2> QED BY <2>1, <2>2
<1>4. ASSUME NEW c \in Channels \ {ch} PROVE Watched(c)'
  <2>1. flags'[c] = flags[c] /\ keepalive_deadline'[c] = keepalive_deadline[c]
    BY <1>4 DEF Walk, Types
  <2> QED BY <1>1, <2>1, WatchedUnchanged DEF StallInv
<1> QED BY <1>1, <1>3, <1>4 DEF StallInv

LEMMA NextWatched ==
  ASSUME ShortOfWrap, OrdoInv, OrdoInv', StallInv, [Next]_vars PROVE StallInv'
<1> USE DEF OrdoInv
<1>1. CASE Application
  <2>1. CASE reset
    BY <2>1, OrdoAssumption DEF reset, StallInv, Watched, Detached
  <2>2. CASE \E ticks \in Ticks : advance_ticks(ticks)
    BY <2>2, AdvanceWatched, TicksNat DEF advance_ticks
  <2>3. CASE ~reset /\ ~(\E ticks \in Ticks : advance_ticks(ticks))
    BY <1>1, <2>3, EntryWatched DEF Application
  <2> QED BY <2>1, <2>2, <2>3
<1>2. CASE PollBegin  BY <1>2, PollBeginWatched
<1>3. ASSUME NEW ch \in Channels, Walk(ch) PROVE StallInv'  BY <1>3, WalkWatched
<1>4. CASE \/ PollShort \/ PollWalk \/ PollEnd \/ raise \/ (\E ch \in Channels : Write(ch))
           \/ UNCHANGED vars
  BY <1>4, WatchedUnchanged
     DEF PollShort, PollWalk, PollEnd, raise, Write, vars, timers, StallInv
<1> QED BY <1>1, <1>2, <1>3, <1>4 DEF Next, Poll

(* StalledHonestly: a channel reads stalled only once a whole keepalive      *)
(* window went by without a sign of life, for as long as the context stays  *)
(* a window short of the clock's wrap.                                     *)
THEOREM StalledAfterWindow == ShortOfWrap => (Spec => []StalledHonestly)
<1> SUFFICES ASSUME ShortOfWrap PROVE Spec => []StalledHonestly
  OBVIOUS
<1>1. Init => StallInv
  BY OrdoAssumption DEF Init, StallInv, Watched, Detached
<1>2. OrdoInv /\ OrdoInv' /\ StallInv /\ [Next]_vars => StallInv'
  BY NextWatched
<1>3. StallInv => StalledHonestly
  BY DEF StallInv, Watched, StalledHonestly
<1> QED BY <1>1, <1>2, <1>3, Invariance, PTL DEF Spec

----------------------------------------------------------------------------
(* PraetOrdo implements DmaChannel. *)

Leaving(ch) == "SEPARANS" \in flags[ch].statuses
Mapped == [ch \in Channels |-> [state |-> State(ch), leaving |-> Leaving(ch)]]

(* Where only one flag word changed, only its channel moved. *)
LEMMA OneMoved ==
  ASSUME NEW ch \in Channels, \A c \in Channels \ {ch} : flags'[c] = flags[c]
  PROVE  \A c \in Channels \ {ch} : Mapped'[c] = Mapped[c]
BY DEF Mapped, State, Leaving

(* It took the state its flag word reads, where its leaving stood. *)
LEMMA Became ==
  ASSUME NEW ch \in Channels, \A c \in Channels \ {ch} : flags'[c] = flags[c],
         Leaving(ch)' <=> Leaving(ch), NEW state, state = State(ch)'
  PROVE  Channel!Becomes(ch, state)
<1>1. Mapped' = [Mapped EXCEPT ![ch].state = state]
  <2>1. \A c \in Channels \ {ch} : Mapped'[c] = Mapped[c]  BY OneMoved
  <2>2. /\ Mapped'[ch] = [state |-> State(ch)', leaving |-> Leaving(ch)']
        /\ Mapped[ch] = [state |-> State(ch), leaving |-> Leaving(ch)]
    BY DEF Mapped
  <2>3. Mapped'[ch] = [Mapped[ch] EXCEPT !.state = state]
    <3>1. Leaving(ch)' = Leaving(ch)  BY DEF Leaving
    <3> HIDE DEF Mapped
    <3> QED BY <2>2, <3>1
  <2>4. Mapped' = [c \in Channels |-> Mapped'[c]] /\ Mapped = [c \in Channels |-> Mapped[c]]
    BY DEF Mapped
  <2> HIDE DEF Mapped
  <2> QED BY <2>1, <2>3, <2>4
<1> QED BY <1>1 DEF Channel!Becomes, Mapped, Leaving

(* A channel whose state and leaving stand stutters. *)
LEMMA Stood ==
  ASSUME \A ch \in Channels : State(ch)' = State(ch) /\ (Leaving(ch)' <=> Leaving(ch))
  PROVE  UNCHANGED Mapped
<1>1. \A ch \in Channels : Leaving(ch)' = Leaving(ch)  BY DEF Leaving
<1> QED BY <1>1 DEF Mapped

(* What the abstract channel reads of a flag word. *)
LEMMA Reads ==
  ASSUME Types, NEW ch \in Channels, Held(ch)
  PROVE  /\ State(ch) = "detached" <=> flags[ch].core = "SEPARATUS"
         /\ State(ch) \in {"running", "stalled"} <=> flags[ch].core = "BUSY"
         /\ State(ch) = "stalled" <=> "STALLED" \in flags[ch].statuses
         /\ State(ch) \in Channel!AtRest <=> flags[ch].core \in {"ADNEXUS", "OK"}
         /\ flags[ch].core = "SEPARATUS" => ~Leaving(ch)
BY DEF State, Types, FlagWord, Cores, Held, Detached, Leaving, Channel!AtRest

LEMMA AdnectereChannel ==
  ASSUME OrdoInv, OrdoInv', NEW ch \in Channels, NEW region \in Regions, adnectere(ch, region)
  PROVE  Channel!Attach(ch)
<1> USE DEF OrdoInv
<1>1. State(ch) = "detached" /\ ~Leaving(ch)  BY Reads DEF adnectere
<1>2. flags'[ch].core = "ADNEXUS" /\ flags'[ch].statuses \subseteq {"CLAIMED", "SETTLING"}
  BY DEF adnectere, Types
<1>3. State(ch)' = "idle" /\ ~Leaving(ch)'  BY <1>2 DEF State, Leaving
<1>4. \A c \in Channels \ {ch} : flags'[c] = flags[c]  BY DEF adnectere, Types
<1>5. Channel!Becomes(ch, "idle")  BY <1>1, <1>3, <1>4, Became
<1> QED BY <1>1, <1>5 DEF Channel!Attach

LEMMA SeparareChannel ==
  ASSUME OrdoInv, NEW ch \in Channels, separare(ch) PROVE Channel!Ask(ch)
<1> USE DEF OrdoInv
<1>1. State(ch) # "detached"  BY Reads DEF separare
<1>2. /\ flags'[ch].core = flags[ch].core
      /\ flags'[ch].statuses = flags[ch].statuses \cup {"SEPARANS"}
  BY WordEdits DEF separare, Types, Statuses
<1>3. State(ch)' = State(ch) /\ Leaving(ch)'  BY <1>2 DEF State, Leaving
<1>4. \A c \in Channels \ {ch} : Mapped'[c] = Mapped[c]
  BY OneMoved DEF separare, Types
<1>5. /\ Mapped'[ch] = [state |-> State(ch)', leaving |-> Leaving(ch)']
      /\ Mapped[ch] = [state |-> State(ch), leaving |-> Leaving(ch)]
  BY DEF Mapped
<1>6. State(ch)' = State(ch) /\ Leaving(ch)' = TRUE  BY <1>3 DEF Leaving
<1>7. Mapped'[ch] = [Mapped[ch] EXCEPT !.leaving = TRUE]
  <2>1. Mapped'[ch] = [state |-> State(ch), leaving |-> TRUE]  BY <1>5, <1>6, Zenon
  <2>2. ASSUME NEW s, NEW l, NEW t PROVE [[state |-> s, leaving |-> l] EXCEPT !.leaving = t]
                                           = [state |-> s, leaving |-> t]
    OBVIOUS
  <2>3. [[state |-> State(ch), leaving |-> Leaving(ch)] EXCEPT !.leaving = TRUE]
          = [state |-> State(ch), leaving |-> TRUE]
    BY <2>2, Zenon
  <2> QED BY <1>5, <2>1, <2>3, Zenon
<1>8. Mapped' = [c \in Channels |-> Mapped'[c]] /\ Mapped = [c \in Channels |-> Mapped[c]]
  BY DEF Mapped
<1>9. Mapped' = [Mapped EXCEPT ![ch].leaving = TRUE]
  <2> HIDE DEF Mapped
  <2> QED BY <1>4, <1>7, <1>8
<1> QED BY <1>1, <1>9 DEF Channel!Ask, Mapped, Leaving

LEMMA RelatioChannel ==
  ASSUME OrdoInv, OrdoInv', NEW ch \in Channels, NEW offset \in Offsets, NEW bytes \in Lengths,
         relatio(ch, offset, bytes)
  PROVE  Channel!Submit(ch)
<1> USE DEF OrdoInv
<1>1. State(ch) \in Channel!AtRest /\ ~Leaving(ch)
  BY Reads DEF relatio, Accepting, Leaving
<1>2. /\ flags'[ch].core = "BUSY"
      /\ flags'[ch].statuses = flags[ch].statuses \ TransferStatuses
  <2>1. /\ Without(flags[ch], TransferStatuses) \in FlagWord
        /\ Without(flags[ch], TransferStatuses).statuses = flags[ch].statuses \ TransferStatuses
    BY WordEdits DEF Types, Statuses, TransferStatuses
  <2> QED BY <2>1 DEF relatio, Types, FlagWord
<1>3. State(ch)' = "running" /\ ~Leaving(ch)'
  BY <1>1, <1>2 DEF State, Leaving, TransferStatuses
<1>4. \A c \in Channels \ {ch} : flags'[c] = flags[c]  BY DEF relatio, Types
<1>5. Channel!Becomes(ch, "running")  BY <1>1, <1>3, <1>4, Became
<1> QED BY <1>1, <1>5 DEF Channel!Submit, Leaving

LEMMA EfficereChannel ==
  ASSUME OrdoInv, NEW ch \in Channels, NEW at \in Reports(ch), efficere(ch, at)
  PROVE  Channel!Revive(ch) \/ UNCHANGED Mapped
<1> USE DEF OrdoInv
<1>1. flags'[ch].core = "BUSY" /\ flags'[ch].statuses = flags[ch].statuses \ {"STALLED"}
  BY WordEdits DEF efficere, Types, Statuses
<1>2. State(ch)' = "running" /\ (Leaving(ch)' <=> Leaving(ch))
  BY <1>1 DEF State, Leaving
<1>3. \A c \in Channels \ {ch} : flags'[c] = flags[c]  BY DEF efficere, Types
<1>4. State(ch) \in {"running", "stalled"}  BY Reads DEF efficere
<1>5. CASE State(ch) = "stalled"
  <2>1. Channel!Becomes(ch, "running")  BY <1>2, <1>3, Became
  <2> QED BY <1>5, <2>1 DEF Channel!Revive
<1>6. CASE State(ch) = "running"
  <2>1. \A c \in Channels : State(c)' = State(c) /\ (Leaving(c)' <=> Leaving(c))
    BY <1>2, <1>3, <1>6 DEF State, Leaving
  <2> QED BY <2>1, Stood
<1> QED BY <1>4, <1>5, <1>6

LEMMA CompletedChannel ==
  ASSUME OrdoInv, OrdoInv', NEW ch \in Channels, NEW failed \in BOOLEAN, completed(ch, failed)
  PROVE  Channel!Finish(ch)
<1> USE DEF OrdoInv
<1> DEFINE word == Plus(Without(flags[ch], {"STALLED"}), IF failed THEN {"ERROR"} ELSE {})
<1>1. /\ Without(flags[ch], {"STALLED"}) \in FlagWord
      /\ Without(flags[ch], {"STALLED"}).statuses = flags[ch].statuses \ {"STALLED"}
  BY WordEdits DEF Types, Statuses
<1>2. /\ word \in FlagWord
      /\ word.statuses = (flags[ch].statuses \ {"STALLED"}) \cup (IF failed THEN {"ERROR"} ELSE {})
  BY <1>1, WordEdits DEF Statuses
<1>3. flags'[ch] = [word EXCEPT !.core = "OK"]  BY DEF completed, Types
<1>4. flags'[ch].core = "OK" /\ flags'[ch].statuses = word.statuses
  <2> HIDE DEF word
  <2> QED BY <1>2, <1>3 DEF FlagWord
<1>5. State(ch)' \in {"done", "failed"}
  BY <1>4 DEF State
<1>6. Leaving(ch)' <=> Leaving(ch)
  <2> HIDE DEF word
  <2> QED BY <1>2, <1>4 DEF Leaving
<1>7. \A c \in Channels \ {ch} : flags'[c] = flags[c]  BY DEF completed, Types
<1>8. State(ch) \in {"running", "stalled"}  BY Reads DEF completed
<1>9. \E outcome \in {"done", "failed"} : Channel!Becomes(ch, outcome)
  <2>1. CASE State(ch)' = "done"  BY <1>6, <1>7, <2>1, Became
  <2>2. CASE State(ch)' = "failed"  BY <1>6, <1>7, <2>2, Became
  <2> QED BY <1>5, <2>1, <2>2
<1> QED BY <1>8, <1>9 DEF Channel!Finish

LEMMA ResolveChannel ==
  ASSUME OrdoInv, OrdoInv', NEW ch \in Channels, NEW recovered \in {"ABANDONED", "SCRUBBED"},
         resolve(ch, recovered)
  PROVE  Channel!Resolve(ch)
<1> USE DEF OrdoInv
<1> DEFINE measured == word_boundary_crc /\ position[ch] % Word # 0
           told == {recovered} \cup IF measured THEN {"MEASURED"} ELSE {}
           word == Plus(Without(flags[ch], {"STALLED"}), told)
<1>1. /\ Without(flags[ch], {"STALLED"}) \in FlagWord
      /\ Without(flags[ch], {"STALLED"}).statuses = flags[ch].statuses \ {"STALLED"}
  BY WordEdits DEF Types, Statuses
<1>2. told \in SUBSET Statuses /\ recovered \in told /\ "SEPARANS" \notin told  BY DEF Statuses
<1>3. word \in FlagWord /\ word.statuses = (flags[ch].statuses \ {"STALLED"}) \cup told
  <2> HIDE DEF told
  <2> QED BY <1>1, <1>2, WordEdits
<1>4. flags'[ch] = [word EXCEPT !.core = "ADNEXUS"]  BY DEF resolve, Types
<1>5. flags'[ch].core = "ADNEXUS" /\ flags'[ch].statuses = word.statuses
  <2> HIDE DEF word
  <2> QED BY <1>3, <1>4 DEF FlagWord
<1> HIDE DEF told, word, measured
<1>6. recovered \in flags'[ch].statuses  BY <1>2, <1>3, <1>5
<1>7. State(ch)' = "resolved"  BY <1>5, <1>6 DEF State
<1>8. Leaving(ch)' <=> Leaving(ch)  BY <1>2, <1>3, <1>5 DEF Leaving
<1>9. \A c \in Channels \ {ch} : flags'[c] = flags[c]  BY DEF resolve, Types
<1>10. State(ch) = "stalled"  BY Reads DEF resolve, Resolvable
<1>11. Channel!Becomes(ch, "resolved")  BY <1>7, <1>8, <1>9, Became
<1> QED BY <1>10, <1>11 DEF Channel!Resolve

LEMMA ResetChannel ==
  ASSUME OrdoInv, reset PROVE Channel!Reset
<1> USE DEF OrdoInv
<1>1. \A ch \in Channels : State(ch) \in Channel!AtRest \cup {"detached"}
  BY Reads DEF reset, Held, Types, FlagWord, Cores
<1>2. ASSUME NEW ch \in Channels
      PROVE  Mapped'[ch] = [state |-> "detached", leaving |-> FALSE]
  <2>1. flags'[ch] = Detached  BY DEF reset
  <2>2. State(ch)' = "detached" /\ Leaving(ch)' = FALSE
    BY <2>1 DEF State, Leaving, Detached
  <2> QED BY <2>2 DEF Mapped
<1>3. Mapped' = [ch \in Channels |-> [state |-> "detached", leaving |-> FALSE]]
  BY <1>2 DEF Mapped
<1> QED BY <1>1, <1>3 DEF Channel!Reset, Mapped, Leaving

(* A poll that finds reports takes back the stalls of the channels that moved. *)
LEMMA PollBeginChannel ==
  ASSUME OrdoInv, PollBegin PROVE Channel!ReviveSome
<1> USE DEF OrdoInv
<1>1. PICK reached \in [Channels -> UNION {Progress(ch) : ch \in Channels}] :
        take_progress(reached)
  BY DEF PollBegin
<1> DEFINE Moves(ch) == flags[ch].core = "BUSY" /\ reached[ch] > position[ch]
           S == {ch \in Channels : State(ch) = "stalled" /\ Moves(ch)}
<1>2. ASSUME NEW ch \in Channels
      PROVE  /\ State(ch)' = IF ch \in S THEN "running" ELSE State(ch)
             /\ Leaving(ch)' = Leaving(ch)
  <2>1. CASE Moves(ch)
    <3>1. flags'[ch] = Without(flags[ch], {"STALLED"})
      BY <1>1, <2>1, Zenon DEF take_progress
    <3>2. flags'[ch].core = "BUSY" /\ flags'[ch].statuses = flags[ch].statuses \ {"STALLED"}
      <4>1. flags[ch] \in FlagWord /\ {"STALLED"} \in SUBSET Statuses  BY DEF Types, Statuses
      <4>2. flags[ch].core = "BUSY"  BY <2>1
      <4> QED BY <3>1, <4>1, <4>2, WordEdits
    <3>3. State(ch)' = "running" /\ (Leaving(ch)' <=> Leaving(ch))
      BY <3>2 DEF State, Leaving
    <3>4. State(ch) \in {"running", "stalled"}  BY <2>1, Reads
    <3>5. Leaving(ch)' = Leaving(ch)  BY <3>3 DEF Leaving
    <3> QED BY <2>1, <3>3, <3>4, <3>5
  <2>2. CASE ~Moves(ch)
    <3>1. flags'[ch] = flags[ch]  BY <1>1, <2>2 DEF take_progress
    <3>2. State(ch)' = State(ch)  BY <3>1 DEF State
    <3>3. Leaving(ch)' = Leaving(ch)  BY <3>1 DEF Leaving
    <3> QED BY <2>2, <3>2, <3>3
  <2> QED BY <2>1, <2>2
<1>3. ASSUME NEW ch \in Channels
      PROVE  Mapped'[ch] = IF ch \in S THEN [Mapped[ch] EXCEPT !.state = "running"] ELSE Mapped[ch]
  <2>1. /\ Mapped'[ch] = [state |-> State(ch)', leaving |-> Leaving(ch)']
        /\ Mapped[ch] = [state |-> State(ch), leaving |-> Leaving(ch)]
    BY DEF Mapped
  <2>2. Mapped'[ch] = [state |-> IF ch \in S THEN "running" ELSE State(ch),
                       leaving |-> Leaving(ch)]
    BY <1>2, <2>1
  <2> HIDE DEF Mapped, S
  <2> QED BY <2>1, <2>2
<1>4. Mapped' = [ch \in Channels |->
                   IF ch \in S THEN [Mapped[ch] EXCEPT !.state = "running"] ELSE Mapped[ch]]
  <2>1. Mapped' = [ch \in Channels |-> Mapped'[ch]]  BY DEF Mapped
  <2> HIDE DEF Mapped, S
  <2> QED BY <1>3, <2>1
<1>5. S \in SUBSET {ch \in Channels : Mapped[ch].state = "stalled"}
  BY DEF Mapped
<1> HIDE DEF S
<1>6. \E T \in SUBSET {ch \in Channels : Mapped[ch].state = "stalled"} :
        Mapped' = [ch \in Channels |->
                     IF ch \in T THEN [Mapped[ch] EXCEPT !.state = "running"] ELSE Mapped[ch]]
  BY <1>4, <1>5
<1> QED BY <1>6 DEF Channel!ReviveSome, Mapped, Leaving

(* The walk detaches a channel at rest that leaves, and stalls a running one. *)
LEMMA WalkChannel ==
  ASSUME OrdoInv, NEW ch \in Channels, Walk(ch)
  PROVE  Channel!Detach(ch) \/ Channel!Stall(ch) \/ UNCHANGED Mapped
<1> USE DEF OrdoInv
<1>1. flags'[ch] = Serviced(ch, poll.settled) /\ poll.settled \in BOOLEAN
  BY DEF Walk, Types
<1>2. \A c \in Channels \ {ch} : flags'[c] = flags[c]  BY DEF Walk, Types
<1>3. CASE flags[ch].core \notin {"SEPARATUS", "BUSY"} /\ "SEPARANS" \in flags[ch].statuses
  <2>1. flags'[ch] = Detached  BY <1>1, <1>3, ServicedCases
  <2>2. State(ch)' = "detached" /\ Leaving(ch)' = FALSE
    BY <2>1 DEF State, Leaving, Detached
  <2>3. Mapped'[ch] = [state |-> "detached", leaving |-> FALSE]
    BY <2>2 DEF Mapped
  <2>4. \A c \in Channels \ {ch} : Mapped'[c] = Mapped[c]  BY <1>2, OneMoved
  <2>5. Mapped' = [c \in Channels |-> Mapped'[c]] /\ Mapped = [c \in Channels |-> Mapped[c]]
    BY DEF Mapped
  <2>6. Mapped' = [Mapped EXCEPT ![ch] = [state |-> "detached", leaving |-> FALSE]]
    <3> HIDE DEF Mapped
    <3> QED BY <2>3, <2>4, <2>5
  <2>7. State(ch) \in Channel!AtRest /\ Leaving(ch)
    BY <1>3, Reads DEF Types, FlagWord, Cores, Leaving
  <2> QED BY <2>6, <2>7 DEF Channel!Detach, Mapped, Leaving
<1>4. CASE ~(flags[ch].core \notin {"SEPARATUS", "BUSY"} /\ "SEPARANS" \in flags[ch].statuses)
  <2> DEFINE word == Serviced(ch, poll.settled)
             lapsed == flags[ch].core = "BUSY" /\ Elapsed(ch)
  <2>1. /\ word.core = flags[ch].core
        /\ word.statuses = (flags[ch].statuses \ (IF poll.settled THEN {"SETTLING"} ELSE {}))
                              \cup (IF lapsed THEN {"STALLED"} ELSE {})
    BY <1>1, <1>4, ServicedCases
  <2>2. flags'[ch] = word  BY <1>1
  <2> HIDE DEF word
  <2>3. Leaving(ch)' <=> Leaving(ch)  BY <2>1, <2>2 DEF Leaving
  <2>4. CASE lapsed
    <3>1. State(ch)' = "stalled"  BY <2>1, <2>2, <2>4 DEF State
    <3>2. State(ch) \in {"running", "stalled"}  BY <2>4, Reads
    <3>3. CASE State(ch) = "running"
      <4>1. Channel!Becomes(ch, "stalled")  BY <1>2, <2>3, <3>1, Became
      <4> QED BY <3>3, <4>1 DEF Channel!Stall
    <3>4. CASE State(ch) = "stalled"
      <4>1. \A c \in Channels : State(c)' = State(c) /\ (Leaving(c)' <=> Leaving(c))
        BY <1>2, <2>3, <3>1, <3>4 DEF State, Leaving
      <4> QED BY <4>1, Stood
    <3> QED BY <3>2, <3>3, <3>4
  <2>5. CASE ~lapsed
    <3>1. State(ch)' = State(ch)  BY <2>1, <2>2, <2>5 DEF State
    <3>2. \A c \in Channels : State(c)' = State(c) /\ (Leaving(c)' <=> Leaving(c))
      BY <1>2, <2>3, <3>1 DEF State, Leaving
    <3> QED BY <3>2, Stood
  <2> QED BY <2>4, <2>5
<1> QED BY <1>3, <1>4

(* A step of the context is a step of its channels or leaves them. *)
LEMMA NextChannel ==
  ASSUME OrdoInv, OrdoInv', [Next]_vars PROVE Channel!Next \/ UNCHANGED Mapped
<1>1. ASSUME UNCHANGED flags PROVE UNCHANGED Mapped
  BY <1>1 DEF Mapped, State, Leaving
<1>2. CASE Application
  <2>1. CASE reset  BY <2>1, ResetChannel DEF Channel!Next
  <2>2. CASE \E ticks \in Ticks : advance_ticks(ticks)
    BY <1>1, <2>2 DEF advance_ticks, advance
  <2>3. ASSUME NEW ch \in Channels, NEW region \in Regions, adnectere(ch, region)
        PROVE Channel!Next
    BY <2>3, AdnectereChannel DEF Channel!Next
  <2>4. ASSUME NEW ch \in Channels, separare(ch) PROVE Channel!Next
    BY <2>4, SeparareChannel DEF Channel!Next
  <2>5. ASSUME NEW ch \in Channels, NEW offset \in Offsets, NEW bytes \in Lengths,
               relatio(ch, offset, bytes)
        PROVE  Channel!Next
    BY <2>5, RelatioChannel DEF Channel!Next
  <2>6. ASSUME NEW ch \in Channels, NEW at \in Reports(ch), efficere(ch, at)
        PROVE  Channel!Next \/ UNCHANGED Mapped
    BY <2>6, EfficereChannel DEF Channel!Next
  <2>7. ASSUME NEW ch \in Channels, NEW failed \in BOOLEAN, completed(ch, failed)
        PROVE  Channel!Next
    BY <2>7, CompletedChannel DEF Channel!Next
  <2>8. ASSUME NEW ch \in Channels, NEW recovered \in {"ABANDONED", "SCRUBBED"},
               resolve(ch, recovered)
        PROVE  Channel!Next
    BY <2>8, ResolveChannel DEF Channel!Next
  <2> QED BY <1>2, <2>1, <2>2, <2>3, <2>4, <2>5, <2>6, <2>7, <2>8 DEF Application
<1>3. CASE PollBegin  BY <1>3, PollBeginChannel DEF Channel!Next
<1>4. ASSUME NEW ch \in Channels, Walk(ch) PROVE Channel!Next \/ UNCHANGED Mapped
  BY <1>4, WalkChannel DEF Channel!Next
<1>5. CASE \/ PollShort \/ PollWalk \/ PollEnd \/ raise \/ (\E ch \in Channels : Write(ch))
           \/ UNCHANGED vars
  BY <1>1, <1>5 DEF PollShort, PollWalk, PollEnd, raise, Write, vars
<1> QED BY <1>2, <1>3, <1>4, <1>5 DEF Next, Poll

(* ImplementsChannel: every step of the context is one DmaChannel lets its   *)
(* channels take: one outcome to a transfer, no stall but on a running      *)
(* channel, no resolve but of a stalled one, no detach under a transfer.    *)
THEOREM ContextImplementsChannels == Spec => ImplementsChannel
<1>1. Init => Channel!Init
  <2> SUFFICES ASSUME Init PROVE Channel!Init  OBVIOUS
  <2>1. ASSUME NEW ch \in Channels PROVE State(ch) = "detached" /\ Leaving(ch) = FALSE
    BY DEF Init, Detached, State, Leaving
  <2>2. Mapped = [ch \in Channels |-> [state |-> "detached", leaving |-> FALSE]]
    BY <2>1 DEF Mapped
  <2> QED BY <2>2 DEF Channel!Init, Mapped, Leaving
<1>2. OrdoInv /\ OrdoInv' /\ [Next]_vars => [Channel!Next]_Mapped
  BY NextChannel
<1>3. Init /\ [][Next]_vars /\ []OrdoInv => Channel!Init /\ [][Channel!Next]_Mapped
  BY <1>1, <1>2, PTL
<1> QED BY <1>3, Invariance, PTL DEF Spec, ImplementsChannel, Channel!Spec, Mapped, Leaving
=============================================================================
