-------------------------------- MODULE MCRings --------------------------------
(***************************************************************************)
(* The ring and its twin under one roof.  A ring is worked through the     *)
(* entries of one of the two files.  Where that is the twin's, the calls   *)
(* keep locals of their own, and the ring's producer, consumer, holders    *)
(* and keepouts are read off them: what is stated of the ring below is so  *)
(* stated of both files.                                                   *)
(***************************************************************************)
EXTENDS MemoriaAnularis

(* init is handed no segment size, or one of these. *)
ASSUME EvenAssumption == 0 \in SegmentSizes

VARIABLES
  file,                          \* whose entries this ring's callers use
  filler, drainer, opener, keep  \* what the twin's calls keep

Twin == INSTANCE ConfiniumExclusivum WITH
  cap <- capacity, nsegs <- segment_count, seg <- segment_bytes,
  claim <- claimed, rel <- released

twinVars == <<filler, drainer, opener, keep>>
ringsVars == <<vars, file, twinVars>>

RingsInit ==
  \/ /\ file = "memoria_anularis" /\ Init
     /\ filler = Twin!Filling(0) /\ drainer = Twin!Draining(0)
     /\ opener = [c \in Holders |-> Twin!Opening] /\ keep = <<>>
  \/ /\ file = "confinium_exclusivum_infinitas" /\ Twin!infin_init
     /\ prod = Twin!ProducerView /\ cons = Twin!ConsumerView
     /\ holder = Twin!HolderView /\ keepout = Twin!KeepoutView

RingsNext ==
  \/ file = "memoria_anularis" /\ Next /\ UNCHANGED <<file, twinVars>>
  \/ /\ file = "confinium_exclusivum_infinitas" /\ Twin!Next /\ UNCHANGED file
     /\ prod' = Twin!ProducerView' /\ cons' = Twin!ConsumerView'
     /\ holder' = Twin!HolderView' /\ keepout' = Twin!KeepoutView'

RingsSpec == RingsInit /\ [][RingsNext]_ringsVars

(* A stream and loculi never look at the segments: one division stands for *)
(* all of them there.                                                      *)
OneDivision == use # "segments" => segment_count = 1

OneDivisionInit == RingsInit /\ OneDivision

RingsRun == OneDivisionInit /\ [][RingsNext]_ringsVars
=============================================================================
