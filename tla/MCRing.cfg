\* One ring of every shape init accepts up to four bytes; counters of three bits.
CONSTANTS
  CapacityMost = 4
  SegmentSizes = {0, 1, 2}
  Width = 3
  Values = 5
  Loculi = 2
  Holders = {h1, h2}
SPECIFICATION RingsRun
INVARIANTS TypeOK CopiesApart SnapshotsHold KeepoutHolds
PROPERTIES ImplementsFifo
CHECK_DEADLOCK FALSE
