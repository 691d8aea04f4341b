CONSTANTS
  Channels = {1, 2}
  Regions = {3}
  Extent = 3
  Offsets = {0}
  Lengths = {3}
  Word = 2
  Width = 4
  ProgressWidth = 16
  SettleMicros = 1
  KeepaliveMicros = 1
  TicksPerMicro = 2
  Answers = {TRUE}
  Ticks = {1, 3}
  ClockMost = 2
SPECIFICATION Spec
INVARIANTS TypeOK NothingMissed StalledHonestly WritesHeld MeasuredTold
PROPERTIES ImplementsChannel DetachEnds
CHECK_DEADLOCK FALSE
