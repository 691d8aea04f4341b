\* One channel submitted within its keepalive window of the clock's wrap.
CONSTANTS
  Channels = {1}
  Regions = {3}
  Extent = 2
  Offsets = {0}
  Lengths = {2}
  Word = 2
  Width = 3
  ProgressWidth = 16
  SettleMicros = 1
  KeepaliveMicros = 3
  TicksPerMicro = 1
  Answers = {TRUE}
  Ticks = {1, 2}
  ClockMost = 12
SPECIFICATION Spec
INVARIANT StalledHonestly
CHECK_DEADLOCK FALSE
