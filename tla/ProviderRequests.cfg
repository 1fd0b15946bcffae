SPECIFICATION Spec
CONSTANTS
  r1 = r1
  r2 = r2
  r3 = r3
  k1 = k1
  k2 = k2
  None = None
  Readers = {r1, r2, r3}
  Keys = {k1, k2}
  Calls = {1, 2, 3, 4, 5, 6}
  Daily = 2
  PerMinute = 2
  Window = 1
  MaxMemo = 1
  Slots = 1
  MaxHour = 1
  Journeys <- MCJourneys
CHECK_DEADLOCK FALSE
INVARIANTS
  WorkIsSharedAlive
  DailyLimitKept
PROPERTY
  EveryReaderIsAnswered
