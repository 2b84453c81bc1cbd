SPECIFICATION FairSpec
CONSTANTS
  RingSize = 2
  MaxReads = 2
  MaxEvents = 4
  MaxRestarts = 1
INVARIANTS TypeOK SlotIsWhole
PROPERTIES AcceptedIsOneEvent ReadsAdvance EventuallyRead
CHECK_DEADLOCK FALSE
