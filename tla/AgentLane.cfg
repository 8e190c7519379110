\* Three producers on one normal slot and one urgent one.
CONSTANTS
  NormalSlots = 1
  UrgentSlots = 1
  MaxCommits = 1
  MaxLeases = 1
  MaxTroubles = 1
SPECIFICATION FairSpec
INVARIANTS TypeOK NoLostWake SlotsCoverQueues ParkedIsCurrent
INVARIANTS DeadlineHandsOver
PROPERTY LaneNeverStuck
CHECK_DEADLOCK FALSE
