SPECIFICATION FairSpec
CONSTANTS
  Kinds <- AllKinds
  Timeout = 9
  Sleep = 2
  MaxNap = 3
  MaxProbe = 2
  Grace = 3
  RejectMax = 3
INVARIANTS
  TypeOK
  DeadlineBeforeLimit
  NoticedInTime
  AbortTakesTime
  RebootIsReal
  PickedDesktop
PROPERTIES
  WaitEnds
CHECK_DEADLOCK FALSE
